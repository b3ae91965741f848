------------------------- MODULE MCTextureResolve -------------------------
(***************************************************************************)
(* TextureResolve with the terrain of each level, two more files for two   *)
(* of them, and a ship.  Three materials do not name a file: two name the  *)
(* end of one, and one leaves out the extension.                           *)
(***************************************************************************)
EXTENDS TextureResolve

MCFileNames ==
  {"ground_material_0_basecolor.jpeg", "ground_material_0_normal.png",
   "ocean_material_0_basecolor.png", "ocean_diff.png",
   "albedo-diffuse.jpg", "night_lights_modified.png", "spaceship1diffuse.png"}

MCKd ==
  (MCFileNames \ {"ground_material_0_normal.png"}) \cup {"normal.png", "diff.png", "spaceship1diffuse"}

MCNearby == {"diff.png"}

MCWords == [n \in MCFileNames \cup MCKd |->
  CASE n = "ocean_material_0_basecolor.png"                    -> {"ocean"}
    [] n = "ocean_diff.png"                                    -> {"ocean"}
    [] n = "albedo-diffuse.jpg"                                -> {"albedo", "diffuse"}
    [] n = "night_lights_modified.png"                         -> {"night_lights"}
    [] n \in {"spaceship1diffuse", "spaceship1diffuse.png"}    -> {"ship", "spaceship1", "diffuse"}
    [] OTHER                                                   -> {}]

MCBegins == [n \in MCFileNames \cup MCKd |->
  CASE n \in {"ground_material_0_basecolor.jpeg", "ground_material_0_normal.png"} -> "ground"
    [] n \in {"ocean_material_0_basecolor.png", "ocean_diff.png"}                 -> "ocean"
    [] n = "albedo-diffuse.jpg"                                                   -> "albedo"
    [] OTHER                                                                      -> "other"]

MCEndsWith == [n \in MCFileNames \cup MCKd |-> {n} \cup
  CASE n = "ground_material_0_normal.png" -> {"normal.png"}
    [] n = "ocean_diff.png"               -> {"diff.png"}
    [] OTHER                              -> {}]

MCWithExt == [n \in MCFileNames \cup MCKd |->
  IF n = "spaceship1diffuse" THEN <<"spaceship1diffuse.png">> ELSE <<>>]
=============================================================================
