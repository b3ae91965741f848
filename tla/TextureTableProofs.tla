------------------------ MODULE TextureTableProofs ------------------------
(***************************************************************************)
(* TypeOK and the safety invariants of TextureTable, for every set of      *)
(* handles, levels, names and textures.                                    *)
(*                                                                         *)
(* None of the invariants is inductive alone.  What is missing is the      *)
(* memory of the last level load: LoadedPrefix says that the texture list  *)
(* still begins with the textures of g_lastLoadedLevel, which is what      *)
(* makes it right for a frame not to reload, and SameLevel that the game   *)
(* code swaps the data and the number of a level together.                 *)
(***************************************************************************)
EXTENDS TextureTable, TLAPS

SameLevel == progress # 0 => cpuLevel \in {NULL, progress}

LoadedPrefix ==
  alive /\ progress # 0 /\ lastLoaded # 0 =>
    LET c == LevelContents(lastLoaded, lastLoaded)
    IN /\ Len(c) <= Len(textureList)
       /\ \A i \in 1..Len(c) : textureList[i].shows = c[i]

TableInv == TypeOK /\ TableAligned /\ NothingLeaked /\ RegistryRight
Inv == /\ TableInv /\ SameLevel /\ LoadedPrefix /\ InFlightIntact /\ ScreenRight

\* The textures a level load pushes: one more than the level has materials.
LEMMA ContentsType ==
  ASSUME NEW d \in Level, NEW n \in Level
  PROVE  /\ LevelContents(d, n) \in Seq(Content)
         /\ Len(LevelContents(d, n)) = Len(Resolved[d][d]) + 1
         /\ Len(Resolved[d][d]) \in Nat
         /\ \A i \in 1..Len(LevelContents(d, n)) : LevelContents(d, n)[i] \in Content
         /\ \A m \in 1..Len(Resolved[d][n]) :
              m + 1 \in 1..Len(LevelContents(d, n)) /\ LevelContents(d, n)[m + 1] = Resolved[d][n][m]
         /\ LevelContents(d, n)[1] = White
<1> DEFINE R == Resolved[d][n]
<1>1. R \in Seq(Content) /\ Len(R) \in Nat /\ \A i \in 1..Len(R) : R[i] \in Content
  BY ContentAssumption
<1>2. Len(R) = Len(Resolved[d][d])
  BY ContentAssumption
<1>3. White \in Content
  BY ContentAssumption
<1>4. LevelContents(d, n) = [i \in 1..(Len(R) + 1) |-> IF i = 1 THEN White ELSE R[i - 1]]
  BY DEF LevelContents
<1>5. \A i \in 1..(Len(R) + 1) : (IF i = 1 THEN White ELSE R[i - 1]) \in Content
  BY <1>1, <1>3
<1>6. LevelContents(d, n) \in Seq(Content) /\ Len(LevelContents(d, n)) = Len(R) + 1
  BY <1>1, <1>4, <1>5
<1> QED
  BY <1>1, <1>2, <1>4, <1>5, <1>6

TableType ==
  /\ textureList \in Seq(Texture)
  /\ textureSets \in Seq(PoolSet \cup {NULL})
  /\ DOMAIN textureRegistry \subseteq Key
  /\ \A k \in DOMAIN textureRegistry : textureRegistry[k] \in Nat
  /\ lastLoaded \in Number
  /\ live \subseteq Image
  /\ written \subseteq PoolSet \X Texture

\* DestroyAllTextures leaves nothing behind in the driver.
LEMMA DestroyFreesAll ==
  ASSUME TypeOK, NothingLeaked, alive
  PROVE  LiveAfterDestroy = {} /\ WrittenAfterDestroy = {}
<1>1. LiveAfterDestroy = {}
  BY DEF NothingLeaked, LiveAfterDestroy
<1>2. ASSUME NEW w \in written
      PROVE  \E i \in 1..Len(textureSets) : textureSets[i] = w[1]
  BY DEF NothingLeaked, Allocated
<1> QED
  BY <1>1, <1>2 DEF WrittenAfterDestroy

\* A level load leaves a table in order that holds exactly the textures of
\* the level, white first.
LEMMA LoadStep ==
  ASSUME TypeOK, NothingLeaked, alive, alive', cpuLevel # NULL, LoadLevelTextures
  PROVE  /\ TableType'
         /\ TableAligned'
         /\ NothingLeaked'
         /\ RegistryRight'
         /\ lastLoaded' = DetectedLevel
         /\ Len(textureList') = Len(LevelContents(cpuLevel, DetectedLevel))
         /\ \A i \in 1..Len(textureList') :
              textureList'[i].shows = LevelContents(cpuLevel, DetectedLevel)[i]
<1> DEFINE c == LevelContents(cpuLevel, DetectedLevel)
           n == Len(c)
<1>1. cpuLevel \in Level /\ DetectedLevel \in Level
  <2>1. cpuLevel \in Level /\ progress \in Level \cup {0}
    BY DEF TypeOK, Number
  <2>2. Detect[cpuLevel] \in Level
    BY <2>1, ContentAssumption
  <2> QED
    BY <2>1, <2>2 DEF DetectedLevel
<1>2. n \in Nat /\ \A i \in 1..n : c[i] \in Content
  BY <1>1, ContentsType
<1>3. LiveAfterDestroy = {} /\ WrittenAfterDestroy = {}
  BY DestroyFreesAll
<1>4. PICK imgs \in NewImages(n, Image), sets \in NewSets(n, PoolSet) :
        /\ textureList' = [i \in 1..n |-> [image |-> imgs[i], shows |-> c[i]]]
        /\ textureSets' = sets
        /\ textureRegistry' = RegistryAfterDestroy
        /\ lastLoaded' = DetectedLevel
        /\ live' = {imgs[i] : i \in 1..n}
        /\ written' = Describe(sets, textureList')
  <2>1. /\ Image \ LiveAfterDestroy = Image
        /\ PoolSet \ {w[1] : w \in WrittenAfterDestroy} = PoolSet
    BY <1>3
  <2>2. PICK imgs \in NewImages(n, Image \ LiveAfterDestroy),
             sets \in NewSets(n, PoolSet \ {w[1] : w \in WrittenAfterDestroy}) :
        /\ textureList' = [i \in 1..n |-> [image |-> imgs[i], shows |-> c[i]]]
        /\ textureSets' = sets
        /\ textureRegistry' = RegistryAfterDestroy
        /\ lastLoaded' = DetectedLevel
        /\ live' = LiveAfterDestroy \cup {imgs[i] : i \in 1..n}
        /\ written' = WrittenAfterDestroy \cup Describe(sets, textureList')
    BY Zenon DEF LoadLevelTextures
  <2> HIDE DEF c
  <2>3. imgs \in NewImages(n, Image) /\ sets \in NewSets(n, PoolSet)
    BY <2>1, Zenon
  <2>4. live' = {imgs[i] : i \in 1..n}
    BY <1>3, <2>2
  <2>5. written' = Describe(sets, textureList')
    BY <1>3, <2>2
  <2> QED
    BY <2>2, <2>3, <2>4, <2>5, Zenon
<1> HIDE DEF c
<1>5. /\ imgs \in [1..n -> Image]
      /\ \A i, j \in 1..n : imgs[i] = imgs[j] => i = j
  BY DEF NewImages
<1>6. /\ sets \in [1..n -> PoolSet \cup {NULL}]
      /\ \A i, j \in 1..n : sets[i] = sets[j] => i = j \/ sets[i] = NULL
  BY DEF NewSets
<1>7. /\ textureList' \in Seq(Texture)
      /\ Len(textureList') = n
      /\ \A i \in 1..n : /\ textureList'[i] \in Texture
                         /\ textureList'[i].image = imgs[i]
                         /\ textureList'[i].shows = c[i]
  <2>1. \A i \in 1..n : [image |-> imgs[i], shows |-> c[i]] \in Texture
    BY <1>2, <1>5 DEF Texture
  <2> QED
    BY <1>2, <1>4, <2>1
<1>8. textureSets' \in Seq(PoolSet \cup {NULL}) /\ Len(textureSets') = n
  BY <1>2, <1>4, <1>6
<1>9. textureRegistry' = <<>> /\ DOMAIN textureRegistry' = {}
  BY <1>4 DEF RegistryAfterDestroy
<1>10. written' = {<<sets[i], textureList'[i]>> : i \in {j \in 1..n : sets[j] # NULL}}
  BY <1>4, <1>8 DEF Describe
<1>11. TableType'
  <2>1. written' \subseteq PoolSet \X Texture
    BY <1>6, <1>7, <1>10
  <2>2. live' \subseteq Image
    BY <1>4, <1>5
  <2> QED
    BY <1>1, <1>4, <1>7, <1>8, <1>9, <2>1, <2>2 DEF TableType, Number
<1>12. TableAligned'
  BY <1>4, <1>6, <1>7, <1>8, <1>10 DEF TableAligned
<1>13. NothingLeaked'
  <2>1. live' = {textureList'[i].image : i \in 1..Len(textureList')}
    BY <1>4, <1>7
  <2>2. Allocated' = {textureSets'[i] : i \in 1..Len(textureSets')} \ {NULL}
    <3>1. Allocated' = {sets[i] : i \in {j \in 1..n : sets[j] # NULL}}
      <4>1. Allocated' = {w[1] : w \in written'}
        BY DEF Allocated
      <4>2. ASSUME NEW w \in written'
            PROVE  w[1] \in {sets[i] : i \in {j \in 1..n : sets[j] # NULL}}
        BY <1>10
      <4>3. ASSUME NEW i \in 1..n, sets[i] # NULL
            PROVE  \E w \in written' : w[1] = sets[i]
        <5>1. <<sets[i], textureList'[i]>> \in written'
          BY <1>10, <4>3
        <5> QED
          BY <5>1
      <4> QED
        BY <4>1, <4>2, <4>3
    <3>2. {textureSets'[i] : i \in 1..Len(textureSets')} = {sets[i] : i \in 1..n}
      BY <1>4, <1>8
    <3> QED
      BY <3>1, <3>2
  <2>3. \A i, j \in 1..Len(textureList') :
          textureList'[i].image = textureList'[j].image => i = j
    BY <1>5, <1>7
  <2>4. \A i, j \in 1..Len(textureSets') :
          textureSets'[i] = textureSets'[j] => i = j \/ textureSets'[i] = NULL
    BY <1>4, <1>6, <1>8
  <2>5. \A v, w \in written' : v[1] = w[1] => v = w
    BY <1>6, <1>10
  <2> QED
    BY <2>1, <2>2, <2>3, <2>4, <2>5 DEF NothingLeaked
<1>14. RegistryRight'
  BY <1>9 DEF RegistryRight
<1> QED
  BY <1>4, <1>7, <1>11, <1>12, <1>13, <1>14 DEF c

\* A name loaded by GetTexture goes to the end of the table; nothing that
\* was there moves.
LEMMA GetTextureStep ==
  ASSUME TableInv, NEW k \in Key, GetTexture(k)
  PROVE  /\ TableType'
         /\ TableAligned'
         /\ NothingLeaked'
         /\ RegistryRight'
         /\ Len(textureList') = Len(textureList) + 1
         /\ \A i \in 1..Len(textureList) : textureList'[i] = textureList[i]
         /\ live \subseteq live' /\ written \subseteq written'
<1> DEFINE n == Len(textureList)
<1>1. PICK img \in Image \ live, s \in (PoolSet \ Allocated) \cup {NULL} :
        LET t == [image |-> img, shows |-> FileOf[k]]
        IN /\ textureList' = Append(textureList, t)
           /\ textureSets' = GrownSets(s)
           /\ textureRegistry' =
                [x \in DOMAIN textureRegistry \cup {k} |->
                   IF x = k THEN NewIndex ELSE textureRegistry[x]]
           /\ live' = live \cup {img}
           /\ written' = IF s = NULL THEN written ELSE written \cup {<<s, t>>}
  BY DEF GetTexture
<1> DEFINE t == [image |-> img, shows |-> FileOf[k]]
<1>2. /\ alive /\ alive' = alive /\ lastLoaded' = lastLoaded
      /\ k \notin DOMAIN textureRegistry
  BY DEF GetTexture, game
<1>3. /\ TypeOK /\ TableAligned /\ NothingLeaked /\ RegistryRight
      /\ n \in Nat /\ Len(textureSets) = n
  BY <1>2 DEF TableInv, TypeOK, TableAligned
<1>4. t \in Texture /\ t.image = img /\ t.shows = FileOf[k]
  BY ContentAssumption DEF Texture
<1>5. /\ textureList' \in Seq(Texture) /\ Len(textureList') = n + 1
      /\ \A i \in 1..n : textureList'[i] = textureList[i]
      /\ textureList'[n + 1] = t
  BY <1>1, <1>3, <1>4 DEF TypeOK
<1>6. /\ textureSets' \in Seq(PoolSet \cup {NULL}) /\ Len(textureSets') = n + 1
      /\ \A i \in 1..n : textureSets'[i] = textureSets[i]
      /\ textureSets'[n + 1] = s
  BY <1>1, <1>3 DEF TypeOK, GrownSets
<1>7. /\ DOMAIN textureRegistry' = DOMAIN textureRegistry \cup {k}
      /\ textureRegistry'[k] = n
      /\ \A x \in DOMAIN textureRegistry : textureRegistry'[x] = textureRegistry[x]
  BY <1>1, <1>2 DEF NewIndex
<1>8. live' = live \cup {img} /\ img \notin live
  BY <1>1
<1>9. /\ s = NULL => written' = written
      /\ s # NULL => written' = written \cup {<<s, t>>} /\ s \in PoolSet /\ s \notin Allocated
  BY <1>1
<1> HIDE DEF t
<1>10. TableType'
  <2>1. written' \subseteq PoolSet \X Texture
    BY <1>3, <1>4, <1>9 DEF TypeOK
  <2>2. \A x \in DOMAIN textureRegistry' : textureRegistry'[x] \in Nat
    BY <1>3, <1>7 DEF TypeOK
  <2> QED
    BY <1>2, <1>3, <1>5, <1>6, <1>7, <1>8, <2>1, <2>2 DEF TableType, TypeOK
<1>11. TableAligned'
  <2>1. ASSUME NEW i \in 1..(n + 1)
        PROVE  /\ textureList'[i].image \in live'
               /\ textureSets'[i] # NULL => <<textureSets'[i], textureList'[i]>> \in written'
    <3>1. CASE i = n + 1
      BY <1>4, <1>5, <1>6, <1>8, <1>9, <3>1
    <3>2. CASE i \in 1..n
      BY <1>2, <1>3, <1>5, <1>6, <1>8, <1>9, <3>2 DEF TableAligned
    <3> QED
      BY <1>3, <3>1, <3>2
  <2> QED
    BY <1>5, <1>6, <2>1 DEF TableAligned
<1>12. NothingLeaked'
  <2>1. live' = {textureList'[i].image : i \in 1..(n + 1)}
    BY <1>2, <1>3, <1>4, <1>5, <1>8 DEF NothingLeaked
  <2>2. Allocated' = IF s = NULL THEN Allocated ELSE Allocated \cup {s}
    <3>1. CASE s = NULL
      BY <1>9, <3>1 DEF Allocated
    <3>2. CASE s # NULL
      <4>1. written' = written \cup {<<s, t>>}
        BY <1>9, <3>2
      <4>2. <<s, t>>[1] = s
        OBVIOUS
      <4>3. \A a : (\E w \in written' : a = w[1]) <=> (\E w \in written : a = w[1]) \/ a = s
        BY <4>1, <4>2
      <4>4. \A a : a \in Allocated' <=> a \in Allocated \/ a = s
        BY <4>3 DEF Allocated
      <4> QED
        BY <3>2, <4>4
    <3> QED
      BY <3>1, <3>2
  <2>3. {textureSets'[i] : i \in 1..(n + 1)} = {textureSets[i] : i \in 1..n} \cup {s}
    BY <1>3, <1>6
  <2>4. Allocated' = {textureSets'[i] : i \in 1..(n + 1)} \ {NULL}
    BY <1>2, <1>3, <2>2, <2>3 DEF NothingLeaked
  <2>5. ASSUME NEW i \in 1..(n + 1), NEW j \in 1..(n + 1),
               textureList'[i].image = textureList'[j].image
        PROVE  i = j
    BY <1>2, <1>3, <1>4, <1>5, <1>8, <2>5 DEF NothingLeaked
  <2>6. ASSUME NEW i \in 1..(n + 1), NEW j \in 1..(n + 1),
               textureSets'[i] = textureSets'[j], textureSets'[i] # NULL
        PROVE  i = j
    <3>1. \A h \in 1..n : textureSets[h] = s => s = NULL
      BY <1>2, <1>3, <1>9 DEF NothingLeaked
    <3> QED
      BY <1>2, <1>3, <1>6, <2>6, <3>1 DEF NothingLeaked
  <2>7. ASSUME NEW v \in written', NEW w \in written', v[1] = w[1]
        PROVE  v = w
    <3>1. \A u \in written : u[1] \in Allocated
      BY DEF Allocated
    <3> QED
      BY <1>2, <1>3, <1>9, <2>7, <3>1 DEF NothingLeaked
  <2> QED
    BY <1>5, <1>6, <2>1, <2>4, <2>5, <2>6, <2>7 DEF NothingLeaked
<1>13. RegistryRight'
  <2>1. ASSUME NEW x \in DOMAIN textureRegistry
        PROVE  /\ textureRegistry'[x] \in Nat /\ textureRegistry'[x] < n
               /\ textureList'[textureRegistry'[x] + 1].shows = FileOf[x]
    <3>1. textureRegistry[x] \in Nat /\ textureRegistry[x] < n
      BY <1>3 DEF TypeOK, RegistryRight
    <3>2. textureRegistry[x] + 1 \in 1..n
      BY <1>3, <3>1
    <3> QED
      BY <1>3, <1>5, <1>7, <3>1, <3>2 DEF RegistryRight
  <2>2. textureRegistry'[k] = n /\ textureList'[n + 1].shows = FileOf[k]
    BY <1>4, <1>5, <1>7
  <2>3. n < n + 1 /\ \A m \in Nat : m < n => m < n + 1
    BY <1>3
  <2> QED
    BY <1>3, <1>5, <1>7, <2>1, <2>2, <2>3 DEF RegistryRight
<1> QED
  BY <1>5, <1>8, <1>9, <1>10, <1>11, <1>12, <1>13

\* A step that leaves the table and the renderer alone keeps what the table
\* promises.
LEMMA TableUnchanged ==
  ASSUME Inv, alive' = alive, UNCHANGED table
  PROVE  /\ TableType' /\ TableAligned' /\ NothingLeaked' /\ RegistryRight'
         /\ progress # 0 \/ progress' = 0 => LoadedPrefix'
<1>1. /\ textureList' = textureList /\ textureSets' = textureSets
      /\ textureRegistry' = textureRegistry /\ lastLoaded' = lastLoaded
      /\ live' = live /\ written' = written /\ alive' = alive
  BY DEF table
<1>2. TypeOK /\ TableAligned /\ NothingLeaked /\ RegistryRight /\ LoadedPrefix
  BY DEF Inv, TableInv
<1>3. TableType' /\ TableAligned' /\ RegistryRight'
  <2>1. TableType'
    BY <1>1, <1>2 DEF TypeOK, TableType
  <2>2. TableAligned'
    BY <1>1, <1>2 DEF TableAligned
  <2>3. RegistryRight'
    BY <1>1, <1>2 DEF RegistryRight
  <2> QED
    BY <2>1, <2>2, <2>3
<1>4. NothingLeaked'
  <2>1. Allocated' = Allocated
    BY <1>1 DEF Allocated
  <2>2. {textureList'[i].image : i \in 1..Len(textureList')}
          = {textureList[i].image : i \in 1..Len(textureList)}
    BY <1>1
  <2>3. {textureSets'[i] : i \in 1..Len(textureSets')}
          = {textureSets[i] : i \in 1..Len(textureSets)}
    BY <1>1
  <2>4. alive' => alive
    BY Zenon
  <2> QED
    BY <1>1, <1>2, <2>1, <2>2, <2>3, <2>4, Zenon DEF NothingLeaked
<1>5. progress # 0 \/ progress' = 0 => LoadedPrefix'
  <2>1. alive' => alive
    BY Zenon
  <2> SUFFICES ASSUME progress # 0, alive', lastLoaded' # 0
               PROVE  LET c == LevelContents(lastLoaded', lastLoaded')
                      IN /\ Len(c) <= Len(textureList')
                         /\ \A i \in 1..Len(c) : textureList'[i].shows = c[i]
    BY DEF LoadedPrefix, LevelContents
  <2> QED
    BY <1>1, <1>2, <2>1 DEF LoadedPrefix
<1> QED
  BY <1>3, <1>4, <1>5

\* The head of a frame keeps the table in order, reloads exactly when the
\* textures are not those of the level, and leaves in flight only frames
\* whose sets it has not touched.
LEMMA PrepareStep ==
  ASSUME Inv, alive, alive' = alive, UNCHANGED game, NEW p, PrepareFrame(p)
  PROVE  /\ TableType'
         /\ TableAligned'
         /\ NothingLeaked'
         /\ RegistryRight'
         /\ LoadedPrefix'
         /\ p \subseteq PoolSet \X Texture
         /\ \A q \in p : q \in written' /\ q[2].image \in live'
         /\ progress # 0 /\ cpuLevel # NULL => lastLoaded' = progress
<1>1. /\ TypeOK /\ TableAligned /\ NothingLeaked /\ RegistryRight /\ TableType
      /\ SameLevel /\ LoadedPrefix /\ InFlightIntact
      /\ cpuLevel' = cpuLevel /\ progress' = progress
  BY DEF Inv, TableInv, game, TypeOK, TableType
<1>2. CASE MustReload /\ p = InFlightAfterDestroy /\ LoadLevelTextures
  <2>1. cpuLevel # NULL /\ cpuLevel \in Level
    BY <1>1, <1>2 DEF MustReload, TypeOK
  <2>2. /\ TableType' /\ TableAligned' /\ NothingLeaked' /\ RegistryRight'
        /\ lastLoaded' = DetectedLevel
        /\ Len(textureList') = Len(LevelContents(cpuLevel, DetectedLevel))
        /\ \A i \in 1..Len(textureList') :
             textureList'[i].shows = LevelContents(cpuLevel, DetectedLevel)[i]
    BY <1>1, <1>2, <2>1, LoadStep
  <2>3. progress # 0 => cpuLevel = progress /\ DetectedLevel = progress
    BY <1>1, <2>1 DEF SameLevel, DetectedLevel
  <2>4. LoadedPrefix'
    <3> SUFFICES ASSUME alive', progress' # 0, lastLoaded' # 0
                 PROVE  LET c == LevelContents(lastLoaded', lastLoaded')
                        IN /\ Len(c) <= Len(textureList')
                           /\ \A i \in 1..Len(c) : textureList'[i].shows = c[i]
      BY DEF LoadedPrefix, LevelContents
    <3>1. lastLoaded' = cpuLevel /\ DetectedLevel = cpuLevel
      BY <1>1, <2>2, <2>3
    <3>2. Len(LevelContents(cpuLevel, cpuLevel)) \in Nat
      <4>1. cpuLevel \in Number
        BY <2>1 DEF Number
      <4> QED
        BY <2>1, <4>1, ContentsType
    <3> QED
      BY <2>2, <3>1, <3>2
  <2> QED
    BY <1>1, <1>2, <2>2, <2>3, <2>4 DEF InFlightAfterDestroy
<1>3. CASE ~MustReload /\ p = pending /\ UNCHANGED table
  <2>1. lastLoaded' = lastLoaded /\ live' = live /\ written' = written
    BY <1>3 DEF table
  <2>2. TableType' /\ TableAligned' /\ NothingLeaked' /\ RegistryRight' /\ LoadedPrefix'
    BY <1>1, <1>3, TableUnchanged
  <2>3. progress # 0 /\ cpuLevel # NULL => lastLoaded' = progress
    BY <1>3, <2>1 DEF MustReload
  <2>4. p \subseteq PoolSet \X Texture /\ \A q \in p : q \in written' /\ q[2].image \in live'
    BY <1>1, <1>3, <2>1 DEF InFlightIntact, TypeOK
  <2> QED
    BY <2>2, <2>3, <2>4
<1> QED
  BY <1>2, <1>3 DEF PrepareFrame

\* A set that describes a texture whose image exists shows that texture.
LEMMA SeenRight ==
  ASSUME NEW ws, NEW images, NEW s, NEW t, s # NULL, <<s, t>> \in ws, t.image \in images,
         \A w \in ws : w[1] = s => w = <<s, t>>
  PROVE  Seen(s, ws, images) = t.shows
<1> DEFINE ts == {w[2] : w \in {v \in ws : v[1] = s}}
<1>1. ts = {t}
  <2>1. \A x \in ts : x = t
    OBVIOUS
  <2>2. <<s, t>> \in {v \in ws : v[1] = s} /\ <<s, t>>[2] = t
    OBVIOUS
  <2>3. t \in ts
    BY <2>2
  <2> QED
    BY <2>1, <2>3
<1>2. (CHOOSE x \in ts : x.image \in images) = t
  BY <1>1
<1>3. Seen(s, ws, images) = IF s # NULL /\ \E x \in ts : x.image \in images
                              THEN (CHOOSE x \in ts : x.image \in images).shows ELSE NULL
  BY DEF Seen
<1> HIDE DEF ts
<1> QED
  BY <1>1, <1>2, <1>3

\* What a drawn frame shows for material m of the level in use, given a
\* table in order that begins with the textures of that level.
InOrder(list, sets, ws, images) ==
  /\ list \in Seq(Texture) /\ sets \in Seq(PoolSet \cup {NULL})
  /\ Len(sets) = Len(list)
  /\ \A i \in 1..Len(sets) :
       list[i].image \in images /\ (sets[i] # NULL => <<sets[i], list[i]>> \in ws)
  /\ \A v, w \in ws : v[1] = w[1] => v = w

BeginsWith(list, l) ==
  /\ Len(LevelContents(l, l)) <= Len(list)
  /\ \A i \in 1..Len(LevelContents(l, l)) : list[i].shows = LevelContents(l, l)[i]

\* A list that begins with the textures of the level, in a table in order,
\* shows them: each set its own texture, a missing one that of set 0.
LEMMA ShownRight ==
  ASSUME NEW l \in Level, NEW list, NEW sets, NEW ws, NEW images,
         InOrder(list, sets, ws, images), BeginsWith(list, l),
         NEW m \in 1..Len(Resolved[l][l])
  PROVE  /\ m < Len(sets) /\ 0 < Len(sets)
         /\ sets[m + 1] # NULL => Seen(SetFor(sets, m), ws, images) = Resolved[l][l][m]
         /\ sets[m + 1] = NULL /\ sets[1] # NULL
              => Seen(SetFor(sets, m), ws, images) = White
<1> DEFINE c == LevelContents(l, l)
<1> USE DEF InOrder, BeginsWith
<1>0. l \in Number
  BY DEF Number
<1>1. /\ Len(c) \in Nat /\ m + 1 \in 1..Len(c) /\ c[m + 1] = Resolved[l][l][m]
      /\ c[1] = White /\ 1 \in 1..Len(c)
  <2>1. /\ Len(c) = Len(Resolved[l][l]) + 1 /\ Len(Resolved[l][l]) \in Nat
        /\ m + 1 \in 1..Len(c) /\ c[m + 1] = Resolved[l][l][m] /\ c[1] = White
    BY <1>0, ContentsType
  <2> QED
    BY <2>1
<1> HIDE DEF c
<1>2. /\ m \in Nat /\ m < Len(sets) /\ 0 < Len(sets)
      /\ m + 1 \in 1..Len(sets) /\ 1 \in 1..Len(sets)
  BY <1>1 DEF c
<1>3. ASSUME NEW i \in 1..Len(sets), sets[i] # NULL
      PROVE  Seen(sets[i], ws, images) = list[i].shows
  <2>1. <<sets[i], list[i]>> \in ws /\ list[i].image \in images
    BY <1>3
  <2>2. \A w \in ws : w[1] = sets[i] => w = <<sets[i], list[i]>>
    BY <2>1
  <2> QED
    BY <1>3, <2>1, <2>2, SeenRight
<1>4. SetFor(sets, m) = IF sets[m + 1] = NULL THEN sets[1] ELSE sets[m + 1]
  BY <1>2 DEF SetFor
<1> QED
  BY <1>1, <1>2, <1>3, <1>4 DEF c

\* What a shader sees is a content, or nothing defined.
LEMMA SeenType ==
  ASSUME NEW ws \in SUBSET (PoolSet \X Texture), NEW images, NEW s
  PROVE  Seen(s, ws, images) \in Content \cup {NULL}
<1> DEFINE ts == {w[2] : w \in {v \in ws : v[1] = s}}
<1>1. \A t \in ts : t \in Texture
  OBVIOUS
<1>2. \A t \in Texture : t.shows \in Content
  BY DEF Texture
<1>3. Seen(s, ws, images) = IF s # NULL /\ \E x \in ts : x.image \in images
                              THEN (CHOOSE x \in ts : x.image \in images).shows ELSE NULL
  BY DEF Seen
<1> HIDE DEF ts
<1> QED
  BY <1>1, <1>2, <1>3

\* The empty table satisfies the inductive invariant.
LEMMA InitInv == Init => Inv
<1> SUFFICES ASSUME Init PROVE Inv
  OBVIOUS
<1>1. TypeOK
  <2>1. <<>> \in Seq(Texture) /\ <<>> \in Seq(PoolSet \cup {NULL}) /\ DOMAIN <<>> = {}
    OBVIOUS
  <2>2. lastLoaded \in Number /\ progress \in Number
    BY DEF Init, Number
  <2>3. /\ alive \in BOOLEAN /\ cpuLevel = NULL /\ screen = NULL
        /\ live = {} /\ written = {} /\ pending = {}
        /\ textureList = <<>> /\ textureSets = <<>> /\ textureRegistry = <<>>
    BY DEF Init
  <2> QED
    BY <2>1, <2>2, <2>3 DEF TypeOK
<1>2. TableAligned /\ NothingLeaked /\ RegistryRight
  BY DEF Init, TableAligned, NothingLeaked, RegistryRight, Allocated
<1>3. SameLevel /\ LoadedPrefix /\ InFlightIntact /\ ScreenRight
  BY DEF Init, SameLevel, LoadedPrefix, InFlightIntact, ScreenRight
<1> QED
  BY <1>1, <1>2, <1>3 DEF Inv, TableInv

\* A drawn frame shows its level: it reloaded, or the prefix of the list was
\* already right; and what it binds is what the table holds.
LEMMA DrawFrameStep == Inv /\ DrawFrame => Inv'
<1> SUFFICES ASSUME Inv, DrawFrame PROVE Inv'
  OBVIOUS
<1>1. /\ alive /\ alive' = alive /\ cpuLevel # NULL /\ UNCHANGED game
      /\ cpuLevel' = cpuLevel /\ progress' = progress
  BY DEF DrawFrame, game
<1>2. /\ TypeOK /\ SameLevel /\ cpuLevel \in Level /\ progress \in Number
  BY <1>1 DEF Inv, TableInv, TypeOK
<1>3. PICK rest \in {pending, InFlightAfterDestroy} :
        /\ PrepareFrame(rest)
        /\ pending' = rest \cup {w \in written' :
                        \E i \in 1..Len(textureSets') : textureSets'[i] = w[1]}
  BY DEF DrawFrame
<1>4. /\ TableType' /\ TableAligned' /\ NothingLeaked' /\ RegistryRight'
      /\ LoadedPrefix'
      /\ rest \subseteq PoolSet \X Texture
      /\ \A q \in rest : q \in written' /\ q[2].image \in live'
      /\ progress # 0 /\ cpuLevel # NULL => lastLoaded' = progress
  BY <1>1, <1>3, PrepareStep
<1>5. alive'
  BY <1>1
<1>6. InFlightIntact'
  <2>1. ASSUME NEW w \in written', NEW i \in 1..Len(textureSets'), textureSets'[i] = w[1]
        PROVE  w[2].image \in live'
    <3>1. w[1] # NULL
      BY <1>4, NullAssumption DEF TableType
    <3>2. <<textureSets'[i], textureList'[i]>> \in written' /\ textureList'[i].image \in live'
      BY <1>4, <1>5, <2>1, <3>1 DEF TableAligned
    <3>3. w = <<textureSets'[i], textureList'[i]>>
      BY <1>4, <1>5, <2>1, <3>2 DEF NothingLeaked
    <3> QED
      BY <3>2, <3>3
  <2> QED
    BY <1>3, <1>4, <2>1 DEF InFlightIntact
<1> DEFINE n == Len(Resolved[cpuLevel][cpuLevel])
           shown(m) == Seen(SetFor(textureSets', m), written', live')
           lost == {i \in 0..n : i < Len(textureSets') /\ textureSets'[i + 1] = NULL}
<1>7. screen' = [level |-> cpuLevel, shows |-> [m \in 1..n |-> shown(m)], failed |-> lost]
  BY DEF DrawFrame
<1>8. n \in Nat
  BY <1>2, ContentAssumption
<1>9. TypeOK'
  <2>1. pending' \subseteq PoolSet \X Texture
    BY <1>3, <1>4 DEF TableType
  <2>2. \A m \in 1..n : shown(m) \in Content \cup {NULL}
    BY <1>4, SeenType DEF TableType
  <2>3. lost \subseteq Nat
    BY <1>8
  <2>4. screen' \in Screen
    <3> HIDE DEF shown, lost, n
    <3>1. [m \in 1..n |-> shown(m)] \in Seq(Content \cup {NULL})
      BY <1>8, <2>2
    <3> QED
      BY <1>2, <1>7, <2>3, <3>1 DEF Screen
  <2> QED
    BY <1>1, <1>2, <1>4, <2>1, <2>4 DEF TypeOK, TableType
<1>10. ScreenRight'
  <2> SUFFICES ASSUME progress # 0,
                      NEW m \in 1..Len(Resolved[cpuLevel][cpuLevel])
               PROVE  \/ m \notin lost /\ shown(m) = Resolved[cpuLevel][cpuLevel][m]
                      \/ m \in lost /\ 0 \notin lost /\ shown(m) = White
                      \/ m \in lost /\ 0 \in lost
    <3>1. cpuLevel \in Number
      BY <1>2 DEF Number
    <3>2. Len(Resolved[cpuLevel][cpuLevel]) = n
      BY <1>2, <3>1, ContentAssumption
    <3>3. /\ screen'.level = cpuLevel /\ screen'.failed = lost
          /\ \A m \in 1..n : screen'.shows[m] = shown(m)
      BY <1>7
    <3> HIDE DEF shown, lost, n
    <3> QED
      BY <1>1, <3>2, <3>3 DEF ScreenRight
  <2>1. progress = cpuLevel /\ lastLoaded' = cpuLevel
    BY <1>1, <1>2, <1>4 DEF SameLevel
  <2>2. lastLoaded' # 0
    BY <1>2, <2>1, LevelAssumption
  <2>3. BeginsWith(textureList', cpuLevel)
    BY <1>1, <1>4, <1>5, <2>1, <2>2 DEF LoadedPrefix, LevelContents, BeginsWith
  <2>4. /\ m < Len(textureSets') /\ 0 < Len(textureSets')
        /\ textureSets'[m + 1] # NULL => shown(m) = Resolved[cpuLevel][cpuLevel][m]
        /\ textureSets'[m + 1] = NULL /\ textureSets'[1] # NULL => shown(m) = White
    <3>1. InOrder(textureList', textureSets', written', live')
      BY <1>4, <1>5 DEF TableType, TableAligned, NothingLeaked, InOrder
    <3> QED
      BY <1>2, <2>3, <3>1, ShownRight
  <2>5. m \in 0..n /\ 0 \in 0..n
    <3>1. cpuLevel \in Number
      BY <1>2 DEF Number
    <3>2. Len(Resolved[cpuLevel][cpuLevel]) = n
      BY <1>2, <3>1, ContentAssumption
    <3> QED
      BY <1>8, <3>2
  <2> HIDE DEF shown, n
  <2> QED
    BY <2>4, <2>5
<1>11. SameLevel'
  BY <1>1, <1>2 DEF SameLevel
<1> QED
  BY <1>4, <1>6, <1>9, <1>10, <1>11 DEF Inv, TableInv

\* Every action keeps the inductive invariant.
LEMMA NextInv == Inv /\ [Next]_vars => Inv'
<1> SUFFICES ASSUME Inv, [Next]_vars PROVE Inv'
  OBVIOUS
<1>0. /\ TypeOK /\ TableAligned /\ NothingLeaked /\ RegistryRight
      /\ SameLevel /\ LoadedPrefix /\ InFlightIntact /\ ScreenRight
  BY DEF Inv, TableInv
<1>1. CASE FrameWithoutDraw
  <2>1. /\ alive /\ alive' = alive /\ UNCHANGED game /\ PrepareFrame(pending')
        /\ cpuLevel' = cpuLevel /\ progress' = progress /\ screen' = screen
    BY <1>1 DEF FrameWithoutDraw, game
  <2>2. /\ TableType' /\ TableAligned' /\ NothingLeaked' /\ RegistryRight' /\ LoadedPrefix'
        /\ pending' \subseteq PoolSet \X Texture
        /\ \A q \in pending' : q \in written' /\ q[2].image \in live'
    BY <2>1, PrepareStep
  <2>3. TypeOK'
    BY <1>0, <2>1, <2>2 DEF TypeOK, TableType
  <2>4. SameLevel' /\ InFlightIntact' /\ ScreenRight'
    BY <1>0, <2>1, <2>2 DEF SameLevel, InFlightIntact, ScreenRight
  <2> QED
    BY <2>2, <2>3, <2>4 DEF Inv, TableInv
<1>2. CASE DrawFrame
  BY <1>2, DrawFrameStep
<1>3. ASSUME NEW k \in Key, GetTexture(k)
      PROVE  Inv'
  <2>1. /\ alive' = alive /\ lastLoaded' = lastLoaded /\ cpuLevel' = cpuLevel
        /\ progress' = progress /\ pending' = pending /\ screen' = screen /\ alive
    BY <1>3 DEF GetTexture, game
  <2>2. /\ TableType' /\ TableAligned' /\ NothingLeaked' /\ RegistryRight'
        /\ Len(textureList') = Len(textureList) + 1
        /\ \A i \in 1..Len(textureList) : textureList'[i] = textureList[i]
        /\ live \subseteq live' /\ written \subseteq written'
    BY <1>3, GetTextureStep DEF Inv
  <2>3. TypeOK'
    BY <1>0, <2>1, <2>2 DEF TypeOK, TableType
  <2>4. SameLevel' /\ InFlightIntact' /\ ScreenRight'
    BY <1>0, <2>1, <2>2 DEF SameLevel, InFlightIntact, ScreenRight
  <2>5. LoadedPrefix'
    <3> SUFFICES ASSUME progress # 0, lastLoaded # 0
                 PROVE  LET c == LevelContents(lastLoaded, lastLoaded)
                        IN /\ Len(c) <= Len(textureList')
                           /\ \A i \in 1..Len(c) : textureList'[i].shows = c[i]
      BY <2>1 DEF LoadedPrefix, LevelContents
    <3> DEFINE c == LevelContents(lastLoaded, lastLoaded)
    <3>1. Len(c) <= Len(textureList) /\ \A i \in 1..Len(c) : textureList[i].shows = c[i]
      BY <1>0, <2>1 DEF LoadedPrefix
    <3>2. lastLoaded \in Level /\ lastLoaded \in Number
      BY <1>0 DEF TypeOK, Number
    <3>3. Len(c) \in Nat /\ Len(textureList) \in Nat
      BY <1>0, <3>2, ContentsType DEF TypeOK
    <3> HIDE DEF c
    <3>4. Len(c) <= Len(textureList')
      BY <2>2, <3>1, <3>3
    <3>5. \A i \in 1..Len(c) : textureList'[i].shows = c[i]
      BY <2>2, <3>1, <3>3
    <3> QED
      BY <3>4, <3>5, Zenon DEF c
  <2> QED
    BY <2>2, <2>3, <2>4, <2>5 DEF Inv, TableInv
<1>4. ASSUME NEW l \in Level, SwapLevel(l)
      PROVE  Inv'
  <2>1. /\ alive' = alive /\ UNCHANGED table /\ pending' = pending /\ screen' = screen
        /\ cpuLevel' = l /\ progress' = IF progress = 0 THEN 0 ELSE l
    BY <1>4 DEF SwapLevel
  <2>2. TableType' /\ TableAligned' /\ NothingLeaked' /\ RegistryRight'
    BY <2>1, TableUnchanged
  <2>3. LoadedPrefix'
    BY <2>1, TableUnchanged
  <2>4. TypeOK'
    BY <1>0, <2>1, <2>2 DEF TypeOK, TableType, Number
  <2>5. SameLevel' /\ ScreenRight'
    BY <1>0, <2>1 DEF SameLevel, ScreenRight
  <2>6. InFlightIntact'
    BY <1>0, <2>1 DEF InFlightIntact, table
  <2> QED
    BY <2>2, <2>3, <2>4, <2>5, <2>6 DEF Inv, TableInv
<1>5. CASE GpuRetires
  <2>1. /\ alive' = alive /\ UNCHANGED table /\ pending' \subseteq pending
        /\ screen' = screen /\ cpuLevel' = cpuLevel /\ progress' = progress
    BY <1>5 DEF GpuRetires, game
  <2>2. TableType' /\ TableAligned' /\ NothingLeaked' /\ RegistryRight'
    BY <2>1, TableUnchanged
  <2>3. LoadedPrefix'
    BY <2>1, TableUnchanged
  <2>4. TypeOK'
    BY <1>0, <2>1, <2>2 DEF TypeOK, TableType
  <2>5. SameLevel' /\ ScreenRight'
    BY <1>0, <2>1 DEF SameLevel, ScreenRight
  <2>6. InFlightIntact'
    BY <1>0, <2>1 DEF InFlightIntact, table
  <2> QED
    BY <2>2, <2>3, <2>4, <2>5, <2>6 DEF Inv, TableInv
<1>6. CASE DestroyRenderer
  <2>1. /\ alive' = FALSE /\ lastLoaded' = lastLoaded /\ live' = live /\ written' = written
        /\ textureList' = <<>> /\ textureSets' = <<>> /\ textureRegistry' = <<>>
        /\ cpuLevel' = cpuLevel /\ progress' = progress
        /\ pending' = pending /\ screen' = screen
    BY <1>6 DEF DestroyRenderer, game
  <2>2. <<>> \in Seq(Texture) /\ <<>> \in Seq(PoolSet \cup {NULL}) /\ DOMAIN <<>> = {}
    OBVIOUS
  <2>3. TypeOK'
    BY <1>0, <2>1, <2>2 DEF TypeOK
  <2>4. TableAligned' /\ NothingLeaked' /\ InFlightIntact' /\ LoadedPrefix'
    BY <2>1 DEF TableAligned, NothingLeaked, InFlightIntact, LoadedPrefix
  <2>5. RegistryRight'
    BY <2>1, <2>2 DEF RegistryRight
  <2>6. SameLevel' /\ ScreenRight'
    BY <1>0, <2>1 DEF SameLevel, ScreenRight
  <2> QED
    BY <2>3, <2>4, <2>5, <2>6 DEF Inv, TableInv
<1>7. CASE UNCHANGED vars
  <2>1. /\ alive' = alive /\ UNCHANGED table /\ pending' = pending
        /\ screen' = screen /\ cpuLevel' = cpuLevel /\ progress' = progress
    BY <1>7 DEF vars, game
  <2>2. TableType' /\ TableAligned' /\ NothingLeaked' /\ RegistryRight'
    BY <2>1, TableUnchanged
  <2>3. LoadedPrefix'
    BY <2>1, TableUnchanged
  <2>4. TypeOK'
    BY <1>0, <2>1, <2>2 DEF TypeOK, TableType
  <2>5. SameLevel' /\ ScreenRight'
    BY <1>0, <2>1 DEF SameLevel, ScreenRight
  <2>6. InFlightIntact'
    BY <1>0, <2>1 DEF InFlightIntact, table
  <2> QED
    BY <2>2, <2>3, <2>4, <2>5, <2>6 DEF Inv, TableInv
<1> QED
  BY <1>1, <1>2, <1>3, <1>4, <1>5, <1>6, <1>7 DEF Next

\* The inductive invariant holds in every reachable state.
THEOREM InvHolds == Spec => []Inv
  BY InitInv, NextInv, PTL DEF Spec

\* The types of the table, the driver and the screen.
THEOREM TypeCorrect == Spec => []TypeOK
<1>1. Inv => TypeOK
  BY DEF Inv, TableInv
<1> QED
  BY <1>1, InvHolds, PTL

\* textureList and textureSets never fall out of step.
THEOREM TablesAligned == Spec => []TableAligned
<1>1. Inv => TableAligned
  BY DEF Inv, TableInv
<1> QED
  BY <1>1, InvHolds, PTL

\* No level reload leaks an image or a descriptor set, and none frees one
\* twice.
THEOREM NoLeak == Spec => []NothingLeaked
<1>1. Inv => NothingLeaked
  BY DEF Inv, TableInv
<1> QED
  BY <1>1, InvHolds, PTL

\* GetTexture never answers with a stale index.
THEOREM RegistryCorrect == Spec => []RegistryRight
<1>1. Inv => RegistryRight
  BY DEF Inv, TableInv
<1> QED
  BY <1>1, InvHolds, PTL

\* Nothing a frame in flight uses is freed, rewritten or destroyed.
THEOREM InFlightSafe == Spec => []InFlightIntact
<1>1. Inv => InFlightIntact
  BY DEF Inv
<1> QED
  BY <1>1, InvHolds, PTL

\* Frames show the textures of their own level.
THEOREM ScreenCorrect == Spec => []ScreenRight
<1>1. Inv => ScreenRight
  BY DEF Inv
<1> QED
  BY <1>1, InvHolds, PTL
===========================================================================
