-------------------------- MODULE MCVulkanSurface --------------------------
(* The bounds are in the configurations: three images with vsync, two      *)
(* without.                                                                *)
EXTENDS VulkanSurface
===========================================================================
