----------------------------- MODULE MCBootFlow -----------------------------
(***************************************************************************)
(* Every platform, boot target and card, with hostapd's five attempts.     *)
(***************************************************************************)
EXTENDS BootFlow

MCPlatforms == {"Imx", "Ingenic", "V821"}
MCTargets == {"CatPlay", "Recovery"}
=============================================================================
