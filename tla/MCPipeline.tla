----------------------------- MODULE MCPipeline -----------------------------
(* Two workers with channels of two slots: main blocks on a full channel,
   rings wrap, and both workers may lag behind.  Frames are IP, ARP and of a
   vendor's type in turn. *)
EXTENDS Pipeline, TLC
MCItem == 1 .. NumFrames
MCTypeBytes ==
  [f \in 1 .. NumFrames |->
     CASE f % 3 = 1 -> (12 :> 8 @@ 13 :> 0)
       [] f % 3 = 2 -> (12 :> 8 @@ 13 :> 6)
       [] OTHER     -> (12 :> 136 @@ 13 :> 181)]
=============================================================================
