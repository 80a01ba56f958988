---------------------------- MODULE MCAssetReader ----------------------------
(* Up to five files: two of them stream, one is cut by its contents, one is  *)
(* small, one large.  The hashes of three collide at the end of the table.   *)
EXTENDS AssetReader, TLC

CONSTANTS bgm, big, clip, map, text, other, missing

Named(p, k, c, b) == [path |-> p, kind |-> k, compressed |-> c, bytes |-> b]
Files == <<Named(bgm, "music", TRUE, <<1, 2, 3, 4, 5>>), Named(big, "other", FALSE, <<1, 2, 2, 1, 2, 2>>),
           Named(clip, "audio", FALSE, <<1, 2>>), Named(map, "other", FALSE, <<>>),
           Named(text, "other", TRUE, <<3, 2, 1, 2>>)>>
MCTrees == {SelectSeq(Files, LAMBDA f : f.path \in S) :
              S \in {{}, {bgm, big, map, text}, {bgm, big, clip, map, text}}
                     \union {{p} : p \in {bgm, big, clip, map, text}}}
MCHash == (bgm :> 15) @@ (big :> 15) @@ (clip :> 7) @@ (map :> 0) @@ (text :> 14)
            @@ (other :> 15) @@ (missing :> 6)
MCSteps == {-2, 0, 3}
MCSqueezed(n) == IF n % 2 = 0 THEN n \div 2 ELSE n + 1
MCPathLength == [p \in DOMAIN MCHash |-> IF p = map THEN 2 ELSE 1]
===============================================================================
