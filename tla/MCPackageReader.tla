--------------------------- MODULE MCPackageReader ---------------------------
(* Two readers and a trimmer; three blocks of one length, each in a segment  *)
(* of its own, one of which is installed later.  The caches of pages, blocks *)
(* and prefetched blocks and the probation queue hold one entry, so that     *)
(* requests displace each other's; there are two handles.                    *)
EXTENDS PackageReader

CONSTANTS r1, r2, trimmer, k1, k2, k3, p1, p2, s1, s2, s3

MCReaders == {r1, r2}
MCPageOf == (k1 :> p1) @@ (k2 :> p2) @@ (k3 :> p2)
MCSegmentOf == (k1 :> s1) @@ (k2 :> s2) @@ (k3 :> s3)
MCBlockLen == (k1 :> 1) @@ (k2 :> 1) @@ (k3 :> 1)
MCPageLen == (p1 :> 1) @@ (p2 :> 1)
Ask(k, c, p) == [key |-> k, access |-> c, prefetch |-> p]
MCRequests ==
  {Ask(k1, "Normal", FALSE), Ask(k1, "Normal", TRUE),
   Ask(k2, "Normal", FALSE), Ask(k2, "Hot", FALSE), Ask(k3, "Streaming", TRUE)}
===============================================================================
