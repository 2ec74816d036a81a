----------------------------- MODULE MCStartup -----------------------------
(* Command lines around the limits of a signed 6-bit and an unsigned 5-bit integer,
   at 3 milliseconds per second and 4 bytes per MiB; two clients of the profiler. *)
EXTENDS Startup

CONSTANTS r1, r2

Leases == {[lease |-> l, renew |-> r, progress |-> p] :
             l \in {4, 5, 9, 10, 11, 20}, r \in {1, 2}, p \in {1, 2}}
Sizes == {[file |-> f, inline |-> i, dedicated |-> d] :
            f \in {2, 7, 9}, i \in {1, 2, 3, 8}, d \in {2, 3, 8, 9}}

Line(l, s, url, pprof) ==
  [lease |-> l.lease, renew |-> l.renew, progress |-> l.progress,
   file |-> s.file, inline |-> s.inline, dedicated |-> s.dedicated,
   url |-> url, pprof |-> pprof]

DefaultLease == [lease |-> 5, renew |-> 1, progress |-> 1]
DefaultSizes == [file |-> 7, inline |-> 1, dedicated |-> 2]

MCConfigs ==
  {Line(l, DefaultSizes, "postgres", FALSE) : l \in Leases}
    \cup {Line(DefaultLease, s, "sqlite", FALSE) : s \in Sizes}
    \cup {Line(DefaultLease, DefaultSizes, url, TRUE) :
            url \in {"malformed", "unsupported", "postgresql"}}
=============================================================================
