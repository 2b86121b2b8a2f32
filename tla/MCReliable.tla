----------------------------- MODULE MCReliable -----------------------------
(* Instances of Reliable for TLC. *)
EXTENDS Reliable

CONSTANTS r1, r2, k1, k2

AllAcks == 99   \* more AckNack messages than there are different ones

Plain == [readers |-> {r1, r2}, early |-> {}, samples |-> MaxSeq, tlReaders |-> {}, bestEffort |-> {},
          durable |-> FALSE, keepLast1 |-> FALSE, mayFill |-> FALSE, mayLeave |-> FALSE,
          maxAcks |-> AllAcks, directModes |-> {FALSE}, keys |-> {k1}]
TransientLocal == [Plain EXCEPT !.tlReaders = {r1, r2}, !.durable = TRUE, !.mayFill = TRUE,
                                 !.directModes = {FALSE, TRUE}]
KeepLast == [TransientLocal EXCEPT !.keepLast1 = TRUE, !.keys = {k1, k2}]

\* Readers that come and go, with a delivery queue that may be full: one reader,
\* volatile or transient-local with KEEP_LAST 1, and two samples; or two
\* transient-local readers, or a volatile and a best-effort one, and a single sample.
LeavingSetUps ==
  {[Plain EXCEPT !.readers = {r1}, !.mayFill = TRUE, !.mayLeave = TRUE, !.directModes = {FALSE, TRUE}],
   [KeepLast EXCEPT !.readers = {r1}, !.tlReaders = {r1}, !.mayLeave = TRUE],
   [TransientLocal EXCEPT !.samples = 1, !.mayLeave = TRUE, !.maxAcks = 2],
   [Plain EXCEPT !.samples = 1, !.bestEffort = {r2}, !.mayFill = TRUE, !.mayLeave = TRUE]}

\* Two readers that share a proxy writer and two samples; the writer has matched both
\* readers before it writes and the receiving end matches them at any time. Either both
\* are transient-local, or one is volatile and the other best-effort. The delivery queue
\* may be full, except with KEEP_LAST 1.
SharedSetUps ==
  {[KeepLast EXCEPT !.early = {r1, r2}, !.maxAcks = 1, !.mayFill = FALSE,
                    !.directModes = {FALSE}],
   [TransientLocal EXCEPT !.early = {r1, r2}, !.maxAcks = 2, !.directModes = {TRUE}]}
  \cup {[Plain EXCEPT !.early = {r1, r2}, !.bestEffort = {r2}, !.mayFill = TRUE,
                      !.maxAcks = IF direct THEN 2 ELSE 1, !.directModes = {direct}] : direct \in BOOLEAN}

AllSetUps == LeavingSetUps \cup SharedSetUps

\* Two volatile readers.
VolatileSetUps == {Plain}
=============================================================================
