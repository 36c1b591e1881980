----------------------------- MODULE Transfer ------------------------------
(***************************************************************************)
(* The data side of sendmsg and recvmsg (io.cc) and of the wrappers around *)
(* them (io.hh): an iovec list is a sequence of sequences of units; a call *)
(* takes some units from its front.                                        *)
(***************************************************************************)
EXTENDS Naturals, Sequences, FiniteSetsExt, SequencesExt

\* All units of an iovec list, in order.
Bytes(iov) == FlattenSeq(iov)

\* How many whole iovecs the first r units fill; empty ones count.
Filled(iov, r) == Max({k \in 0 .. Len(iov) : Len(Bytes(SubSeq(iov, 1, k))) <= r})

\* The call took everything.
msghdr_done(iov, r) == Filled(iov, r) = Len(iov)

\* Mutant: the iovec that was taken in part is sent again from its start.
update_iovec_Whole(iov, r) == SubSeq(iov, Filled(iov, r) + 1, Len(iov))

\* What is left after r units: whole iovecs are skipped, and the next one is
\* shortened in a copy of the list.
update_iovec(iov, r) ==
    LET k == Filled(iov, r)
        rest == SubSeq(iov, k + 1, Len(iov))
        d == r - Len(Bytes(SubSeq(iov, 1, k)))
    IN  IF d = 0 THEN rest
        ELSE <<SubSeq(rest[1], d + 1, Len(rest[1]))>> \o Tail(rest)

\* The units that r of them are.
Taken(iov, r) == SubSeq(Bytes(iov), 1, r)

=============================================================================
