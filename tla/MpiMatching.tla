---------------------------- MODULE MpiMatching ----------------------------
(***************************************************************************)
(* What MPI promises of point-to-point matching, and what MpiQueue and its *)
(* protocols have to implement: sends and receives are started in program  *)
(* order, and a match joins a send with the oldest receive that takes it   *)
(* and that receive with the oldest message of that sender it takes        *)
(* (messages do not overtake).  No queue, sequence number or wire protocol *)
(* appears here.                                                           *)
(***************************************************************************)
EXTENDS Naturals, Sequences

CONSTANTS Rank, AnySource, AnyTag, Programs

VARIABLES
  program,   \* the calls of every rank
  sent,      \* sends that were started
  posted,    \* receives that were started
  matched    \* <<send, receive>> pairs

mvars == <<program, sent, posted, matched>>

At(req) == program[req[1]][req[2]]

Takes(q, f) ==
  /\ q[1] = At(f).peer
  /\ At(q).comm = At(f).comm
  /\ At(q).peer \in {f[1], AnySource}
  /\ At(q).tag \in {At(f).tag, AnyTag}

SendMatched(f) == \E x \in matched : x[1] = f
RecvMatched(q) == \E x \in matched : x[2] = q

\* f may be joined with q: neither is taken, and no older candidate exists.
Eligible(f, q, recvs) ==
  /\ f \in sent /\ ~SendMatched(f)
  /\ q \in recvs /\ ~RecvMatched(q)
  /\ Takes(q, f)
  /\ \A g \in sent : (g[1] = f[1] /\ g[2] < f[2] /\ ~SendMatched(g))
                        => ~Takes(q, g)
  /\ \A p \in recvs : (p[1] = q[1] /\ p[2] < q[2] /\ ~RecvMatched(p))
                        => ~Takes(p, f)

IsSend(r, i) == At(<<r, i>>).op \in {"isend", "send"} /\ At(<<r, i>>).peer \in Rank
IsRecv(r, i) == At(<<r, i>>).op \in {"irecv", "recv"}

StartSend(r, i) ==
  /\ IsSend(r, i) /\ <<r, i>> \notin sent
  /\ \A g \in sent : g[1] = r => g[2] < i
  /\ sent' = sent \cup {<<r, i>>}
  /\ UNCHANGED <<program, posted, matched>>

\* A receive is posted; it may find its message there already.
PostRecv(r, i) ==
  /\ IsRecv(r, i) /\ <<r, i>> \notin posted
  /\ \A q \in posted : q[1] = r => q[2] < i
  /\ posted' = posted \cup {<<r, i>>}
  /\ \/ UNCHANGED matched
     \/ \E f \in sent : /\ Eligible(f, <<r, i>>, posted')
                        /\ matched' = matched \cup {<<f, <<r, i>>>>}
  /\ UNCHANGED <<program, sent>>

Match(f, q) ==
  /\ Eligible(f, q, posted)
  /\ matched' = matched \cup {<<f, q>>}
  /\ UNCHANGED <<program, sent, posted>>

MInit ==
  /\ program \in Programs
  /\ sent = {} /\ posted = {} /\ matched = {}

MNext ==
  \/ \E r \in Rank : \E i \in DOMAIN program[r] :
       StartSend(r, i) \/ PostRecv(r, i)
  \/ \E f \in sent, q \in posted : Match(f, q)

MSpec == MInit /\ [][MNext]_mvars
=============================================================================
