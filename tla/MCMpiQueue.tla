---------------------------- MODULE MCMpiQueue ----------------------------
(***************************************************************************)
(* Programs for model checking MpiQueue.  Sizes: 1 byte goes Eager0, 2 go  *)
(* Eager1 and 3 go rendezvous (MaxVshort = 1, MaxEager = 2), unless the    *)
(* put window is used.  Tasks finish with MPI_Finalize, whose barrier is   *)
(* also a progress loop.                                                   *)
(***************************************************************************)
EXTENDS MpiQueue, TLC

CONSTANTS a, b, c, t1, t2, c1

MpiCall(op, peer, tag, bytes, req) ==
  [op |-> op, peer |-> peer, tag |-> tag, comm |-> c1, bytes |-> bytes,
   req |-> req, put |-> FALSE]

Large == 9
Isend(dst, tag, bytes) == MpiCall("isend", dst, tag, bytes, 0)
SendTo(dst, tag, bytes) == MpiCall("send", dst, tag, bytes, 0)
Irecv(src, tag) == MpiCall("irecv", src, tag, Large, 0)
RecvFrom(src, tag) == MpiCall("recv", src, tag, Large, 0)
RecvInto(src, tag, bytes) == MpiCall("recv", src, tag, bytes, 0)
ProbeFor(src, tag) == MpiCall("probe", src, tag, 0, 0)
IprobeFor(src, tag) == MpiCall("iprobe", src, tag, 0, 0)
WaitFor(i) == MpiCall("wait", AnySource, AnyTag, 0, i)
TestFor(i) == MpiCall("test", AnySource, AnyTag, 0, i)
Finalize == MpiCall("finalize", AnySource, AnyTag, 0, 0)
WaitAll(n) == [i \in 1 .. n |-> WaitFor(i)]

(***************************************************************************)
(* One sender, three messages: every mix of tags and sizes.                *)
(***************************************************************************)
Sends3(x, y) ==
  <<Isend(b, x[1], y[1]), Isend(b, x[2], y[2]), Isend(b, x[3], y[3])>>
    \o WaitAll(3) \o <<Finalize>>
Tags3 == {t1} \X {t1, t2} \X {t1, t2}

\* The receiver posts everything first: the messages find their receives.
Posted(sizes) ==
  { (a :> Sends3(x, y)) @@
    (b :> (<<Irecv(a, z[1]), Irecv(AnySource, z[2]), Irecv(a, z[3])>>
             \o WaitAll(3) \o <<Finalize>>)) :
    x \in Tags3, y \in [1 .. 3 -> sizes], z \in [1 .. 3 -> {t1, AnyTag}] }

\* The receiver takes one at a time: later messages come in unexpected.
OneByOne(sizes) ==
  { (a :> Sends3(x, y)) @@
    (b :> <<RecvFrom(z[1], z[2]), RecvFrom(a, z[3]), RecvFrom(a, AnyTag),
            Finalize>>) :
    x \in Tags3, y \in [1 .. 3 -> sizes],
    z \in {a, AnySource} \X {t1, t2, AnyTag} \X {t1, AnyTag} }

OrderEagerRendezvous == Posted({1, 3}) \cup OneByOne({1, 3})
OrderEager1 == Posted({1, 2}) \cup OneByOne({2, 3})

\* The same job with the put window.
WithPutWindow(p) == [r \in DOMAIN p |-> [i \in DOMAIN p[r] |-> [p[r][i] EXCEPT !.put = TRUE]]]

(***************************************************************************)
(* Probes and tests: the receiver learns of messages before it takes them, *)
(* one message goes to MPI_PROC_NULL, and the last receive buffer may be   *)
(* too small.                                                              *)
(***************************************************************************)
ProbePrograms ==
  { (a :> <<Isend(b, t1, y[1]), Isend(ProcNull, t1, 1), SendTo(b, z[1], y[2]),
            WaitFor(1), Finalize>>) @@
    (b :> <<Irecv(a, z[2]), IprobeFor(a, t1), ProbeFor(AnySource, t2),
            RecvInto(a, AnyTag, z[3]), TestFor(1), WaitFor(1), Finalize>>) :
    y \in [1 .. 2 -> {1, 3}],
    z \in {t1, t2} \X {t1, AnyTag} \X {0, Large} }

OrderPrograms ==
  OrderEagerRendezvous \cup ProbePrograms
    \cup {WithPutWindow(p) : p \in Posted({3}) \cup OneByOne({3})}

(***************************************************************************)
(* Jobs MPI lets run to completion: an exchange between neighbours of a    *)
(* ring, nonblocking or with every other task receiving first, and two     *)
(* senders that race for the wildcard receives of a third.                 *)
(***************************************************************************)
Exchange ==
  { (a :> <<Irecv(b, t1), Isend(b, t1, y[1]), WaitFor(1), WaitFor(2), Finalize>>) @@
    (b :> <<Isend(a, t1, y[2]), Irecv(a, t1), WaitFor(1), WaitFor(2), Finalize>>) @@
    (c :> <<Finalize>>) :
    y \in [1 .. 2 -> 1 .. 3] }

BlockingRing ==
  { (a :> <<SendTo(b, t1, y[1]), RecvFrom(c, t1), Finalize>>) @@
    (b :> <<RecvFrom(a, t1), SendTo(c, t1, y[2]), Finalize>>) @@
    (c :> <<RecvFrom(b, t1), SendTo(a, t1, y[3]), Finalize>>) :
    y \in [1 .. 3 -> 1 .. 3] }

WildcardRace ==
  { (a :> <<Isend(c, t1, y[1]), SendTo(c, t1, y[2]), WaitFor(1), Finalize>>) @@
    (b :> <<SendTo(c, t1, y[3]), Finalize>>) @@
    (c :> <<Irecv(AnySource, t1), RecvFrom(AnySource, AnyTag),
            RecvFrom(AnySource, t1), WaitFor(1), Finalize>>) :
    y \in [1 .. 3 -> 1 .. 3] }

MatchedPrograms == Exchange \cup BlockingRing \cup WildcardRace
===========================================================================
