------------------------ MODULE InterfaceCommunicator ------------------------
(***************************************************************************)
(* pcl::InterfaceCommunicator on every process, over MPI point-to-point    *)
(* messages.  A process collects data into one send buffer per target and  *)
(* registers extractors, then calls communicate_and_resume(), which posts  *)
(* all receives and sends - preceded by an exchange of the buffer sizes    *)
(* when one of them cannot be computed by its receiver - and then wait(),  *)
(* which completes them and runs the extractors.                           *)
(*                                                                         *)
(* The size exchange and the data travel under the SAME tag, so the only   *)
(* thing that tells one message from the next is the order in which MPI    *)
(* matches them.  Bytes are abstracted: a buffer is the sequence of items  *)
(* in it, and its size is represented by that sequence (two sizes are      *)
(* equal only if they count the same items).                               *)
(***************************************************************************)
EXTENDS CommunicationPlan

CONSTANTS
    Plans,      \* the plans a program may follow
    EarlyCalls  \* the program collects between communicate_and_resume and wait

ASSUME PlansAssumption == Plans \subseteq Plan
ASSUME SwitchesAssumption == EarlyCalls \in BOOLEAN

VARIABLES
    plan,       \* the plan of this execution
    round,      \* the communication a process is in (or collects for)
    pc,         \* collecting, waiting for sizes, or data pending
    nSent,      \* calls of the coming round whose send half is done
    nRcvd,      \* calls of the coming round whose receive half is done
    bufOut,     \* m_bufMapOut, the keys with data being m_curOutProcs
    sendFixed,  \* m_bSendBuffersFixed
    extractors, \* m_extractorInfos, per source process
    sends,      \* the messages posted from p to q, in posting order
    recvs,      \* the receives posted by q for p, in posting order
    matched,    \* how many of the two have been paired by MPI
    inbox,      \* what the last wait() extracted, per source
    aborted     \* a message met a receive posted for something else

procVars == <<round, pc, nSent, nRcvd, bufOut, sendFixed, extractors>>
mpiVars  == <<sends, recvs, matched, aborted>>
vars     == <<plan, procVars, mpiVars, inbox>>

Message == [round : Nat \ {0}, kind : {"size", "data"}, items : Seq(Item)]

Empty == [q \in Procs |-> <<>>]

Init ==
    /\ plan \in Plans
    /\ round      = [p \in Procs |-> 1]
    /\ pc         = [p \in Procs |-> "collect"]
    /\ nSent      = [p \in Procs |-> 0]
    /\ nRcvd      = [p \in Procs |-> 0]
    /\ bufOut     = [p \in Procs |-> Empty]
    /\ sendFixed  = [p \in Procs |-> TRUE]
    /\ extractors = [p \in Procs |-> Empty]
    /\ sends      = [p \in Procs |-> Empty]
    /\ recvs      = [p \in Procs |-> Empty]
    /\ matched    = [p \in Procs |-> [q \in Procs |-> 0]]
    /\ inbox      = [p \in Procs |-> Empty]
    /\ aborted    = FALSE

------------------------------------------------------------------------------
(* Collecting *)

\* The round a call made now belongs to.
CallRound(p) == IF pc[p] = "collect" THEN round[p] ELSE round[p] + 1

MayCall(p) ==
    /\ ~aborted
    /\ pc[p] = "collect" \/ (EarlyCalls /\ pc[p] = "data")
    /\ CallRound(p) \in DOMAIN plan

\* Mutant: the data of a later call ends up in front of that of an earlier one.
SendDataPrepends(p) ==
    LET r == CallRound(p)
        c == nSent[p] + 1
    IN  /\ MayCall(p)
        /\ c \in DOMAIN plan[r]
        /\ nSent' = [nSent EXCEPT ![p] = c]
        /\ bufOut' = [bufOut EXCEPT ![p] = [q \in Procs |->
               IF <<p, q>> \in plan[r][c].edges
                   THEN <<ItemOf(plan, r, c)>> \o @[q] ELSE @[q]]]
        /\ sendFixed' = [sendFixed EXCEPT ![p] =
               @ /\ (Sends(plan, r, p, c) => plan[r][c].known)]
        /\ UNCHANGED <<plan, round, pc, nRcvd, extractors, mpiVars, inbox>>

\* send_data / send_raw: append to the buffer of every target, and remember
\* whether all targets can compute the size of what was appended.
SendData(p) ==
    LET r == CallRound(p)
        c == nSent[p] + 1
    IN  /\ MayCall(p)
        /\ c \in DOMAIN plan[r]
        /\ nSent' = [nSent EXCEPT ![p] = c]
        /\ bufOut' = [bufOut EXCEPT ![p] = [q \in Procs |->
               IF <<p, q>> \in plan[r][c].edges
                   THEN Append(@[q], ItemOf(plan, r, c)) ELSE @[q]]]
        /\ sendFixed' = [sendFixed EXCEPT ![p] =
               @ /\ (Sends(plan, r, p, c) => plan[r][c].known)]
        /\ UNCHANGED <<plan, round, pc, nRcvd, extractors, mpiVars, inbox>>

\* receive_data / receive_raw: register an extractor.  Extractors of different
\* sources read different buffers, so the list is kept per source.
ReceiveData(p) ==
    LET r == CallRound(p)
        c == nRcvd[p] + 1
    IN  /\ MayCall(p)
        /\ c \in DOMAIN plan[r]
        /\ nRcvd' = [nRcvd EXCEPT ![p] = c]
        /\ extractors' = [extractors EXCEPT ![p] = [q \in Procs |->
               IF <<q, p>> \in plan[r][c].edges
                   THEN Append(@[q], ItemOf(plan, r, c)) ELSE @[q]]]
        /\ UNCHANGED <<plan, round, pc, nSent, bufOut, sendFixed, mpiVars, inbox>>

------------------------------------------------------------------------------
(* Communicating *)

CurOutProcs(p) == {q \in Procs : bufOut[p][q] # <<>>}
CurInProcs(p)  == {q \in Procs : extractors[p][q] # <<>>}

\* Mutant: only what p sends is asked for its size.
OnlySendsFixed(p) == sendFixed[p]

\* allBufferSizesFixed: what p sends and everything p will extract.
AllBufferSizesFixed(p) ==
    /\ sendFixed[p]
    /\ \A q \in Procs : \A i \in DOMAIN extractors[p][q] :
           LET item == extractors[p][q][i]
           IN  plan[item.round][item.call].known

\* One MPI_Irecv for every current source and one MPI_Isend for every current
\* target of p; capacity[q] is the size of the receive buffer for source q.
Post(p, kind, capacity) ==
    /\ recvs' = [q \in Procs |-> [recvs[q] EXCEPT ![p] =
           IF q \in CurInProcs(p)
               THEN Append(@, [round |-> round[p], kind |-> kind, items |-> capacity[q]])
               ELSE @]]
    /\ sends' = [sends EXCEPT ![p] = [q \in Procs |->
           IF q \in CurOutProcs(p)
               THEN Append(@[q], [round |-> round[p], kind |-> kind,
                                  items |-> bufOut[p][q]])
               ELSE @[q]]]
    /\ UNCHANGED <<matched, aborted>>

\* Everything the plan has for this round is collected and registered.
ReadyToCommunicate(p) ==
    /\ ~aborted
    /\ pc[p] = "collect"
    /\ round[p] \in DOMAIN plan
    /\ nSent[p] = Len(plan[round[p]])
    /\ nRcvd[p] = Len(plan[round[p]])

\* Mutant: the receive buffers are not resized before the data is posted.
CommunicateUnsized(p) ==
    /\ ReadyToCommunicate(p)
    /\ AllBufferSizesFixed(p)
    /\ Post(p, "data", Empty)
    /\ pc' = [pc EXCEPT ![p] = "data"]
    /\ nSent' = [nSent EXCEPT ![p] = 0]
    /\ nRcvd' = [nRcvd EXCEPT ![p] = 0]
    /\ sendFixed' = [sendFixed EXCEPT ![p] = TRUE]
    /\ UNCHANGED <<plan, round, bufOut, extractors, inbox>>

\* communicate_and_resume() when every size can be computed: the data is
\* posted at once, into receive buffers of the computed sizes.
CommunicateFixed(p) ==
    /\ ReadyToCommunicate(p)
    /\ AllBufferSizesFixed(p)
    /\ Post(p, "data", extractors[p])
    /\ pc' = [pc EXCEPT ![p] = "data"]
    /\ nSent' = [nSent EXCEPT ![p] = 0]
    /\ nRcvd' = [nRcvd EXCEPT ![p] = 0]
    /\ sendFixed' = [sendFixed EXCEPT ![p] = TRUE]
    /\ UNCHANGED <<plan, round, bufOut, extractors, inbox>>

\* communicate_and_resume() otherwise: first the sizes of the send buffers.
CommunicateSizes(p) ==
    /\ ReadyToCommunicate(p)
    /\ ~AllBufferSizesFixed(p)
    /\ Post(p, "size", Empty)
    /\ pc' = [pc EXCEPT ![p] = "sizes"]
    /\ UNCHANGED <<plan, round, nSent, nRcvd, bufOut, sendFixed, extractors, inbox>>

\* Waitall over the requests of p may return: its receives are matched.  Its
\* sends are standard sends, which MPI may complete before they are received.
RequestsDone(p) == \A q \in Procs : matched[q][p] = Len(recvs[q][p])

\* MPI has no choice but to complete the sends of p.
SendsMatched(p) == \A q \in Procs : matched[p][q] = Len(sends[p][q])

\* What the last completed receive of p for source q brought.
Received(p, q) == sends[q][p][Len(recvs[q][p])].items

\* The sources p has posted a receive for in its current round; the buffers of
\* all others were cleared when communicate_and_resume() began.
PostedFrom(p) ==
    {q \in Procs : /\ recvs[q][p] # <<>>
                   /\ recvs[q][p][Len(recvs[q][p])].round = round[p]}

\* The sizes are in: the receive buffers are resized and the data is posted.
FinishSizes(p) ==
    /\ ~aborted
    /\ pc[p] = "sizes"
    /\ RequestsDone(p)
    /\ Post(p, "data", [q \in CurInProcs(p) |-> Received(p, q)])
    /\ pc' = [pc EXCEPT ![p] = "data"]
    /\ nSent' = [nSent EXCEPT ![p] = 0]
    /\ nRcvd' = [nRcvd EXCEPT ![p] = 0]
    /\ sendFixed' = [sendFixed EXCEPT ![p] = TRUE]
    /\ UNCHANGED <<plan, round, bufOut, extractors, inbox>>

\* Mutant: data of an earlier round stays in the buffer of a source that is
\* silent in this round.
WaitKeepsData(p) ==
    /\ ~aborted
    /\ pc[p] = "data"
    /\ RequestsDone(p)
    /\ inbox' = [inbox EXCEPT ![p] = [q \in Procs |->
           IF q \in PostedFrom(p) THEN Received(p, q) ELSE @[q]]]
    /\ round' = [round EXCEPT ![p] = @ + 1]
    /\ pc' = [pc EXCEPT ![p] = "collect"]
    /\ bufOut' = [bufOut EXCEPT ![p] = Empty]
    /\ extractors' = [extractors EXCEPT ![p] = Empty]
    /\ UNCHANGED <<plan, nSent, nRcvd, sendFixed, mpiVars>>

\* Mutant: the extractors of a round are not removed when it is over.
WaitKeepsExtractors(p) ==
    /\ ~aborted
    /\ pc[p] = "data"
    /\ RequestsDone(p)
    /\ inbox' = [inbox EXCEPT ![p] = [q \in Procs |->
           IF q \in PostedFrom(p) THEN Received(p, q) ELSE <<>>]]
    /\ round' = [round EXCEPT ![p] = @ + 1]
    /\ pc' = [pc EXCEPT ![p] = "collect"]
    /\ bufOut' = [bufOut EXCEPT ![p] = Empty]
    /\ UNCHANGED <<plan, nSent, nRcvd, sendFixed, extractors, mpiVars>>

\* wait(): complete the requests, run the extractors in the order in which
\* they were registered, and clear buffers, targets and extractors.
Wait(p) ==
    /\ ~aborted
    /\ pc[p] = "data"
    /\ RequestsDone(p)
    /\ inbox' = [inbox EXCEPT ![p] = [q \in Procs |->
           IF q \in PostedFrom(p) THEN Received(p, q) ELSE <<>>]]
    /\ round' = [round EXCEPT ![p] = @ + 1]
    /\ pc' = [pc EXCEPT ![p] = "collect"]
    /\ bufOut' = [bufOut EXCEPT ![p] = Empty]
    /\ extractors' = [extractors EXCEPT ![p] = Empty]
    /\ UNCHANGED <<plan, nSent, nRcvd, sendFixed, mpiVars>>

------------------------------------------------------------------------------
(* MPI *)

\* A receive was posted for this message: for sizes or for data as it is, and
\* with room for exactly its items.
Fits(msg, recv) ==
    /\ msg.kind = recv.kind
    /\ msg.kind = "data" => msg.items = recv.items

\* Messages of one pair, communicator and tag do not overtake each other: the
\* n-th send meets the n-th receive.  One that does not fit is truncated or
\* leaves a buffer half filled, and nothing is claimed about what follows.
MpiTransfer(p, q) ==
    LET n == matched[p][q] + 1 IN
    /\ ~aborted
    /\ n \in DOMAIN sends[p][q]
    /\ n \in DOMAIN recvs[p][q]
    /\ matched' = [matched EXCEPT ![p][q] = n]
    /\ aborted' = ~Fits(sends[p][q][n], recvs[p][q][n])
    /\ UNCHANGED <<plan, procVars, sends, recvs, inbox>>

Finished(p) == round[p] = Len(plan) + 1

\* The program ends when every process is through the plan.
Terminated ==
    /\ \A p \in Procs : Finished(p)
    /\ UNCHANGED vars

ProcessStep(p) ==
    \/ SendData(p)
    \/ ReceiveData(p)
    \/ CommunicateFixed(p)
    \/ CommunicateSizes(p)
    \/ FinishSizes(p)
    \/ Wait(p)

Next ==
    \/ \E p \in Procs : ProcessStep(p)
    \/ \E p, q \in Procs : MpiTransfer(p, q)
    \/ Terminated

\* MPI guarantees progress of a matched pair.  A process is only sure to run on
\* once all it sent is received: that a send completes earlier is never relied on.
Fairness ==
    /\ \A p \in Procs : WF_vars(SendsMatched(p) /\ ProcessStep(p))
    /\ \A p, q \in Procs : WF_vars(MpiTransfer(p, q))

Spec == Init /\ [][Next]_vars

FairSpec == Spec /\ Fairness
------------------------------------------------------------------------------
(* Properties *)

TypeOK ==
    /\ plan \in Plans
    /\ round \in [Procs -> Nat \ {0}]
    /\ pc \in [Procs -> {"collect", "sizes", "data"}]
    /\ nSent \in [Procs -> Nat]
    /\ nRcvd \in [Procs -> Nat]
    /\ bufOut \in [Procs -> [Procs -> Seq(Item)]]
    /\ sendFixed \in [Procs -> BOOLEAN]
    /\ extractors \in [Procs -> [Procs -> Seq(Item)]]
    /\ sends \in [Procs -> [Procs -> Seq(Message)]]
    /\ recvs \in [Procs -> [Procs -> Seq(Message)]]
    /\ matched \in [Procs -> [Procs -> Nat]]
    /\ inbox \in [Procs -> [Procs -> Seq(Item)]]
    /\ aborted \in BOOLEAN

\* The n-th message of an edge and the n-th receive posted for it belong to the
\* same round and to the same phase of it: although sizes and data of all rounds
\* share one tag, no receive ever meets the message of another round or phase.
RoundsNeverMix ==
    \A p, q \in Procs : \A n \in DOMAIN sends[p][q] \cap DOMAIN recvs[p][q] :
        /\ sends[p][q][n].round = recvs[p][q][n].round
        /\ sends[p][q][n].kind = recvs[p][q][n].kind

\* Every message fits the receive it meets: no truncation and no partly filled
\* buffer, whether the receiver computed the size or was told it.
NoTruncation == ~aborted

\* The extractors of a process find, source by source and in the order in which
\* they were registered, the items they were registered for.
ExtractedAsRegistered ==
    \A p \in Procs : pc[p] = "data" /\ RequestsDone(p) =>
        \A q \in PostedFrom(p) : Received(p, q) = extractors[p][q]

\* Every process gets through all communications of the plan.
AllRoundsFinish == <>(\A p \in Procs : Finished(p))

\* communicate() is a neighbourhood barrier that delivers the data of its round.
Exchange == INSTANCE NeighbourExchange WITH
    started  <- [p \in Procs |-> IF pc[p] = "collect" THEN round[p] - 1 ELSE round[p]],
    finished <- [p \in Procs |-> round[p] - 1]

ImplementsNeighbourExchange == Exchange!Spec
------------------------------------------------------------------------------
(* The inductive invariant behind RoundsNeverMix, for plans on whose sizes *)
(* neighbours agree and programs that collect only between two rounds.     *)

\* The place of a message in the sequence all messages of an edge form.
Stamp(r, k) == 2 * r + IF k = "data" THEN 1 ELSE 0

\* p posts, or has posted, its messages of kind k in round r.
HasPosted(p, r, k) ==
    \/ r < round[p]
    \/ r = round[p] /\ (pc[p] = "data" \/ (pc[p] = "sizes" /\ k = "size"))

\* The messages that p, as one of its ends, has to post on edge <<x, y>>.
Due(p, x, y) ==
    {rk \in (DOMAIN plan) \X {"size", "data"} :
        /\ Active(plan, rk[1], x, y)
        /\ rk[2] = "data" \/ ~AllSizesKnown(plan, rk[1], p)}

Posted(p, x, y) == {rk \in Due(p, x, y) : HasPosted(p, rk[1], rk[2])}

\* s consists of the messages P, in the order of rounds and phases.
History(s, P) ==
    /\ {<<s[i].round, s[i].kind>> : i \in DOMAIN s} = P
    /\ \A i, j \in DOMAIN s :
           i < j => Stamp(s[i].round, s[i].kind) < Stamp(s[j].round, s[j].kind)

ChannelHistory ==
    \A p, q \in Procs : /\ History(sends[p][q], Posted(p, p, q))
                        /\ History(recvs[p][q], Posted(q, p, q))

\* Where p is in the calls of its round: all of them are made before sizes are
\* exchanged, and none of the next round's before wait() returns.
CallsMade(p) ==
    LET r == round[p] IN
    /\ pc[p] # "collect" \/ nSent[p] # 0 \/ nRcvd[p] # 0 => r \in DOMAIN plan
    /\ r \in DOMAIN plan => nSent[p] <= Len(plan[r]) /\ nRcvd[p] <= Len(plan[r])
    /\ pc[p] = "data" => nSent[p] = 0 /\ nRcvd[p] = 0 /\ sendFixed[p]
    /\ pc[p] = "sizes" => /\ nSent[p] = Len(plan[r]) /\ nRcvd[p] = Len(plan[r])
                          /\ ~AllSizesKnown(plan, r, p)

\* The send buffers and the flag reflect the first nSent calls of the round.
SendsCollected(p) ==
    LET r == round[p] IN
    pc[p] # "data" =>
        /\ sendFixed[p] <=>
               \A c \in 1 .. nSent[p] : Sends(plan, r, p, c) => plan[r][c].known
        /\ \A q \in Procs : bufOut[p][q] # <<>> <=>
               \E c \in 1 .. nSent[p] : <<p, q>> \in plan[r][c].edges

\* The extractors reflect the first nRcvd calls of the round.
ReceivesRegistered(p) ==
    LET r == round[p] IN
    pc[p] # "data" => \A q \in Procs :
        /\ \A i \in DOMAIN extractors[p][q] :
               /\ extractors[p][q][i].round = r
               /\ extractors[p][q][i].call \in 1 .. nRcvd[p]
               /\ <<q, p>> \in plan[r][extractors[p][q][i].call].edges
        /\ \A c \in 1 .. nRcvd[p] : <<q, p>> \in plan[r][c].edges =>
               \E i \in DOMAIN extractors[p][q] : extractors[p][q][i].call = c

CollectedInOrder ==
    \A p \in Procs : CallsMade(p) /\ SendsCollected(p) /\ ReceivesRegistered(p)
==============================================================================
