----------------------------- MODULE PreKeysProofs -----------------------------
(***************************************************************************)
(* The pre-keys for any size and number of batches: as long as batches do  *)
(* not overlap, creds.json never counts a key without a file, and the      *)
(* server and the key store have the same keys; when they do overlap, the  *)
(* orders in which nodes, results and writes are dealt with save it.       *)
(***************************************************************************)
EXTENDS PreKeys, SequenceTheorems, TLAPS

Used(b) == batch[b] # Unused

Job == {Unused} \cup
       [kind : {"registration", "upload"}, first : Nat \ {0},
        pc : {"sending", "querying", "storing", "done", "saved", "failed"}]

Typed ==
    /\ nextPreKeyId \in Nat \ {0} /\ credsFile.next \in Nat \ {0}
    /\ store \in [KeyIds -> Batches \cup {None}]
    /\ server \in [KeyIds -> Batches \cup {None}]
    /\ writes \in [KeyIds -> Seq(Batches)]
    /\ toServer \in Seq(Batches) /\ toClient \in Seq(Batches)
    /\ batch \in [Batches -> Job]

Increasing(s) == \A m, n \in 1..Len(s) : m < n => s[m] < s[n]

\* The batches are started one by one, the last of them are on the way to the server, and
\* the results come back in their order.
FifoInv ==
    /\ \A a, b \in Batches : a < b /\ Used(b) => Used(a)
    /\ Increasing(toServer) /\ Increasing(toClient)
    /\ \A b \in Range(toServer) \cup Range(toClient) : Used(b)
    /\ \A a \in Range(toServer) : \A b \in Batches : Used(b) /\ b > a => b \in Range(toServer)
    /\ \A a \in Range(toClient) : batch[a].kind = "upload" /\ a \notin Range(toServer)
    /\ \A b \in Batches : /\ batch[b].pc = "sending" => batch[b].kind = "registration"
                          /\ batch[b].pc = "querying" => batch[b].kind = "upload"

Base == Typed /\ FifoInv

-----------------------------------------------------------------------------
(* Sequences of batches.                                                    *)

LEMMA RangeIn == \A s \in Seq(Batches) : Range(s) = {s[n] : n \in 1..Len(s)} /\ Range(s) \subseteq Batches
  BY RangeEquality, RangeOfSeq

LEMMA RangeEmpty == Range(<< >>) = {} /\ Increasing(<< >>) /\ << >> \in Seq(Batches)
  BY DEF Range, Increasing

LEMMA Appended ==
    ASSUME NEW s \in Seq(Batches), NEW b \in Batches
    PROVE  /\ Append(s, b) \in Seq(Batches)
           /\ Range(Append(s, b)) = Range(s) \cup {b}
           /\ Increasing(s) /\ (\A a \in Range(s) : a < b) => Increasing(Append(s, b))
  <1>1. /\ Append(s, b) \in Seq(Batches) /\ Len(Append(s, b)) = Len(s) + 1
        /\ Append(s, b)[Len(s) + 1] = b /\ \A n \in 1..Len(s) : Append(s, b)[n] = s[n]
    BY AppendProperties
  <1>2. /\ Range(s) = {s[n] : n \in 1..Len(s)}
        /\ Range(Append(s, b)) = {Append(s, b)[n] : n \in 1..(Len(s) + 1)}
    BY <1>1, RangeIn
  <1>3. Len(s) \in Nat
    OBVIOUS
  <1>4. Range(Append(s, b)) = Range(s) \cup {b}
    BY <1>1, <1>2, <1>3
  <1>5. Increasing(s) /\ (\A a \in Range(s) : a < b) => Increasing(Append(s, b))
    BY <1>1, <1>2, <1>3 DEF Increasing
  <1> QED BY <1>1, <1>4, <1>5

LEMMA Taken ==
    ASSUME NEW s \in Seq(Batches), s # << >>, Increasing(s)
    PROVE  /\ Head(s) \in Range(s) /\ Head(s) \in Batches /\ Tail(s) \in Seq(Batches)
           /\ Range(Tail(s)) = Range(s) \ {Head(s)} /\ Increasing(Tail(s))
           /\ \A a \in Range(s) : Head(s) <= a
  <1>1. /\ Len(s) \in Nat \ {0} /\ Head(s) = s[1] /\ Tail(s) \in Seq(Batches)
        /\ Len(Tail(s)) = Len(s) - 1 /\ \A n \in 1..Len(s) - 1 : Tail(s)[n] = s[n + 1]
    BY HeadTailProperties
  <1>2. /\ Range(s) = {s[n] : n \in 1..Len(s)}
        /\ Range(Tail(s)) = {Tail(s)[n] : n \in 1..Len(s) - 1}
    BY <1>1, RangeIn
  <1>3. \A n \in 1..Len(s) : s[n] \in Batches /\ s[n] \in Int
    BY BatchAssumption, ElementOfSeq DEF Batches
  <1>4. \A n \in 1..Len(s) : n > 1 => s[1] < s[n]
    BY <1>1 DEF Increasing
  <1>5. Increasing(Tail(s))
    BY <1>1 DEF Increasing
  <1>6. Range(Tail(s)) = {s[n] : n \in 2..Len(s)}
    <2>1. ASSUME NEW n \in 1..Len(s) - 1 PROVE Tail(s)[n] \in {s[m] : m \in 2..Len(s)}
      <3>1. n + 1 \in 2..Len(s) /\ Tail(s)[n] = s[n + 1]
        BY <1>1
      <3> QED BY <3>1
    <2>2. ASSUME NEW m \in 2..Len(s) PROVE s[m] \in {Tail(s)[n] : n \in 1..Len(s) - 1}
      <3>1. m - 1 \in 1..Len(s) - 1 /\ m - 1 + 1 = m
        BY <1>1
      <3>2. Tail(s)[m - 1] = s[m]
        BY <1>1, <3>1
      <3> QED BY <3>1, <3>2
    <2> QED BY <1>2, <2>1, <2>2
  <1>7. \A a \in Range(s) : Head(s) <= a
    BY <1>1, <1>2, <1>3, <1>4
  <1>8. Range(Tail(s)) = Range(s) \ {Head(s)}
    BY <1>1, <1>2, <1>3, <1>4, <1>6
  <1>9. Head(s) \in Range(s)
    BY <1>1, <1>2
  <1> QED BY <1>1, <1>3, <1>5, <1>7, <1>8, <1>9

LEMMA RangeOfTail ==
    ASSUME NEW s \in Seq(Batches), s # << >>
    PROVE  /\ Range(Tail(s)) \subseteq Range(s)
           /\ s[Len(s)] = IF Tail(s) = << >> THEN Head(s) ELSE Tail(s)[Len(Tail(s))]
  <1>1. /\ Len(s) \in Nat \ {0} /\ Head(s) = s[1] /\ Tail(s) \in Seq(Batches)
        /\ Len(Tail(s)) = Len(s) - 1 /\ \A n \in 1..Len(s) - 1 : Tail(s)[n] = s[n + 1]
    BY HeadTailProperties
  <1>2. /\ Range(s) = {s[n] : n \in 1..Len(s)}
        /\ Range(Tail(s)) = {Tail(s)[n] : n \in 1..Len(s) - 1}
    BY <1>1, RangeIn
  <1>3. \A n \in 1..Len(s) - 1 : n + 1 \in 1..Len(s) /\ Tail(s)[n] = s[n + 1]
    BY <1>1
  <1>4. Range(Tail(s)) \subseteq Range(s)
    BY <1>2, <1>3
  <1>5. CASE Len(s) = 1
    <2>1. Len(Tail(s)) = 0
      BY <1>1, <1>5
    <2>2. Tail(s) = << >>
      BY <1>1, <2>1, EmptySeq
    <2> QED BY <1>1, <1>4, <1>5, <2>2
  <1>6. CASE Len(s) # 1
    <2>1. Len(s) - 1 \in 1..Len(s) - 1 /\ Len(s) - 1 # 0 /\ Len(s) - 1 + 1 = Len(s)
      BY <1>1, <1>6
    <2>2. Tail(s)[Len(s) - 1] = s[Len(s)]
      BY <1>1, <2>1
    <2>3. Len(Tail(s)) # 0
      BY <1>1, <2>1
    <2>4. Tail(s) # << >>
      BY <1>1, <2>3, EmptySeq
    <2> QED BY <1>1, <1>4, <2>2, <2>4
  <1> QED BY <1>5, <1>6

-----------------------------------------------------------------------------
(* What the actions do to the jobs.                                         *)

\* Only the next unused batch is started.
LEMMA StartEffect ==
    ASSUME Base, NEW kind \in {"registration", "upload"}, Start(kind)
    PROVE  \E b \in Batches :
              /\ ~Used(b) /\ batch'[b] = [kind |-> kind, first |-> nextPreKeyId,
                                          pc |-> IF kind = "registration" THEN "sending" ELSE "querying"]
              /\ \A c \in Batches : c # b => batch'[c] = batch[c] /\ (Used(c) <=> c < b)
              /\ batch' \in [Batches -> Job] /\ toServer' = Append(toServer, b)
  <1>1. PICK b \in Batches :
              /\ batch[b] = Unused
              /\ \A a \in Batches : a < b => batch[a] # Unused
              /\ batch' = [batch EXCEPT ![b] =
                    [kind |-> kind, first |-> nextPreKeyId,
                     pc |-> IF kind = "registration" THEN "sending" ELSE "querying"]]
              /\ toServer' = Append(toServer, b)
    BY DEF Start
  <1>2. \A c \in Batches : c # b => (Used(c) <=> c < b)
    BY <1>1 DEF Base, FifoInv, Used, Batches
  <1>3. batch'[b] = [kind |-> kind, first |-> nextPreKeyId,
                     pc |-> IF kind = "registration" THEN "sending" ELSE "querying"]
    BY <1>1 DEF Base, Typed
  <1>4. batch'[b] \in Job
    BY <1>3 DEF Job, Base, Typed
  <1>5. batch' \in [Batches -> Job] /\ \A c \in Batches : c # b => batch'[c] = batch[c]
    BY <1>1, <1>3, <1>4 DEF Base, Typed
  <1> QED BY <1>1, <1>2, <1>3, <1>5 DEF Used

LEMMA StoreBatchEffect ==
    ASSUME Typed, NEW b \in Batches, Used(b), StoreBatch(b)
    PROVE  /\ batch' \in [Batches -> Job] /\ writes' \in [KeyIds -> Seq(Batches)]
           /\ batch'[b].pc = "storing" /\ batch'[b].kind = batch[b].kind /\ batch'[b].first = batch[b].first
           /\ \A c \in Batches : c # b => batch'[c] = batch[c]
           /\ \A c \in Batches : Used(c)' <=> Used(c)
           /\ \A i \in KeyIds : writes'[i] = IF i \in Ids(b) THEN Append(writes[i], b) ELSE writes[i]
  <1>1. batch[b] \in [kind : {"registration", "upload"}, first : Nat \ {0},
                      pc : {"sending", "querying", "storing", "done", "saved", "failed"}]
    BY DEF Typed, Used, Job
  <1>2. /\ batch'[b] = [batch[b] EXCEPT !.pc = "storing"]
        /\ \A c \in Batches : c # b => batch'[c] = batch[c]
        /\ batch' = [batch EXCEPT ![b] = [batch[b] EXCEPT !.pc = "storing"]]
    BY DEF StoreBatch, Typed
  <1>3. batch'[b] \in Job
    BY <1>1, <1>2 DEF Job
  <1>4. batch' \in [Batches -> Job]
    BY <1>2, <1>3 DEF Typed
  <1>5. batch'[b].pc = "storing" /\ batch'[b].kind = batch[b].kind /\ batch'[b].first = batch[b].first
    BY <1>1, <1>2
  <1>6. \A i \in KeyIds : Append(writes[i], b) \in Seq(Batches)
    BY Appended DEF Typed
  <1>7. writes' \in [KeyIds -> Seq(Batches)]
    BY <1>6 DEF StoreBatch, Typed
  <1>8. \A c \in Batches : Used(c)' <=> Used(c)
    BY <1>2, <1>5 DEF Used, Unused
  <1> QED BY <1>2, <1>4, <1>5, <1>7, <1>8 DEF StoreBatch

\* A step of a job that only changes where it is.
LEMMA PcEffect ==
    ASSUME Typed, NEW b \in Batches, Used(b),
           NEW pc \in {"sending", "querying", "storing", "done", "saved", "failed"},
           batch' = [batch EXCEPT ![b].pc = pc]
    PROVE  /\ batch' \in [Batches -> Job]
           /\ batch'[b].pc = pc /\ batch'[b].kind = batch[b].kind /\ batch'[b].first = batch[b].first
           /\ \A c \in Batches : c # b => batch'[c] = batch[c]
           /\ \A c \in Batches : Used(c)' <=> Used(c)
  <1>1. batch[b] \in [kind : {"registration", "upload"}, first : Nat \ {0},
                      pc : {"sending", "querying", "storing", "done", "saved", "failed"}]
    BY DEF Typed, Used, Job
  <1>2. batch'[b] = [batch[b] EXCEPT !.pc = pc] /\ \A c \in Batches : c # b => batch'[c] = batch[c]
    BY DEF Typed
  <1>3. batch'[b] \in Job
    BY <1>1, <1>2 DEF Job
  <1>4. batch' \in [Batches -> Job]
    BY <1>2, <1>3 DEF Typed
  <1>5. \A c \in Batches : Used(c)' <=> Used(c)
    BY <1>1, <1>2 DEF Used, Unused
  <1> QED BY <1>1, <1>2, <1>4, <1>5

\* Steps of several jobs at once.
LEMMA PcsEffect ==
    ASSUME Typed, NEW pc \in {"saved", "failed"}, NEW S \in SUBSET Batches,
           \A b \in S : Used(b),
           batch' = [b \in Batches |-> IF b \in S THEN [batch[b] EXCEPT !.pc = pc] ELSE batch[b]]
    PROVE  /\ batch' \in [Batches -> Job]
           /\ \A b \in Batches :
                 /\ batch'[b].pc = IF b \in S THEN pc ELSE batch[b].pc
                 /\ batch'[b].kind = batch[b].kind /\ batch'[b].first = batch[b].first
                 /\ Used(b)' <=> Used(b)
  <1> DEFINE J == [kind : {"registration", "upload"}, first : Nat \ {0},
                   pc : {"sending", "querying", "storing", "done", "saved", "failed"}]
  <1>1. \A b \in Batches : batch'[b] = IF b \in S THEN [batch[b] EXCEPT !.pc = pc] ELSE batch[b]
    OBVIOUS
  <1>2. \A b \in S : batch[b] \in J
    BY DEF Typed, Used, Job
  <1>3. \A b \in S : batch'[b] \in J /\ batch'[b].pc = pc /\ batch'[b].kind = batch[b].kind
                     /\ batch'[b].first = batch[b].first
    BY <1>1, <1>2
  <1>4. \A b \in S : batch'[b] # Unused
    BY <1>3 DEF Unused
  <1>5. \A b \in Batches : batch'[b] \in Job
    BY <1>1, <1>3 DEF Typed, Job
  <1>6. batch' \in [Batches -> Job]
    BY <1>1, <1>5
  <1>7. \A b \in Batches : Used(b)' <=> Used(b)
    BY <1>1, <1>4 DEF Used
  <1> QED BY <1>1, <1>3, <1>6, <1>7

-----------------------------------------------------------------------------
(* Batches are started, sent and confirmed in one order.                    *)

LEMMA ShrinkFifo ==
    ASSUME Base, \A b \in Batches : (Used(b)' <=> Used(b)) /\ batch'[b].kind = batch[b].kind
                                       /\ batch'[b].pc \in {batch[b].pc, "storing", "done", "saved", "failed"},
           toServer' = toServer \/ toServer' = << >>,
           Increasing(toClient'), Range(toClient') \subseteq Range(toClient)
    PROVE  FifoInv'
  <1>1. Increasing(toServer') /\ (toServer' = toServer \/ Range(toServer') = {})
    BY RangeEmpty DEF Base, FifoInv
  <1>2. Range(toServer) \subseteq Batches /\ Range(toClient) \subseteq Batches
    BY RangeIn DEF Base, Typed
  <1>3. \A b \in Batches : /\ batch'[b].pc = "sending" => batch'[b].kind = "registration"
                           /\ batch'[b].pc = "querying" => batch'[b].kind = "upload"
    BY DEF Base, FifoInv
  <1> QED BY <1>1, <1>2, <1>3 DEF Base, FifoInv

LEMMA StartBase ==
    ASSUME Base, NEW kind \in {"registration", "upload"}, Start(kind),
           UNCHANGED <<nextPreKeyId, credsFile, store, server, writes, toClient>>
    PROVE  Base'
  <1>1. PICK b \in Batches :
              /\ ~Used(b) /\ batch'[b] = [kind |-> kind, first |-> nextPreKeyId,
                                          pc |-> IF kind = "registration" THEN "sending" ELSE "querying"]
              /\ \A c \in Batches : c # b => batch'[c] = batch[c] /\ (Used(c) <=> c < b)
              /\ batch' \in [Batches -> Job] /\ toServer' = Append(toServer, b)
    BY StartEffect
  <1>2. \A c \in Batches : Used(c)' <=> Used(c) \/ c = b
    BY <1>1 DEF Used, Unused
  <1>3. \A c \in Range(toServer) \cup Range(toClient) : c \in Batches /\ Used(c) /\ c # b /\ c < b
    BY <1>1, RangeIn DEF Base, Typed, FifoInv
  <1>4. /\ toServer' \in Seq(Batches) /\ Range(toServer') = Range(toServer) \cup {b}
        /\ Increasing(toServer')
    BY <1>1, <1>3, Appended DEF Base, Typed, FifoInv
  <1>5. Typed'
    BY <1>1, <1>4 DEF Base, Typed
  <1>6. \A x, c \in Batches : x < c /\ Used(c)' => Used(x)'
    BY <1>1, <1>2 DEF Base, FifoInv, Batches
  <1>7. \A x \in Range(toServer') : \A c \in Batches : Used(c)' /\ c > x => c \in Range(toServer')
    BY <1>1, <1>2, <1>3, <1>4 DEF Base, FifoInv, Batches
  <1>8. \A x \in Range(toClient') : batch'[x].kind = "upload" /\ x \notin Range(toServer')
    BY <1>1, <1>3, <1>4 DEF Base, FifoInv
  <1>9. \A c \in Batches : /\ batch'[c].pc = "sending" => batch'[c].kind = "registration"
                           /\ batch'[c].pc = "querying" => batch'[c].kind = "upload"
    BY <1>1 DEF Base, FifoInv
  <1> QED BY <1>2, <1>3, <1>4, <1>5, <1>6, <1>7, <1>8, <1>9 DEF Base, FifoInv

LEMMA ReceiveBase == ASSUME Base, ServerReceives PROVE Base'
  <1> DEFINE b == Head(toServer)
  <1>1. /\ toServer # << >> /\ toServer' = Tail(toServer)
        /\ toClient' = IF batch[b].kind = "upload" THEN Append(toClient, b) ELSE toClient
        /\ server' = [i \in KeyIds |-> IF i \in Ids(b) THEN b ELSE server[i]]
        /\ UNCHANGED <<nextPreKeyId, credsFile, store, writes, batch>>
    BY DEF ServerReceives, creds, disk
  <1>2. /\ b \in Range(toServer) /\ b \in Batches /\ toServer' \in Seq(Batches)
        /\ Range(toServer') = Range(toServer) \ {b} /\ Increasing(toServer')
        /\ \A a \in Range(toServer) : b <= a
    BY <1>1, Taken DEF Base, Typed, FifoInv
  <1> HIDE DEF b
  <1>3. \A c \in Range(toServer) \cup Range(toClient) : c \in Batches /\ Used(c)
    BY RangeIn DEF Base, Typed, FifoInv
  <1>4. \A a \in Range(toClient) : a < b
    BY <1>2, <1>3 DEF Base, FifoInv, Batches
  <1>5. /\ toClient' \in Seq(Batches) /\ Increasing(toClient')
        /\ Range(toClient') = Range(toClient) \cup (IF batch[b].kind = "upload" THEN {b} ELSE {})
    BY <1>1, <1>2, <1>4, Appended DEF Base, Typed, FifoInv
  <1>6. server' \in [KeyIds -> Batches \cup {None}]
    BY <1>1, <1>2 DEF Base, Typed
  <1>7. Typed'
    BY <1>1, <1>2, <1>5, <1>6 DEF Base, Typed
  <1>8. \A c \in Batches : Used(c)' <=> Used(c)
    BY <1>1 DEF Used
  <1>9. \A x \in Range(toServer') : \A c \in Batches : Used(c)' /\ c > x => c \in Range(toServer')
    BY <1>2, <1>3, <1>8 DEF Base, FifoInv, Batches
  <1>10. \A x \in Range(toClient') : batch'[x].kind = "upload" /\ x \notin Range(toServer')
    BY <1>1, <1>2, <1>5 DEF Base, FifoInv
  <1>11. \A c \in Batches : /\ batch'[c].pc = "sending" => batch'[c].kind = "registration"
                            /\ batch'[c].pc = "querying" => batch'[c].kind = "upload"
    BY <1>1 DEF Base, FifoInv
  <1> QED BY <1>2, <1>3, <1>5, <1>7, <1>8, <1>9, <1>10, <1>11 DEF Base, FifoInv

LEMMA BaseStep == ASSUME Base, [Next]_vars PROVE Base'
  <1>0. Increasing(toClient) /\ toClient \in Seq(Batches)
    BY DEF Base, Typed, FifoInv
  <1>1. CASE Login \/ UserUpload \/ LoginConfirmed \/ InitialQueries
    <2>1. UNCHANGED <<nextPreKeyId, credsFile, store, server, writes, toClient>>
      BY <1>1 DEF Login, UserUpload, LoginConfirmed, InitialQueries, creds, disk, remote, network, history
    <2>2. CASE \E kind \in {"registration", "upload"} : Start(kind)
      BY <2>1, <2>2, StartBase
    <2>3. CASE UNCHANGED <<batch, toServer>>
      <3>1. Typed'
        BY <2>1, <2>3 DEF Base, Typed
      <3>2. FifoInv'
        BY <1>0, <2>1, <2>3, ShrinkFifo DEF Used
      <3> QED BY <3>1, <3>2 DEF Base
    <2> QED BY <1>1, <2>2, <2>3 DEF Login, UserUpload, LoginConfirmed, InitialQueries, network, history
  <1>2. CASE Response
    <2>1. /\ toClient # << >> /\ toClient' = Tail(toClient)
          /\ UNCHANGED <<nextPreKeyId, credsFile, store, server, toServer>>
          /\ \/ StoreBatch(Head(toClient)) /\ batch[Head(toClient)].pc = "querying"
             \/ UNCHANGED <<batch, writes>>
      BY <1>2 DEF Response, creds, disk, remote
    <2>2. /\ Head(toClient) \in Range(toClient) /\ Head(toClient) \in Batches
          /\ toClient' \in Seq(Batches) /\ Range(toClient') \subseteq Range(toClient)
          /\ Increasing(toClient')
      BY <1>0, <2>1, Taken
    <2>3. Used(Head(toClient))
      BY <2>2 DEF Base, FifoInv
    <2>4. /\ batch' \in [Batches -> Job] /\ writes' \in [KeyIds -> Seq(Batches)]
          /\ \A b \in Batches : (Used(b)' <=> Used(b)) /\ batch'[b].kind = batch[b].kind
                                   /\ batch'[b].pc \in {batch[b].pc, "storing", "done", "saved", "failed"}
      <3>1. CASE StoreBatch(Head(toClient))
        BY <2>2, <2>3, <3>1, StoreBatchEffect DEF Base
      <3>2. CASE UNCHANGED <<batch, writes>>
        BY <3>2 DEF Base, Typed, Used
      <3> QED BY <2>1, <3>1, <3>2
    <2>5. FifoInv'
      BY <2>1, <2>2, <2>4, ShrinkFifo
    <2> QED BY <2>1, <2>2, <2>4, <2>5 DEF Base, Typed
  <1>3. ASSUME NEW b \in Batches, RegistrationSent(b) \/ QueryTimesOut(b) \/ BatchDone(b) PROVE Base'
    <2>1. Used(b)
      BY <1>3 DEF RegistrationSent, QueryTimesOut, BatchDone, Used, Unused
    <2>2. /\ batch' \in [Batches -> Job] /\ writes' \in [KeyIds -> Seq(Batches)]
          /\ \A c \in Batches : (Used(c)' <=> Used(c)) /\ batch'[c].kind = batch[c].kind
                                   /\ batch'[c].pc \in {batch[c].pc, "storing", "done", "saved", "failed"}
      <3>1. CASE RegistrationSent(b)
        BY <2>1, <3>1, StoreBatchEffect DEF Base, RegistrationSent
      <3>2. CASE QueryTimesOut(b)
        BY <2>1, <3>2, PcEffect DEF Base, QueryTimesOut, Typed
      <3>3. CASE BatchDone(b)
        BY <2>1, <3>3, PcEffect DEF Base, BatchDone, Typed
      <3> QED BY <1>3, <3>1, <3>2, <3>3
    <2>3. /\ UNCHANGED <<credsFile, store, server, toServer, toClient>>
          /\ nextPreKeyId' = nextPreKeyId \/ nextPreKeyId' = nextPreKeyId + INITIAL_PREKEYS
      BY <1>3 DEF RegistrationSent, QueryTimesOut, BatchDone, creds, disk, remote, network
    <2>4. FifoInv'
      BY <1>0, <2>2, <2>3, ShrinkFifo
    <2>5. nextPreKeyId' \in Nat \ {0}
      BY <2>3, SizeAssumption DEF Base, Typed
    <2> QED BY <2>2, <2>3, <2>4, <2>5 DEF Base, Typed
  <1>4. ASSUME NEW i \in KeyIds, FileWritten(i) PROVE Base'
    <2>1. Head(writes[i]) \in Batches /\ Tail(writes[i]) \in Seq(Batches)
      BY <1>4, HeadTailProperties DEF FileWritten, Base, Typed
    <2>2. /\ store' \in [KeyIds -> Batches \cup {None}] /\ writes' \in [KeyIds -> Seq(Batches)]
          /\ UNCHANGED <<nextPreKeyId, credsFile, server, toServer, toClient, batch>>
      BY <1>4, <2>1 DEF FileWritten, Base, Typed, creds, remote, network
    <2>3. FifoInv'
      BY <1>0, <2>2, ShrinkFifo DEF Used
    <2> QED BY <2>2, <2>3 DEF Base, Typed
  <1>5. CASE SaveCreds
    <2> DEFINE S == {b \in Batches : batch[b].pc = "done"}
    <2>1. /\ batch' = [b \in Batches |-> IF b \in S THEN [batch[b] EXCEPT !.pc = "saved"] ELSE batch[b]]
          /\ credsFile'.next = nextPreKeyId
          /\ UNCHANGED <<nextPreKeyId, store, server, writes, toServer, toClient>>
      BY <1>5 DEF SaveCreds, creds, remote, network
    <2>2. \A b \in S : Used(b)
      BY DEF Used, Unused
    <2> HIDE DEF S
    <2>3. S \in SUBSET Batches
      BY DEF S
    <2>4. /\ batch' \in [Batches -> Job]
          /\ \A b \in Batches : (Used(b)' <=> Used(b)) /\ batch'[b].kind = batch[b].kind
                                   /\ batch'[b].pc \in {batch[b].pc, "storing", "done", "saved", "failed"}
      BY <2>1, <2>2, <2>3, PcsEffect DEF Base
    <2>5. FifoInv'
      BY <1>0, <2>1, <2>4, ShrinkFifo
    <2> QED BY <2>1, <2>4, <2>5 DEF Base, Typed
  <1>6. CASE ConnectionLost \/ Crash
    <2> DEFINE S == IF ConnectionLost THEN {b \in Batches : batch[b].pc = "sending"}
                    ELSE {b \in Batches : batch[b].pc \notin {"unused", "saved"}}
    <2>1. \A b \in S : Used(b)
      BY DEF Used, Unused
    <2>2. batch' = [b \in Batches |-> IF b \in S THEN [batch[b] EXCEPT !.pc = "failed"] ELSE batch[b]]
      <3>1. CASE ConnectionLost
        BY <3>1 DEF ConnectionLost
      <3>2. CASE ~ConnectionLost
        BY <1>6, <3>2 DEF Crash
      <3> QED BY <3>1, <3>2
    <2> HIDE DEF S
    <2>3. S \in SUBSET Batches
      BY DEF S
    <2>4. /\ batch' \in [Batches -> Job]
          /\ \A b \in Batches : (Used(b)' <=> Used(b)) /\ batch'[b].kind = batch[b].kind
                                   /\ batch'[b].pc \in {batch[b].pc, "storing", "done", "saved", "failed"}
      BY <2>1, <2>2, <2>3, PcsEffect, ZenonT(40) DEF Base
    <2>5. /\ toServer' = << >> /\ toClient' = << >> /\ UNCHANGED <<credsFile, store, server>>
          /\ nextPreKeyId' \in {nextPreKeyId, credsFile.next}
          /\ writes' = writes \/ writes' = [i \in KeyIds |-> << >>]
      BY <1>6 DEF ConnectionLost, Crash, creds, disk, remote
    <2>6. FifoInv'
      BY <2>4, <2>5, ShrinkFifo, RangeEmpty
    <2>7. writes' \in [KeyIds -> Seq(Batches)]
      BY <2>5, RangeEmpty DEF Base, Typed
    <2> QED BY <2>4, <2>5, <2>6, <2>7, RangeEmpty DEF Base, Typed
  <1>7. ASSUME NEW i \in KeyIds, HandOut(i) PROVE Base'
    BY <1>7 DEF HandOut, Base, Typed, FifoInv, Used, creds, disk, network
  <1>8. CASE UNCHANGED vars
    BY <1>8 DEF vars, Base, Typed, FifoInv, Used, creds, disk, network, remote
  <1> QED BY <1>1, <1>2, <1>3, <1>4, <1>5, <1>6, <1>7, <1>8, ReceiveBase DEF Next

LEMMA BaseInvariant == Spec => []Base
  <1>1. Init => Base
    <2> SUFFICES ASSUME Init PROVE Base
      OBVIOUS
    <2>1. \A b \in Batches : batch[b] = Unused
      BY DEF Init
    <2>2. Typed
      BY <2>1, RangeEmpty DEF Init, Typed, Job
    <2>3. FifoInv
      BY <2>1, RangeEmpty DEF Init, FifoInv, Used, Unused
    <2> QED BY <2>2, <2>3 DEF Base
  <1> QED BY <1>1, BaseStep, PTL DEF Spec

-----------------------------------------------------------------------------
(* As long as batches do not overlap.                                       *)

\* keys.set() has been called for the batch; the counter has moved past it.
Kept(b)    == batch[b].pc \in {"storing", "done", "saved"}
Counted(b) == batch[b].pc \in {"done", "saved"}
Past(b)    == batch[b].first + INITIAL_PREKEYS

\* A batch at work is the last and begins at the counter; the counter, in memory and in
\* creds.json, is past the batches that have been counted, and within the bound.
SerialInv ==
    /\ \A b \in Batches : Active(b) =>
          batch[b].first = nextPreKeyId /\ \A c \in Batches : Used(c) => c <= b
    /\ credsFile.next <= nextPreKeyId
    /\ \A b \in Batches : Used(b) => Past(b) <= 1 + INITIAL_PREKEYS * b
    /\ \A b \in Batches : ~Used(b) => nextPreKeyId <= 1 + INITIAL_PREKEYS * (b - 1)
    /\ nextPreKeyId <= 1 + INITIAL_PREKEYS * MaxBatches
    /\ \A b \in Batches : Counted(b) =>
          Past(b) <= nextPreKeyId /\ \A c \in Batches : Used(c) /\ c > b => Past(b) <= batch[c].first
    /\ \A b \in Batches : batch[b].pc = "saved" => Past(b) <= credsFile.next

\* A key of a batch is in its file, or is the one that waits to be written; below the
\* counter every key has its file.
FilesInv ==
    /\ \A i \in KeyIds : writes[i] # << >> =>
          \E b \in Batches : batch[b].pc = "storing" /\ i \in Ids(b) /\ writes[i] = <<b>>
    /\ \A b \in Batches : Kept(b) => \A i \in Ids(b) :
          store[i] = b \/ (batch[b].pc = "storing" /\ writes[i] = <<b>>)
    /\ \A i \in KeyIds : i < nextPreKeyId => store[i] # None

\* The result of an upload is on its way, or has come, from the call that waits for it.
Confirmed(b) ==
    batch[b].kind = "upload" /\ (Kept(b) \/ (batch[b].pc = "querying" /\ b \in Range(toClient)))

ServerInv ==
    \A b \in Batches : Confirmed(b) => b \notin Range(toServer) /\ \A i \in Ids(b) : server[i] = b

Apart == SerialInv /\ FilesInv /\ ServerInv

\* The bound on ids.
LEMMA Multiples == \A m, n \in Int : m <= n => INITIAL_PREKEYS * m <= INITIAL_PREKEYS * n
  <1> SUFFICES ASSUME NEW m \in Int, NEW n \in Int, m <= n
               PROVE  INITIAL_PREKEYS * m <= INITIAL_PREKEYS * n
    OBVIOUS
  <1>1. INITIAL_PREKEYS * n = INITIAL_PREKEYS * m + INITIAL_PREKEYS * (n - m)
    BY SizeAssumption
  <1>2. INITIAL_PREKEYS * (n - m) >= 0
    BY SizeAssumption
  <1> QED BY <1>1, <1>2, SizeAssumption

LEMMA OneMoreBatch ==
    \A b \in Int : INITIAL_PREKEYS * (b - 1) + INITIAL_PREKEYS = INITIAL_PREKEYS * b
                   /\ INITIAL_PREKEYS * b \in Int
  BY SizeAssumption

LEMMA JobTypes ==
    ASSUME Typed, NEW b \in Batches
    PROVE  /\ b \in Int /\ b >= 1 /\ b <= MaxBatches /\ MaxBatches \in Int
           /\ batch[b].first \in Nat /\ Past(b) \in Nat
           /\ INITIAL_PREKEYS \in Nat \ {0}
           /\ Used(b) => batch[b].first >= 1
           /\ Kept(b) \/ Active(b) => Used(b)
           /\ nextPreKeyId \in Nat /\ credsFile.next \in Nat
           /\ \A i : i \in Ids(b) <=> i \in Int /\ batch[b].first <= i /\ i < Past(b)
  <1>1. b \in Int /\ b >= 1 /\ b <= MaxBatches /\ MaxBatches \in Int
    BY BatchAssumption DEF Batches
  <1>2. batch[b] \in Job
    BY DEF Typed
  <1>3. batch[b].first \in Nat /\ (Used(b) => batch[b].first >= 1)
    BY <1>2 DEF Job, Used, Unused
  <1>4. Past(b) \in Nat
    BY <1>3, SizeAssumption DEF Past
  <1>5. Kept(b) \/ Active(b) => Used(b)
    BY DEF Kept, Active, Used, Unused
  <1>6. \A i : i \in Ids(b) <=> i \in Int /\ batch[b].first <= i /\ i < Past(b)
    BY <1>3, SizeAssumption DEF Ids, Past
  <1> QED BY <1>1, <1>3, <1>4, <1>5, <1>6, SizeAssumption DEF Typed

LEMMA IdsAreKeyIds ==
    ASSUME Typed, SerialInv, NEW b \in Batches, Used(b)
    PROVE  Ids(b) \subseteq KeyIds
  <1>1. INITIAL_PREKEYS * b <= INITIAL_PREKEYS * MaxBatches /\ INITIAL_PREKEYS * MaxBatches \in Int
    BY JobTypes, Multiples, OneMoreBatch
  <1>2. Past(b) <= 1 + INITIAL_PREKEYS * MaxBatches
    BY <1>1, JobTypes, OneMoreBatch DEF SerialInv
  <1> QED BY <1>1, <1>2, JobTypes DEF KeyIds

\* Only one batch is at work.
LEMMA OneActive ==
    ASSUME Typed, SerialInv, NEW b \in Batches, NEW c \in Batches, Active(b), Active(c)
    PROVE  b = c
  BY JobTypes DEF SerialInv

LEMMA StartApart ==
    ASSUME Base, ~overlapped => Apart, NEW kind \in {"registration", "upload"}, Start(kind),
           UNCHANGED <<nextPreKeyId, credsFile, store, server, writes, toClient>>
    PROVE  ~overlapped' => Apart'
  <1> SUFFICES ASSUME ~overlapped' PROVE Apart'
    OBVIOUS
  <1>1. ~overlapped /\ \A b \in Batches : ~Active(b)
    BY DEF Start
  <1>2. SerialInv /\ FilesInv /\ ServerInv
    BY <1>1 DEF Apart
  <1>3. PICK b \in Batches :
              /\ ~Used(b) /\ batch'[b] = [kind |-> kind, first |-> nextPreKeyId,
                                          pc |-> IF kind = "registration" THEN "sending" ELSE "querying"]
              /\ \A c \in Batches : c # b => batch'[c] = batch[c] /\ (Used(c) <=> c < b)
              /\ batch' \in [Batches -> Job] /\ toServer' = Append(toServer, b)
    BY StartEffect
  <1>4. /\ batch'[b].first = nextPreKeyId /\ batch'[b].pc \in {"sending", "querying"} /\ Used(b)'
        /\ ~Kept(b)' /\ ~Counted(b)'
    BY <1>3 DEF Used, Unused, Kept, Counted
  <1>5. \A c \in Batches : c # b =>
              /\ Used(c)' = Used(c) /\ Kept(c)' = Kept(c) /\ Counted(c)' = Counted(c)
              /\ Past(c)' = Past(c) /\ Ids(c)' = Ids(c)
    BY <1>3 DEF Used, Kept, Counted, Past, Ids
  <1>6. Range(toServer') = Range(toServer) \cup {b}
    BY <1>3, Appended DEF Base, Typed
  <1>7. \A c \in Batches : c # b => ~Active(c)'
    BY <1>1, <1>3, <1>6 DEF Active
  <1>8. b \notin Range(toClient)
    BY <1>3 DEF Base, FifoInv
  <1>9. \A c \in Batches : Used(c)' => c <= b
    BY <1>3, <1>5, JobTypes DEF Base
  <1>10. Past(b)' <= 1 + INITIAL_PREKEYS * b
    <2>1. nextPreKeyId <= 1 + INITIAL_PREKEYS * (b - 1)
      BY <1>2, <1>3 DEF SerialInv
    <2> QED BY <1>4, <2>1, OneMoreBatch, JobTypes DEF Past, Base
  <1>11. SerialInv'
    <2>1. \A c \in Batches : Active(c)' =>
             batch'[c].first = nextPreKeyId' /\ \A a \in Batches : Used(a)' => a <= c
      BY <1>4, <1>7, <1>9
    <2>2. \A c \in Batches : Used(c)' => Past(c)' <= 1 + INITIAL_PREKEYS * c
      BY <1>2, <1>5, <1>10 DEF SerialInv
    <2>3. \A c \in Batches : ~Used(c)' => nextPreKeyId' <= 1 + INITIAL_PREKEYS * (c - 1)
      BY <1>2, <1>4, <1>5 DEF SerialInv
    <2>4. ASSUME NEW c \in Batches, Counted(c)', NEW a \in Batches, Used(a)', a > c
          PROVE  Past(c)' <= batch'[a].first
      BY <1>2, <1>3, <1>4, <1>5, <2>4 DEF SerialInv
    <2>5. \A c \in Batches : Counted(c)' => Past(c)' <= nextPreKeyId'
      BY <1>2, <1>4, <1>5 DEF SerialInv
    <2>6. \A c \in Batches : batch'[c].pc = "saved" => Past(c)' <= credsFile'.next
      BY <1>2, <1>3, <1>4, <1>5 DEF SerialInv
    <2>7. credsFile'.next <= nextPreKeyId' /\ nextPreKeyId' <= 1 + INITIAL_PREKEYS * MaxBatches
      BY <1>2 DEF SerialInv
    <2> QED BY <2>1, <2>2, <2>3, <2>4, <2>5, <2>6, <2>7 DEF SerialInv
  <1>12. FilesInv'
    <2>1. \A i \in KeyIds : writes'[i] # << >> =>
             \E c \in Batches : batch'[c].pc = "storing" /\ i \in Ids(c)' /\ writes'[i] = <<c>>
      BY <1>2, <1>3, <1>5 DEF FilesInv, Used, Unused
    <2>2. \A c \in Batches : Kept(c)' => \A i \in Ids(c)' :
             store'[i] = c \/ (batch'[c].pc = "storing" /\ writes'[i] = <<c>>)
      BY <1>2, <1>3, <1>4, <1>5 DEF FilesInv
    <2>3. \A i \in KeyIds : i < nextPreKeyId' => store'[i] # None
      BY <1>2 DEF FilesInv
    <2> QED BY <2>1, <2>2, <2>3 DEF FilesInv
  <1>13. ServerInv'
    <2> SUFFICES ASSUME NEW c \in Batches, Confirmed(c)'
                 PROVE  c \notin Range(toServer') /\ \A i \in Ids(c)' : server'[i] = c
      BY DEF ServerInv
    <2>1. c # b
      BY <1>4, <1>8 DEF Confirmed
    <2>2. Confirmed(c)
      BY <1>3, <1>5, <2>1 DEF Confirmed
    <2> QED BY <1>2, <1>5, <1>6, <2>1, <2>2 DEF ServerInv
  <1> QED BY <1>11, <1>12, <1>13 DEF Apart

\* Jobs that fail, results that are dropped, and steps of others.
LEMMA IdleApart ==
    ASSUME Base, Apart,
           UNCHANGED <<nextPreKeyId, credsFile, store, writes, server>>,
           Range(toServer') \subseteq Range(toServer), Range(toClient') \subseteq Range(toClient),
           \A b \in Batches :
              /\ batch'[b].first = batch[b].first /\ batch'[b].kind = batch[b].kind
              /\ (Used(b)' <=> Used(b))
              /\ batch'[b].pc = batch[b].pc
                 \/ (batch'[b].pc = "failed" /\ batch[b].pc \in {"sending", "querying"})
    PROVE  Apart'
  <1>1. \A b \in Batches :
           /\ Kept(b)' = Kept(b) /\ Counted(b)' = Counted(b) /\ Past(b)' = Past(b) /\ Ids(b)' = Ids(b)
           /\ (batch'[b].pc = "saved" <=> batch[b].pc = "saved")
           /\ (batch'[b].pc = "storing" <=> batch[b].pc = "storing")
    BY DEF Kept, Counted, Past, Ids
  <1>2. \A b \in Batches : (Active(b)' => Active(b)) /\ (Confirmed(b)' => Confirmed(b))
    BY DEF Active, Confirmed, Kept
  <1>3. SerialInv'
    BY <1>1, <1>2 DEF Apart, SerialInv
  <1>4. FilesInv'
    BY <1>1 DEF Apart, FilesInv
  <1>5. ServerInv'
    BY <1>1, <1>2 DEF Apart, ServerInv
  <1> QED BY <1>3, <1>4, <1>5 DEF Apart

\* keys.set() is called: nothing waits for the files of the batch.
LEMMA StoreBatchApart ==
    ASSUME Base, Apart, NEW b \in Batches, Used(b), Active(b), batch[b].pc # "storing", StoreBatch(b),
           batch[b].kind = "upload" => Confirmed(b),
           UNCHANGED <<nextPreKeyId, credsFile, store, server, toServer>>,
           Range(toClient') \subseteq Range(toClient)
    PROVE  Apart'
  <1>1. /\ batch'[b].pc = "storing" /\ batch'[b].kind = batch[b].kind /\ batch'[b].first = batch[b].first
        /\ \A c \in Batches : c # b => batch'[c] = batch[c]
        /\ \A c \in Batches : Used(c)' <=> Used(c)
        /\ \A i \in KeyIds : writes'[i] = IF i \in Ids(b) THEN Append(writes[i], b) ELSE writes[i]
    BY StoreBatchEffect DEF Base
  <1>2. \A c \in Batches : Past(c)' = Past(c) /\ Ids(c)' = Ids(c) /\ Counted(c)' = Counted(c)
                            /\ (batch'[c].pc = "saved" <=> batch[c].pc = "saved")
    <2>1. b \in Batches /\ ~Counted(b) /\ ~Counted(b)' /\ Past(b)' = Past(b) /\ Ids(b)' = Ids(b)
          /\ batch'[b].pc # "saved" /\ batch[b].pc # "saved"
      BY <1>1 DEF Past, Ids, Counted, Active
    <2> QED BY <1>1, <2>1 DEF Past, Ids, Counted
  <1>3. \A c \in Batches : Active(c)' => Active(c)
    BY <1>1 DEF Active
  <1>4. SerialInv'
    BY <1>1, <1>2, <1>3 DEF Apart, SerialInv
  <1>5. \A c \in Batches : Active(c) => c = b
    BY OneActive DEF Base, Apart
  <1>6. \A c \in Batches : batch[c].pc # "storing"
    BY <1>5 DEF Active
  <1>7. \A i \in KeyIds : writes[i] = << >>
    BY <1>6 DEF Apart, FilesInv
  <1>8. \A i \in KeyIds : writes'[i] = IF i \in Ids(b) THEN <<b>> ELSE << >>
    <2>1. Append(<< >>, b) = <<b>>
      OBVIOUS
    <2> QED BY <1>1, <1>7, <2>1
  <1>9. Ids(b) \subseteq KeyIds
    BY IdsAreKeyIds DEF Base, Apart
  <1>10. FilesInv'
    <2>1. ASSUME NEW i \in KeyIds, writes'[i] # << >>
          PROVE  \E c \in Batches : batch'[c].pc = "storing" /\ i \in Ids(c)' /\ writes'[i] = <<c>>
      BY <1>1, <1>2, <1>8, <2>1
    <2>2. ASSUME NEW c \in Batches, Kept(c)', NEW i \in Ids(c)'
          PROVE  store'[i] = c \/ (batch'[c].pc = "storing" /\ writes'[i] = <<c>>)
      <3>1. CASE c = b
        BY <1>1, <1>2, <1>8, <1>9, <3>1
      <3>2. CASE c # b
        <4>1. Kept(c) /\ batch[c].pc # "storing" /\ i \in Ids(c)
          BY <1>1, <1>2, <1>6, <2>2, <3>2 DEF Kept
        <4> QED BY <4>1 DEF Apart, FilesInv
      <3> QED BY <3>1, <3>2
    <2>3. \A i \in KeyIds : i < nextPreKeyId' => store'[i] # None
      BY DEF Apart, FilesInv
    <2> QED BY <2>1, <2>2, <2>3 DEF FilesInv
  <1>11. ServerInv'
    <2> SUFFICES ASSUME NEW c \in Batches, Confirmed(c)'
                 PROVE  c \notin Range(toServer') /\ \A i \in Ids(c)' : server'[i] = c
      BY DEF ServerInv
    <2>1. Confirmed(c)
      <3>1. CASE c = b
        BY <1>1, <3>1 DEF Confirmed
      <3>2. CASE c # b
        BY <1>1, <3>2 DEF Confirmed, Kept
      <3> QED BY <3>1, <3>2
    <2> QED BY <1>2, <2>1 DEF Apart, ServerInv
  <1> QED BY <1>4, <1>10, <1>11 DEF Apart

LEMMA FileWrittenApart ==
    ASSUME Base, Apart, NEW i \in KeyIds, FileWritten(i)
    PROVE  Apart'
  <1>1. /\ UNCHANGED <<nextPreKeyId, credsFile, server, toServer, toClient, batch>>
        /\ store' = [store EXCEPT ![i] = Head(writes[i])]
        /\ writes' = [writes EXCEPT ![i] = Tail(writes[i])]
    BY DEF FileWritten, creds, remote, network
  <1>2. PICK b \in Batches : batch[b].pc = "storing" /\ i \in Ids(b) /\ writes[i] = <<b>>
    BY DEF FileWritten, Apart, FilesInv
  <1>3. Head(<<b>>) = b /\ Tail(<<b>>) = << >>
    OBVIOUS
  <1>4. /\ store'[i] = b /\ writes'[i] = << >>
        /\ \A j \in KeyIds : j # i => store'[j] = store[j] /\ writes'[j] = writes[j]
    BY <1>1, <1>2, <1>3 DEF Base, Typed
  <1>5. \A c \in Batches : /\ Past(c)' = Past(c) /\ Ids(c)' = Ids(c) /\ Counted(c)' = Counted(c)
                           /\ Active(c)' = Active(c) /\ Kept(c)' = Kept(c)
                           /\ Confirmed(c)' = Confirmed(c) /\ Used(c)' = Used(c)
    BY <1>1 DEF Past, Ids, Counted, Active, Kept, Confirmed, Used
  <1>6. SerialInv' /\ ServerInv'
    BY <1>1, <1>5 DEF Apart, SerialInv, ServerInv
  <1>7. Active(b)
    BY <1>2 DEF Active
  <1>8. ASSUME NEW c \in Batches, c # b, Kept(c) PROVE i \notin Ids(c)
    <2>1. Used(c) /\ c <= b
      BY <1>7, <1>8, JobTypes DEF Base, Apart, SerialInv
    <2>2. ~Active(c)
      BY <1>7, <1>8, OneActive DEF Base, Apart
    <2>3. Counted(c)
      BY <1>8, <2>2 DEF Kept, Counted, Active
    <2>4. Used(b) /\ b > c
      BY <1>7, <1>8, <2>1, JobTypes DEF Base
    <2>5. Past(c) <= batch[b].first
      BY <2>3, <2>4 DEF Apart, SerialInv
    <2> QED BY <1>2, <2>5, JobTypes DEF Base
  <1>9. FilesInv'
    <2>1. ASSUME NEW j \in KeyIds, writes'[j] # << >>
          PROVE  \E c \in Batches : batch'[c].pc = "storing" /\ j \in Ids(c)' /\ writes'[j] = <<c>>
      BY <1>1, <1>4, <1>5, <2>1 DEF Apart, FilesInv
    <2>2. ASSUME NEW c \in Batches, Kept(c)', NEW j \in Ids(c)'
          PROVE  store'[j] = c \/ (batch'[c].pc = "storing" /\ writes'[j] = <<c>>)
      <3>1. Kept(c) /\ j \in Ids(c) /\ j \in KeyIds
        BY <1>5, <2>2, JobTypes, IdsAreKeyIds DEF Base, Apart
      <3>2. CASE j # i
        BY <1>1, <1>4, <3>1, <3>2 DEF Apart, FilesInv
      <3>3. CASE j = i
        BY <1>4, <1>8, <3>1, <3>3
      <3> QED BY <3>2, <3>3
    <2>3. \A j \in KeyIds : j < nextPreKeyId' => store'[j] # None
      <3>1. b # None
        BY JobTypes DEF Base, None
      <3> QED BY <1>1, <1>4, <3>1 DEF Apart, FilesInv
    <2> QED BY <2>1, <2>2, <2>3 DEF FilesInv
  <1> QED BY <1>6, <1>9 DEF Apart

\* The counter moves past the batch, which has all its files.
LEMMA BatchDoneApart ==
    ASSUME Base, Apart, NEW b \in Batches, BatchDone(b)
    PROVE  Apart'
  <1>1. /\ batch[b].pc = "storing" /\ nextPreKeyId' = nextPreKeyId + INITIAL_PREKEYS
        /\ batch' = [batch EXCEPT ![b].pc = "done"] /\ \A i \in Ids(b) : b \notin Range(writes[i])
        /\ UNCHANGED <<credsFile, store, writes, toServer, toClient, server>>
    BY DEF BatchDone, Stored, disk, network, remote
  <1>2. Used(b) /\ Active(b)
    BY <1>1 DEF Used, Unused, Active
  <1>3. /\ batch'[b].pc = "done" /\ batch'[b].kind = batch[b].kind /\ batch'[b].first = batch[b].first
        /\ \A c \in Batches : c # b => batch'[c] = batch[c]
        /\ \A c \in Batches : Used(c)' <=> Used(c)
    BY <1>1, <1>2, PcEffect DEF Base
  <1>4. \A c \in Batches : /\ Past(c)' = Past(c) /\ Ids(c)' = Ids(c) /\ Kept(c)' = Kept(c)
                           /\ batch'[c].first = batch[c].first /\ Confirmed(c)' = Confirmed(c)
    <2>1. /\ Past(b)' = Past(b) /\ Ids(b)' = Ids(b) /\ Kept(b)' = Kept(b)
          /\ Confirmed(b)' = Confirmed(b)
      BY <1>1, <1>3 DEF Past, Ids, Kept, Confirmed
    <2> QED BY <1>1, <1>3, <2>1 DEF Past, Ids, Kept, Confirmed
  <1>5. \A c \in Batches : Active(c) => c = b
    BY <1>2, OneActive DEF Base, Apart
  <1>6. \A c \in Batches : ~Active(c)'
    BY <1>1, <1>3, <1>5 DEF Active
  <1>7. nextPreKeyId' = Past(b)
    BY <1>1, <1>2 DEF Apart, SerialInv, Past
  <1>8. nextPreKeyId <= nextPreKeyId' /\ nextPreKeyId \in Nat /\ nextPreKeyId' \in Nat
    BY <1>1, SizeAssumption DEF Base, Typed
  <1>9. \A c \in Batches : Used(c) => c <= b
    BY <1>2 DEF Apart, SerialInv
  <1>10. SerialInv'
    <2>1. credsFile'.next <= nextPreKeyId'
      BY <1>1, <1>8 DEF Apart, SerialInv, Base, Typed
    <2>2. ASSUME NEW c \in Batches, ~Used(c)' PROVE nextPreKeyId' <= 1 + INITIAL_PREKEYS * (c - 1)
      <3>1. b <= c - 1 /\ c - 1 \in Int /\ b \in Int /\ c \in Int
        <4>1. ~Used(c) /\ c # b /\ ~(c < b)
          BY <1>2, <1>3, <2>2 DEF Base, FifoInv
        <4> QED BY <4>1, JobTypes DEF Base
      <3>2. INITIAL_PREKEYS * b <= INITIAL_PREKEYS * (c - 1)
        BY <3>1, Multiples
      <3>3. INITIAL_PREKEYS * b \in Int /\ INITIAL_PREKEYS * (c - 1) \in Int
        BY <3>1, OneMoreBatch
      <3>4. nextPreKeyId' <= 1 + INITIAL_PREKEYS * b
        BY <1>2, <1>7 DEF Apart, SerialInv
      <3> QED BY <1>8, <3>2, <3>3, <3>4
    <2>3. nextPreKeyId' <= 1 + INITIAL_PREKEYS * MaxBatches
      <3>1. INITIAL_PREKEYS * b <= INITIAL_PREKEYS * MaxBatches
        BY Multiples, JobTypes DEF Base
      <3>2. INITIAL_PREKEYS * b \in Int /\ INITIAL_PREKEYS * MaxBatches \in Int
        BY OneMoreBatch, JobTypes DEF Base
      <3>3. nextPreKeyId' <= 1 + INITIAL_PREKEYS * b
        BY <1>2, <1>7 DEF Apart, SerialInv
      <3> QED BY <1>8, <3>1, <3>2, <3>3
    <2>4. ASSUME NEW c \in Batches, Counted(c)'
          PROVE  /\ Past(c)' <= nextPreKeyId'
                 /\ \A a \in Batches : Used(a)' /\ a > c => Past(c)' <= batch'[a].first
      <3>1. CASE c = b
        BY <1>3, <1>4, <1>7, <1>8, <1>9, <3>1, JobTypes DEF Base
      <3>2. CASE c # b
        <4>1. Counted(c)
          BY <1>3, <2>4, <3>2 DEF Counted
        <4>2. Past(c) <= nextPreKeyId /\ Past(c) \in Nat
          BY <4>1, JobTypes DEF Base, Apart, SerialInv
        <4> QED BY <1>3, <1>4, <1>8, <4>1, <4>2 DEF Apart, SerialInv
      <3> QED BY <3>1, <3>2
    <2>5. \A c \in Batches : batch'[c].pc = "saved" => Past(c)' <= credsFile'.next
      BY <1>1, <1>3, <1>4 DEF Apart, SerialInv
    <2>6. \A c \in Batches : Used(c)' => Past(c)' <= 1 + INITIAL_PREKEYS * c
      BY <1>3, <1>4 DEF Apart, SerialInv
    <2> QED BY <1>6, <2>1, <2>2, <2>3, <2>4, <2>5, <2>6 DEF SerialInv
  <1>11. Ids(b) \subseteq KeyIds
    BY <1>2, IdsAreKeyIds DEF Base, Apart
  <1>12. \A i \in KeyIds : writes[i] = << >>
    <2> SUFFICES ASSUME NEW i \in KeyIds, writes[i] # << >> PROVE FALSE
      OBVIOUS
    <2>1. PICK c \in Batches : batch[c].pc = "storing" /\ i \in Ids(c) /\ writes[i] = <<c>>
      BY DEF Apart, FilesInv
    <2>2. c = b
      BY <1>5, <2>1 DEF Active
    <2>3. b \in Range(<<b>>)
      BY DEF Range
    <2> QED BY <1>1, <2>1, <2>2, <2>3
  <1>13. \A i \in Ids(b) : store[i] = b
    <2>1. \A i \in Ids(b) : writes[i] # <<b>>
      BY <1>11, <1>12
    <2>2. Kept(b)
      BY <1>1 DEF Kept
    <2> QED BY <2>1, <2>2 DEF Apart, FilesInv
  <1>14. FilesInv'
    <2>1. ASSUME NEW c \in Batches, Kept(c)', NEW i \in Ids(c)'
          PROVE  store'[i] = c
      <3>1. CASE c = b
        BY <1>1, <1>4, <1>13, <3>1
      <3>2. CASE c # b
        <4>1. Kept(c) /\ i \in Ids(c) /\ batch[c].pc # "storing"
          BY <1>4, <1>5, <2>1, <3>2 DEF Active
        <4> QED BY <1>1, <4>1 DEF Apart, FilesInv
      <3> QED BY <3>1, <3>2
    <2>2. ASSUME NEW i \in KeyIds, i < nextPreKeyId' PROVE store'[i] # None
      <3>1. CASE i < nextPreKeyId
        BY <1>1, <3>1 DEF Apart, FilesInv
      <3>2. CASE ~(i < nextPreKeyId)
        <4>1. batch[b].first = nextPreKeyId /\ i \in Int
          BY <1>2, SizeAssumption, BatchAssumption DEF Apart, SerialInv, KeyIds
        <4>2. i \in Ids(b)
          BY <1>7, <1>8, <2>2, <3>2, <4>1, JobTypes DEF Base
        <4> QED BY <1>1, <1>13, <4>2, JobTypes DEF Base, None
      <3> QED BY <3>1, <3>2
    <2> QED BY <1>1, <1>12, <2>1, <2>2 DEF FilesInv
  <1>15. ServerInv'
    BY <1>1, <1>4 DEF Apart, ServerInv
  <1> QED BY <1>10, <1>14, <1>15 DEF Apart

LEMMA SaveCredsApart == ASSUME Base, Apart, SaveCreds PROVE Apart'
  <1> DEFINE S == {b \in Batches : batch[b].pc = "done"}
  <1>1. /\ batch' = [b \in Batches |-> IF b \in S THEN [batch[b] EXCEPT !.pc = "saved"] ELSE batch[b]]
        /\ credsFile'.next = nextPreKeyId
        /\ UNCHANGED <<nextPreKeyId, store, server, writes, toServer, toClient>>
    BY DEF SaveCreds, creds, remote, network
  <1>2. S \in SUBSET Batches /\ \A b \in S : Used(b)
    BY DEF Used, Unused
  <1>3. \A b \in Batches : b \in S <=> batch[b].pc = "done"
    OBVIOUS
  <1> HIDE DEF S
  <1>4. \A b \in Batches : /\ batch'[b].pc = IF b \in S THEN "saved" ELSE batch[b].pc
                           /\ batch'[b].kind = batch[b].kind /\ batch'[b].first = batch[b].first
                           /\ Used(b)' <=> Used(b)
    <2>1. Typed /\ "saved" \in {"saved", "failed"}
      BY DEF Base
    <2>2. batch' = [b \in Batches |-> IF b \in S THEN [batch[b] EXCEPT !.pc = "saved"] ELSE batch[b]]
      BY <1>1
    <2> QED BY <1>2, <2>1, <2>2, PcsEffect, Zenon
  <1>5. \A b \in Batches :
           /\ Past(b)' = Past(b) /\ Ids(b)' = Ids(b) /\ Kept(b)' = Kept(b) /\ Counted(b)' = Counted(b)
           /\ Active(b)' = Active(b) /\ Confirmed(b)' = Confirmed(b)
           /\ batch'[b].pc = "storing" <=> batch[b].pc = "storing"
           /\ batch'[b].pc = "saved" <=> Counted(b)
    <2>1. \A b \in Batches : /\ Past(b)' = Past(b) /\ Ids(b)' = Ids(b)
                             /\ batch'[b].pc = "storing" <=> batch[b].pc = "storing"
                             /\ batch'[b].pc = "sending" <=> batch[b].pc = "sending"
                             /\ batch'[b].pc = "querying" <=> batch[b].pc = "querying"
                             /\ batch'[b].pc \in {"done", "saved"} <=> batch[b].pc \in {"done", "saved"}
                             /\ batch'[b].pc = "saved" <=> Counted(b)
      BY <1>3, <1>4 DEF Past, Ids, Counted
    <2> QED BY <1>1, <1>4, <2>1 DEF Kept, Counted, Active, Confirmed
  <1>6. SerialInv'
    <2>1. credsFile'.next <= nextPreKeyId'
      BY <1>1 DEF Base, Typed
    <2> QED BY <1>1, <1>4, <1>5, <2>1 DEF Apart, SerialInv
  <1>7. FilesInv' /\ ServerInv'
    BY <1>1, <1>5 DEF Apart, FilesInv, ServerInv
  <1> QED BY <1>6, <1>7 DEF Apart

LEMMA ReceiveApart == ASSUME Base, Apart, ServerReceives PROVE Apart'
  <1> DEFINE b == Head(toServer)
  <1>1. /\ toServer # << >> /\ toServer' = Tail(toServer)
        /\ toClient' = IF batch[b].kind = "upload" THEN Append(toClient, b) ELSE toClient
        /\ server' = [i \in KeyIds |-> IF i \in Ids(b) THEN b ELSE server[i]]
        /\ UNCHANGED <<nextPreKeyId, credsFile, store, writes, batch>>
    BY DEF ServerReceives, creds, disk
  <1>2. /\ b \in Range(toServer) /\ b \in Batches
        /\ Range(toServer') = Range(toServer) \ {b}
    BY <1>1, Taken DEF Base, Typed, FifoInv
  <1> HIDE DEF b
  <1>3. Range(toClient') = Range(toClient) \cup (IF batch[b].kind = "upload" THEN {b} ELSE {})
    BY <1>1, <1>2, Appended DEF Base, Typed
  <1>4. Used(b)
    BY <1>2 DEF Base, FifoInv
  <1>5. \A c \in Batches : /\ Past(c)' = Past(c) /\ Ids(c)' = Ids(c) /\ Kept(c)' = Kept(c)
                           /\ Counted(c)' = Counted(c) /\ Used(c)' = Used(c)
    BY <1>1 DEF Past, Ids, Kept, Counted, Used
  <1>6. \A c \in Batches : Active(c)' => Active(c)
    BY <1>1, <1>2, <1>3 DEF Active
  <1>7. SerialInv' /\ FilesInv'
    BY <1>1, <1>5, <1>6 DEF Apart, SerialInv, FilesInv
  <1>8. ServerInv'
    <2> SUFFICES ASSUME NEW c \in Batches, Confirmed(c)'
                 PROVE  c \notin Range(toServer') /\ \A i \in Ids(c)' : server'[i] = c
      BY DEF ServerInv
    <2>1. Used(c) /\ Ids(c) \subseteq KeyIds
      <3>1. Used(c)
        BY <1>1 DEF Confirmed, Kept, Used, Unused
      <3> QED BY <3>1, IdsAreKeyIds DEF Base, Apart
    <2>2. CASE c = b
      BY <1>1, <1>2, <1>5, <2>1, <2>2
    <2>3. CASE c # b
      <3>1. Confirmed(c)
        BY <1>1, <1>3, <2>3 DEF Confirmed, Kept
      <3>2. c \notin Range(toServer) /\ \A i \in Ids(c) : server[i] = c
        BY <3>1 DEF Apart, ServerInv
      <3>3. c < b
        BY <1>2, <2>1, <2>3, <3>2, JobTypes DEF Base, FifoInv
      <3>4. ~Active(c)
        <4>1. b \in Int /\ c \in Int
          BY <1>2, BatchAssumption DEF Batches
        <4>2. Active(c) => b <= c
          BY <1>2, <1>4 DEF Apart, SerialInv
        <4> QED BY <3>3, <4>1, <4>2
      <3>5. Counted(c)
        BY <3>1, <3>4 DEF Confirmed, Kept, Counted, Active
      <3>6. Past(c) <= batch[b].first
        BY <1>2, <1>4, <3>3, <3>5, JobTypes DEF Base, Apart, SerialInv
      <3>7. \A i \in Ids(c) : i \notin Ids(b)
        BY <1>2, <3>6, JobTypes DEF Base
      <3> QED BY <1>1, <1>2, <1>5, <2>1, <3>2, <3>7
    <2> QED BY <2>2, <2>3
  <1> QED BY <1>7, <1>8 DEF Apart

\* What was counted in memory only has failed.
LEMMA CrashApart == ASSUME Base, Apart, Crash PROVE Apart'
  <1> DEFINE S == {b \in Batches : batch[b].pc \notin {"unused", "saved"}}
  <1>1. /\ batch' = [b \in Batches |-> IF b \in S THEN [batch[b] EXCEPT !.pc = "failed"] ELSE batch[b]]
        /\ nextPreKeyId' = credsFile.next /\ toServer' = << >> /\ toClient' = << >>
        /\ writes' = [i \in KeyIds |-> << >>]
        /\ UNCHANGED <<credsFile, store, server>>
    BY DEF Crash, disk, remote
  <1>2. S \in SUBSET Batches /\ \A b \in S : Used(b)
    BY DEF Used, Unused
  <1>3. \A b \in Batches : b \in S <=> batch[b].pc \notin {"unused", "saved"}
    OBVIOUS
  <1> HIDE DEF S
  <1>4. \A b \in Batches : /\ batch'[b].pc = IF b \in S THEN "failed" ELSE batch[b].pc
                           /\ batch'[b].kind = batch[b].kind /\ batch'[b].first = batch[b].first
                           /\ Used(b)' <=> Used(b)
    <2>1. Typed /\ "failed" \in {"saved", "failed"}
      BY DEF Base
    <2>2. batch' = [b \in Batches |-> IF b \in S THEN [batch[b] EXCEPT !.pc = "failed"] ELSE batch[b]]
      BY <1>1
    <2> QED BY <1>2, <2>1, <2>2, PcsEffect, Zenon
  <1>5. \A b \in Batches :
           /\ batch'[b].pc \in {"unused", "saved", "failed"} /\ (batch'[b].pc = "saved" <=> batch[b].pc = "saved")
           /\ Past(b)' = Past(b) /\ Ids(b)' = Ids(b) /\ ~Active(b)'
           /\ (Kept(b)' <=> batch[b].pc = "saved") /\ (Counted(b)' <=> batch[b].pc = "saved")
    <2>1. \A b \in Batches : batch'[b].pc \in {"unused", "saved", "failed"}
                              /\ (batch'[b].pc = "saved" <=> batch[b].pc = "saved")
      BY <1>3, <1>4
    <2>2. \A b \in Batches : Past(b)' = Past(b) /\ Ids(b)' = Ids(b)
      BY <1>4 DEF Past, Ids
    <2> QED BY <2>1, <2>2 DEF Active, Kept, Counted
  <1>6. credsFile.next <= nextPreKeyId /\ credsFile.next \in Nat /\ nextPreKeyId \in Nat
    BY DEF Apart, SerialInv, Base, Typed
  <1>7. SerialInv'
    <2>1. ASSUME NEW c \in Batches, ~Used(c)' PROVE nextPreKeyId' <= 1 + INITIAL_PREKEYS * (c - 1)
      <3>1. nextPreKeyId <= 1 + INITIAL_PREKEYS * (c - 1)
        BY <1>4, <2>1 DEF Apart, SerialInv
      <3>2. INITIAL_PREKEYS * (c - 1) \in Int
        BY OneMoreBatch, JobTypes DEF Base
      <3> QED BY <1>1, <1>6, <3>1, <3>2
    <2>2. nextPreKeyId' <= 1 + INITIAL_PREKEYS * MaxBatches
      <3>1. INITIAL_PREKEYS * MaxBatches \in Int
        BY OneMoreBatch, BatchAssumption
      <3> QED BY <1>1, <1>6, <3>1 DEF Apart, SerialInv
    <2>3. \A b \in Batches : Used(b)' => Past(b)' <= 1 + INITIAL_PREKEYS * b
      BY <1>4, <1>5 DEF Apart, SerialInv
    <2>4. \A b \in Batches : Counted(b)' =>
             Past(b)' <= nextPreKeyId' /\ \A c \in Batches : Used(c)' /\ c > b => Past(b)' <= batch'[c].first
      BY <1>1, <1>4, <1>5 DEF Apart, SerialInv, Counted
    <2>5. \A b \in Batches : batch'[b].pc = "saved" => Past(b)' <= credsFile'.next
      BY <1>1, <1>5 DEF Apart, SerialInv
    <2>6. credsFile'.next <= nextPreKeyId'
      BY <1>1, <1>6
    <2> QED BY <1>5, <2>1, <2>2, <2>3, <2>4, <2>5, <2>6 DEF SerialInv
  <1>8. FilesInv'
    <2>1. \A i \in KeyIds : writes'[i] = << >>
      BY <1>1
    <2>2. \A b \in Batches : Kept(b)' => \A i \in Ids(b)' : store'[i] = b
      BY <1>1, <1>5 DEF Apart, FilesInv, Kept
    <2>3. \A i \in KeyIds : i < nextPreKeyId' => store'[i] # None
      <3>1. \A i \in KeyIds : i \in Int
        BY SizeAssumption, BatchAssumption DEF KeyIds
      <3> QED BY <1>1, <1>6, <3>1 DEF Apart, FilesInv
    <2> QED BY <2>1, <2>2, <2>3 DEF FilesInv
  <1>9. ServerInv'
    <2>1. \A b \in Batches : Confirmed(b)' => Confirmed(b)
      BY <1>4, <1>5 DEF Confirmed, Kept
    <2> QED BY <1>1, <1>5, <2>1, RangeEmpty DEF Apart, ServerInv
  <1> QED BY <1>7, <1>8, <1>9 DEF Apart

LEMMA ApartStep ==
    ASSUME Base, ~overlapped => Apart, [Next]_vars
    PROVE  ~overlapped' => Apart'
  <1>1. CASE Login \/ UserUpload \/ LoginConfirmed \/ InitialQueries
    <2>1. UNCHANGED <<nextPreKeyId, credsFile, store, server, writes, toClient>>
      BY <1>1 DEF Login, UserUpload, LoginConfirmed, InitialQueries, creds, disk, remote, network, history
    <2>2. CASE \E kind \in {"registration", "upload"} : Start(kind)
      BY <2>1, <2>2, StartApart
    <2>3. CASE UNCHANGED <<batch, toServer, overlapped>>
      BY <2>1, <2>3, IdleApart DEF Used
    <2> QED BY <1>1, <2>2, <2>3 DEF Login, UserUpload, LoginConfirmed, InitialQueries, network, history
  <1> SUFFICES ASSUME ~overlapped', ~(Login \/ UserUpload \/ LoginConfirmed \/ InitialQueries) PROVE Apart'
    BY <1>1
  <1>2. Apart
    BY DEF Next, Response, SaveCreds, ServerReceives, ConnectionLost, Crash, RegistrationSent,
           QueryTimesOut, BatchDone, FileWritten, HandOut, vars, history
  <1>3. CASE Response
    <2> DEFINE b == Head(toClient)
    <2>1. /\ toClient # << >> /\ toClient' = Tail(toClient)
          /\ UNCHANGED <<nextPreKeyId, credsFile, store, server, toServer>>
          /\ \/ StoreBatch(b) /\ batch[b].pc = "querying"
             \/ UNCHANGED <<batch, writes>>
      BY <1>3 DEF Response, creds, disk, remote
    <2>2. b \in Range(toClient) /\ b \in Batches /\ Range(toClient') \subseteq Range(toClient)
      BY <2>1, Taken DEF Base, Typed, FifoInv
    <2> HIDE DEF b
    <2>3. CASE StoreBatch(b) /\ batch[b].pc = "querying"
      <3>1. Used(b) /\ Active(b) /\ Confirmed(b)
        BY <2>2, <2>3 DEF Used, Unused, Active, Confirmed, Base, FifoInv
      <3> QED BY <1>2, <2>1, <2>2, <2>3, <3>1, StoreBatchApart
    <2>4. CASE UNCHANGED <<batch, writes>>
      BY <1>2, <2>1, <2>2, <2>4, IdleApart DEF Used
    <2> QED BY <2>1, <2>3, <2>4
  <1>4. ASSUME NEW b \in Batches, RegistrationSent(b) PROVE Apart'
    <2>1. /\ batch[b].pc = "sending" /\ StoreBatch(b)
          /\ UNCHANGED <<nextPreKeyId, credsFile, store, server, toServer, toClient>>
      BY <1>4 DEF RegistrationSent, creds, disk, network, remote
    <2>2. Used(b) /\ Active(b) /\ batch[b].kind # "upload"
      BY <2>1 DEF Used, Unused, Active, Base, FifoInv
    <2> QED BY <1>2, <2>1, <2>2, StoreBatchApart
  <1>5. ASSUME NEW b \in Batches, QueryTimesOut(b) PROVE Apart'
    <2>1. /\ batch[b].pc = "querying" /\ batch' = [batch EXCEPT ![b].pc = "failed"]
          /\ UNCHANGED <<nextPreKeyId, credsFile, store, writes, server, toServer, toClient>>
      BY <1>5 DEF QueryTimesOut, creds, disk, network, remote
    <2>2. Used(b)
      BY <2>1 DEF Used, Unused
    <2>3. /\ batch'[b].pc = "failed" /\ batch'[b].kind = batch[b].kind /\ batch'[b].first = batch[b].first
          /\ \A c \in Batches : c # b => batch'[c] = batch[c]
          /\ \A c \in Batches : Used(c)' <=> Used(c)
      BY <2>1, <2>2, PcEffect DEF Base
    <2>4. \A c \in Batches :
              /\ batch'[c].first = batch[c].first /\ batch'[c].kind = batch[c].kind
              /\ (Used(c)' <=> Used(c))
              /\ batch'[c].pc = batch[c].pc
                 \/ (batch'[c].pc = "failed" /\ batch[c].pc \in {"sending", "querying"})
      BY <2>1, <2>3
    <2> QED BY <1>2, <2>1, <2>4, IdleApart
  <1>6. CASE ConnectionLost
    <2> DEFINE S == {b \in Batches : batch[b].pc = "sending"}
    <2>1. batch' = [b \in Batches |-> IF b \in S THEN [batch[b] EXCEPT !.pc = "failed"] ELSE batch[b]]
      BY <1>6 DEF ConnectionLost
    <2>2. S \in SUBSET Batches /\ \A b \in S : Used(b) /\ batch[b].pc = "sending"
      BY DEF Used, Unused
    <2> HIDE DEF S
    <2>3. \A b \in Batches : /\ batch'[b].pc = IF b \in S THEN "failed" ELSE batch[b].pc
                             /\ batch'[b].kind = batch[b].kind /\ batch'[b].first = batch[b].first
                             /\ Used(b)' <=> Used(b)
      BY <2>1, <2>2, PcsEffect DEF Base
    <2>4. /\ UNCHANGED <<nextPreKeyId, credsFile, store, writes, server>>
          /\ Range(toServer') = {} /\ Range(toClient') = {}
      BY <1>6, RangeEmpty DEF ConnectionLost, creds, disk, remote
    <2>5. \A b \in Batches :
              /\ batch'[b].first = batch[b].first /\ batch'[b].kind = batch[b].kind
              /\ (Used(b)' <=> Used(b))
              /\ batch'[b].pc = batch[b].pc
                 \/ (batch'[b].pc = "failed" /\ batch[b].pc \in {"sending", "querying"})
      BY <2>2, <2>3
    <2> QED BY <1>2, <2>4, <2>5, IdleApart
  <1>7. ASSUME NEW i \in KeyIds, HandOut(i) PROVE Apart'
    <2>1. UNCHANGED <<nextPreKeyId, credsFile, store, writes, server, batch, toServer, toClient>>
      BY <1>7 DEF HandOut, creds, disk, network
    <2> QED BY <1>2, <2>1, IdleApart DEF Used
  <1>8. CASE UNCHANGED vars
    <2>1. UNCHANGED <<nextPreKeyId, credsFile, store, writes, server, batch, toServer, toClient>>
      BY <1>8 DEF vars, creds, disk, network, remote
    <2> QED BY <1>2, <2>1, IdleApart DEF Used
  <1> QED BY <1>2, <1>3, <1>4, <1>5, <1>6, <1>7, <1>8, FileWrittenApart, BatchDoneApart,
             SaveCredsApart, ReceiveApart, CrashApart DEF Next

LEMMA ApartInvariant == Spec => [](Base /\ (~overlapped => Apart))
  <1>1. Init => Apart
    <2> SUFFICES ASSUME Init PROVE Apart
      OBVIOUS
    <2>1. \A b \in Batches : ~Active(b) /\ ~Used(b) /\ ~Kept(b) /\ ~Counted(b) /\ ~Confirmed(b)
                              /\ batch[b].pc = "unused" /\ 1 <= 1 + INITIAL_PREKEYS * (b - 1)
      <3> SUFFICES ASSUME NEW b \in Batches
                   PROVE  /\ ~Active(b) /\ ~Used(b) /\ ~Kept(b) /\ ~Counted(b) /\ ~Confirmed(b)
                          /\ batch[b].pc = "unused" /\ 1 <= 1 + INITIAL_PREKEYS * (b - 1)
        OBVIOUS
      <3>1. batch[b] = Unused
        BY DEF Init
      <3>2. 0 <= b - 1 /\ b - 1 \in Int
        BY BatchAssumption DEF Batches
      <3>3. INITIAL_PREKEYS * (b - 1) \in Nat
        BY <3>2, SizeAssumption
      <3> QED BY <3>1, <3>3 DEF Active, Used, Kept, Counted, Confirmed, Unused
    <2>2. INITIAL_PREKEYS * MaxBatches \in Nat
      BY SizeAssumption, BatchAssumption
    <2>3. SerialInv
      BY <2>1, <2>2 DEF Init, SerialInv
    <2>4. \A i \in KeyIds : ~(i < 1)
      BY SizeAssumption, BatchAssumption DEF KeyIds
    <2>5. FilesInv /\ ServerInv
      BY <2>1, <2>4 DEF Init, FilesInv, ServerInv
    <2> QED BY <2>3, <2>5 DEF Apart
  <1>2. Base /\ (~overlapped => Apart) /\ [Next]_vars => (~overlapped' => Apart')
    BY ApartStep
  <1> QED BY <1>1, <1>2, BaseInvariant, PTL DEF Spec

\* Unless batches overlap, creds.json never counts a key whose file is not written: the
\* counter is advanced when keys.set() has resolved (engine.ts), and saved after that.
THEOREM CountedKeysHaveFiles == Spec => []CredsNeverAhead
  <1>1. Base /\ (~overlapped => Apart) => CredsNeverAhead
    <2> SUFFICES ASSUME Base, Apart, NEW b \in Batches, Used(b), NEW i \in Ids(b), i < credsFile.next
                 PROVE  store[i] # None
      BY DEF CredsNeverAhead, Used
    <2>1. i \in KeyIds /\ i \in Int
      BY IdsAreKeyIds, JobTypes DEF Base, Apart
    <2>2. i < nextPreKeyId
      BY <2>1, JobTypes DEF Base, Apart, SerialInv
    <2> QED BY <2>1, <2>2 DEF Apart, FilesInv
  <1> QED BY <1>1, ApartInvariant, PTL

\* Unless batches overlap, the keys of an upload that the server has confirmed and
\* creds.json counts are the same on both sides for ever, whatever is lost later.
THEOREM BothSidesAgree == Spec => []ConfirmedKeysAgree
  <1>1. Base /\ (~overlapped => Apart) => ConfirmedKeysAgree
    <2> SUFFICES ASSUME Base, Apart, NEW b \in Batches, batch[b].kind = "upload", batch[b].pc = "saved",
                        NEW i \in Ids(b)
                 PROVE  store[i] = b /\ server[i] = b
      BY DEF ConfirmedKeysAgree
    <2>1. Kept(b) /\ Confirmed(b)
      BY DEF Kept, Confirmed
    <2> QED BY <2>1 DEF Apart, FilesInv, ServerInv
  <1> QED BY <1>1, ApartInvariant, PTL

-----------------------------------------------------------------------------
(* As long as nothing is lost.                                              *)

\* x is the last of the batches in T, or None.
IsLast(x, T) == IF T = {} THEN x = None ELSE x \in T /\ \A b \in T : b <= x

\* The batches with a key for the id that keys.set() has been called for, and those that
\* the server has received.
KeptWith(i)     == {b \in Batches : Kept(b) /\ i \in Ids(b)}
ReceivedWith(i) == {b \in Batches : Used(b) /\ b \notin Range(toServer) /\ i \in Ids(b)}

\* What the file of an id is going to hold.
Held(i) == IF writes[i] = << >> THEN store[i] ELSE writes[i][Len(writes[i])]

\* Jobs do not fail; an upload waits while its node or its result is under way; the
\* registration is the first; and the files are asked for in the order of the batches.
JobsInv ==
    /\ connection = "down" => \A b \in Batches : ~Used(b)
    /\ \A b \in Batches : batch[b].pc # "failed"
    /\ \A b \in Batches : batch[b].kind = "registration" => b = 1
    /\ \A b \in Batches : batch[b].pc = "querying" => b \in Range(toServer) \cup Range(toClient)
    /\ \A b \in Range(toServer) \cup Range(toClient) : batch[b].kind = "upload" => batch[b].pc = "querying"
    /\ \A a, b \in Batches : a < b /\ Kept(b) => Kept(a)

WritesAt(i) == \A c \in Range(writes[i]) : batch[c].pc = "storing" /\ i \in Ids(c)
HeldAt(i)   == IsLast(Held(i), KeptWith(i))
ServerAt(i) == IsLast(server[i], ReceivedWith(i))

LastInv == \A i \in KeyIds : WritesAt(i) /\ HeldAt(i) /\ ServerAt(i)

Ordered == JobsInv /\ LastInv

LEMMA NewLast ==
    ASSUME NEW T \in SUBSET Batches, NEW b \in Batches, \A c \in T : c < b
    PROVE  IsLast(b, T \cup {b})
  <1>1. b <= b /\ \A c \in T : c <= b
    BY BatchAssumption DEF Batches
  <1> QED BY <1>1 DEF IsLast

\* What the file and the server hold, as long as no node or result is dealt with.
LEMMA SameOrder ==
    ASSUME Base, Ordered, UNCHANGED <<store, writes, server>>,
           connection' = "down" => connection = "down",
           Range(toServer') = Range(toServer), Range(toClient') = Range(toClient),
           \A b \in Batches :
              /\ batch'[b].first = batch[b].first /\ batch'[b].kind = batch[b].kind
              /\ (Used(b)' <=> Used(b))
              /\ batch'[b].pc = batch[b].pc
                 \/ {batch[b].pc, batch'[b].pc} \subseteq {"storing", "done", "saved"},
           \A i \in KeyIds : \A c \in Range(writes[i]) : batch'[c].pc = "storing"
    PROVE  Ordered'
  <1>1. \A b \in Batches : Kept(b)' = Kept(b) /\ Ids(b)' = Ids(b)
                            /\ (batch'[b].pc = "querying" <=> batch[b].pc = "querying")
                            /\ (batch'[b].pc = "failed" <=> batch[b].pc = "failed")
    BY DEF Kept, Ids
  <1>2. JobsInv'
    <2>1. \A b \in Range(toServer') \cup Range(toClient') : b \in Batches
      BY RangeIn DEF Base, Typed
    <2> QED BY <1>1, <2>1 DEF Ordered, JobsInv
  <1>3. ASSUME NEW i \in KeyIds
        PROVE  KeptWith(i)' = KeptWith(i) /\ ReceivedWith(i)' = ReceivedWith(i) /\ Held(i)' = Held(i)
    BY <1>1 DEF KeptWith, ReceivedWith, Held
  <1>4. LastInv'
    <2> SUFFICES ASSUME NEW i \in KeyIds PROVE WritesAt(i)' /\ HeldAt(i)' /\ ServerAt(i)'
      BY DEF LastInv
    <2>0. WritesAt(i) /\ HeldAt(i) /\ ServerAt(i)
      BY DEF Ordered, LastInv
    <2>1. WritesAt(i)'
      BY <1>1, <2>0, RangeIn DEF Base, Typed, WritesAt
    <2> QED BY <1>3, <2>0, <2>1 DEF HeldAt, ServerAt, IsLast
  <1> QED BY <1>2, <1>4 DEF Ordered

LEMMA StartOrder ==
    ASSUME Base, Ordered, NEW kind \in {"registration", "upload"}, Start(kind),
           kind = "registration" => connection = "down", connection' # "down",
           UNCHANGED <<store, writes, server, toClient>>
    PROVE  Ordered'
  <1>1. PICK b \in Batches :
              /\ ~Used(b) /\ batch'[b] = [kind |-> kind, first |-> nextPreKeyId,
                                          pc |-> IF kind = "registration" THEN "sending" ELSE "querying"]
              /\ \A c \in Batches : c # b => batch'[c] = batch[c] /\ (Used(c) <=> c < b)
              /\ batch' \in [Batches -> Job] /\ toServer' = Append(toServer, b)
    BY StartEffect
  <1>2. \A c \in Batches : Used(c)' <=> Used(c) \/ c = b
    BY <1>1 DEF Used, Unused
  <1>3. Range(toServer') = Range(toServer) \cup {b}
    BY <1>1, Appended DEF Base, Typed
  <1>4. ~Kept(b) /\ ~Kept(b)' /\ \A c \in Batches : c # b => Kept(c)' = Kept(c) /\ Ids(c)' = Ids(c)
    BY <1>1 DEF Kept, Used, Unused, Ids
  <1>5. \A c \in Range(toServer) \cup Range(toClient) : c \in Batches /\ c # b
    BY <1>1, RangeIn DEF Base, Typed, FifoInv
  <1>6. kind = "registration" => b = 1
    <2> SUFFICES ASSUME connection = "down" PROVE b = 1
      OBVIOUS
    <2>1. \A c \in Batches : ~Used(c)
      BY DEF Ordered, JobsInv
    <2>2. b \in Int /\ b >= 1 /\ 1 \in Batches
      BY BatchAssumption DEF Batches
    <2> QED BY <1>1, <2>1, <2>2
  <1>7. JobsInv'
    <2>1. \A c \in Batches : batch'[c].pc # "failed" /\ (batch'[c].kind = "registration" => c = 1)
      BY <1>1, <1>6 DEF Ordered, JobsInv
    <2>2. \A c \in Batches : batch'[c].pc = "querying" => c \in Range(toServer') \cup Range(toClient')
      BY <1>1, <1>3 DEF Ordered, JobsInv
    <2>3. \A c \in Range(toServer') \cup Range(toClient') :
             batch'[c].kind = "upload" => batch'[c].pc = "querying"
      BY <1>1, <1>3, <1>5 DEF Ordered, JobsInv
    <2>4. \A a, c \in Batches : a < c /\ Kept(c)' => Kept(a)'
      <3> SUFFICES ASSUME NEW a \in Batches, NEW c \in Batches, a < c, Kept(c)' PROVE Kept(a)'
        OBVIOUS
      <3>1. c # b /\ Kept(c)
        BY <1>4
      <3>2. Kept(a)
        BY <3>1 DEF Ordered, JobsInv
      <3> QED BY <1>4, <3>2
    <2> QED BY <2>1, <2>2, <2>3, <2>4 DEF JobsInv
  <1>8. ASSUME NEW i \in KeyIds
        PROVE  KeptWith(i)' = KeptWith(i) /\ ReceivedWith(i)' = ReceivedWith(i) /\ Held(i)' = Held(i)
    <2>1. KeptWith(i)' = KeptWith(i)
      BY <1>4 DEF KeptWith
    <2>2. ReceivedWith(i)' = ReceivedWith(i)
      BY <1>1, <1>2, <1>3, <1>4 DEF ReceivedWith
    <2> QED BY <2>1, <2>2 DEF Held
  <1>9. LastInv'
    <2> SUFFICES ASSUME NEW i \in KeyIds PROVE WritesAt(i)' /\ HeldAt(i)' /\ ServerAt(i)'
      BY DEF LastInv
    <2>0. WritesAt(i) /\ HeldAt(i) /\ ServerAt(i)
      BY DEF Ordered, LastInv
    <2>1. \A c \in Range(writes[i]) : c \in Batches /\ c # b
      BY <1>1, <2>0, RangeIn DEF Base, Typed, WritesAt, Used, Unused
    <2>2. WritesAt(i)'
      BY <1>1, <1>4, <2>0, <2>1 DEF WritesAt
    <2> QED BY <1>8, <2>0, <2>2 DEF HeldAt, ServerAt, IsLast
  <1> QED BY <1>7, <1>9 DEF Ordered

\* keys.set() is called for the next batch in order.
LEMMA StoreBatchOrder ==
    ASSUME Base, Ordered, NEW b \in Batches, Used(b), ~Kept(b), StoreBatch(b),
           \A a \in Batches : a < b => Kept(a),
           batch[b].kind = "upload" => b \notin Range(toServer),
           UNCHANGED <<store, server, toServer, connection>>,
           Range(toClient') = Range(toClient) \ {b}
    PROVE  Ordered'
  <1>1. /\ batch'[b].pc = "storing" /\ batch'[b].kind = batch[b].kind /\ batch'[b].first = batch[b].first
        /\ \A c \in Batches : c # b => batch'[c] = batch[c]
        /\ \A c \in Batches : Used(c)' <=> Used(c)
        /\ \A i \in KeyIds : writes'[i] = IF i \in Ids(b) THEN Append(writes[i], b) ELSE writes[i]
    BY StoreBatchEffect DEF Base
  <1>2. \A c \in Batches : Kept(c)' <=> Kept(c) \/ c = b
    BY <1>1 DEF Kept
  <1>3. \A c \in Batches : Ids(c)' = Ids(c)
    BY <1>1 DEF Ids
  <1>4. \A c \in Batches : Kept(c) => c < b
    <2> SUFFICES ASSUME NEW c \in Batches, Kept(c) PROVE c < b
      OBVIOUS
    <2>1. ~(b < c) /\ c # b
      BY DEF Ordered, JobsInv
    <2> QED BY <2>1, BatchAssumption DEF Batches
  <1>5. JobsInv'
    <2>1. \A c \in Batches : batch'[c].pc # "failed" /\ (batch'[c].kind = "registration" => c = 1)
      BY <1>1 DEF Ordered, JobsInv
    <2>2. \A c \in Batches : batch'[c].pc = "querying" => c \in Range(toServer') \cup Range(toClient')
      BY <1>1 DEF Ordered, JobsInv
    <2>3. \A c \in Range(toServer') \cup Range(toClient') : c \in Batches
      BY RangeIn DEF Base, Typed
    <2>4. \A c \in Range(toServer') \cup Range(toClient') :
             batch'[c].kind = "upload" => batch'[c].pc = "querying"
      BY <1>1, <2>3 DEF Ordered, JobsInv
    <2>5. \A a, c \in Batches : a < c /\ Kept(c)' => Kept(a)'
      BY <1>2 DEF Ordered, JobsInv
    <2> QED BY <1>1, <2>1, <2>2, <2>4, <2>5 DEF Ordered, JobsInv
  <1>6. ASSUME NEW i \in KeyIds PROVE WritesAt(i)' /\ HeldAt(i)' /\ ServerAt(i)'
    <2>1. WritesAt(i) /\ HeldAt(i) /\ ServerAt(i)
      BY DEF Ordered, LastInv
    <2>2. writes[i] \in Seq(Batches) /\ Range(writes[i]) \subseteq Batches
      BY RangeIn DEF Base, Typed
    <2>3. \A c \in Range(writes[i]) : batch'[c].pc = "storing" /\ i \in Ids(c)'
      BY <1>1, <1>3, <2>1, <2>2 DEF WritesAt
    <2>4. ReceivedWith(i)' = ReceivedWith(i)
      BY <1>1, <1>3 DEF ReceivedWith
    <2>5. ServerAt(i)'
      BY <2>1, <2>4 DEF ServerAt, IsLast
    <2>6. CASE i \notin Ids(b)
      <3>1. writes'[i] = writes[i] /\ Held(i)' = Held(i)
        BY <1>1, <2>6 DEF Held
      <3>2. KeptWith(i)' = KeptWith(i)
        BY <1>2, <1>3, <2>6 DEF KeptWith
      <3>3. HeldAt(i)'
        BY <2>1, <3>1, <3>2 DEF HeldAt, IsLast
      <3>4. WritesAt(i)'
        BY <2>3, <3>1 DEF WritesAt
      <3> QED BY <2>5, <3>3, <3>4
    <2>7. CASE i \in Ids(b)
      <3>1. writes'[i] = Append(writes[i], b)
        BY <1>1, <2>7
      <3>2. /\ writes'[i][Len(writes'[i])] = b /\ writes'[i] # << >>
            /\ Range(writes'[i]) = Range(writes[i]) \cup {b}
        BY <2>2, <3>1, AppendProperties, Appended
      <3>3. WritesAt(i)'
        BY <1>1, <1>3, <2>3, <2>7, <3>2 DEF WritesAt
      <3>4. Held(i)' = b
        BY <3>2 DEF Held
      <3>5. KeptWith(i)' = KeptWith(i) \cup {b}
        BY <1>2, <1>3, <2>7 DEF KeptWith
      <3>6. KeptWith(i) \in SUBSET Batches /\ \A c \in KeptWith(i) : c < b
        BY <1>4 DEF KeptWith
      <3>7. IsLast(b, KeptWith(i) \cup {b})
        BY <3>6, NewLast
      <3>8. HeldAt(i)'
        BY <3>4, <3>5, <3>7 DEF HeldAt, IsLast
      <3> QED BY <2>5, <3>3, <3>8
    <2> QED BY <2>6, <2>7
  <1> QED BY <1>5, <1>6 DEF Ordered, LastInv

LEMMA FileWrittenOrder ==
    ASSUME Base, Ordered, NEW j \in KeyIds, FileWritten(j)
    PROVE  Ordered'
  <1>1. /\ UNCHANGED <<server, toServer, toClient, batch, connection>>
        /\ store' = [store EXCEPT ![j] = Head(writes[j])]
        /\ writes' = [writes EXCEPT ![j] = Tail(writes[j])] /\ writes[j] # << >>
    BY DEF FileWritten, creds, remote, network
  <1>2. \A c \in Batches : Ids(c)' = Ids(c) /\ Kept(c)' = Kept(c) /\ Used(c)' = Used(c)
    BY <1>1 DEF Ids, Kept, Used
  <1>3. JobsInv'
    BY <1>1, <1>2 DEF Ordered, JobsInv
  <1>4. ASSUME NEW i \in KeyIds PROVE Range(writes'[i]) \subseteq Range(writes[i]) /\ Held(i)' = Held(i)
    <2>1. CASE i # j
      <3>1. writes'[i] = writes[i] /\ store'[i] = store[i]
        BY <1>1, <2>1 DEF Base, Typed
      <3> QED BY <3>1 DEF Held
    <2>2. CASE i = j
      <3> DEFINE w == writes[j]
      <3>1. w \in Seq(Batches) /\ w # << >> /\ writes'[j] = Tail(w) /\ store'[j] = Head(w)
        BY <1>1 DEF Base, Typed
      <3>2. Held(j) = w[Len(w)]
        BY <3>1 DEF Held
      <3> HIDE DEF w
      <3>3. Range(Tail(w)) \subseteq Range(w)
        BY <3>1, RangeOfTail
      <3>4. Held(j)' = IF Tail(w) = << >> THEN Head(w) ELSE Tail(w)[Len(Tail(w))]
        BY <3>1 DEF Held
      <3>5. w[Len(w)] = IF Tail(w) = << >> THEN Head(w) ELSE Tail(w)[Len(Tail(w))]
        BY <3>1, RangeOfTail
      <3> QED BY <2>2, <3>1, <3>2, <3>3, <3>4, <3>5 DEF w
    <2> QED BY <2>1, <2>2
  <1>5. ASSUME NEW i \in KeyIds
        PROVE  KeptWith(i)' = KeptWith(i) /\ ReceivedWith(i)' = ReceivedWith(i)
    BY <1>1, <1>2 DEF KeptWith, ReceivedWith
  <1>6. LastInv'
    <2> SUFFICES ASSUME NEW i \in KeyIds PROVE WritesAt(i)' /\ HeldAt(i)' /\ ServerAt(i)'
      BY DEF LastInv
    <2>0. WritesAt(i) /\ HeldAt(i) /\ ServerAt(i)
      BY DEF Ordered, LastInv
    <2>1. WritesAt(i)'
      BY <1>1, <1>2, <1>4, <2>0, RangeIn DEF Base, Typed, WritesAt
    <2> QED BY <1>1, <1>4, <1>5, <2>0, <2>1 DEF HeldAt, ServerAt, IsLast
  <1> QED BY <1>3, <1>6 DEF Ordered

\* The server has received all batches before this one.
LEMMA ReceiveOrder == ASSUME Base, Ordered, ServerReceives PROVE Ordered'
  <1> DEFINE b == Head(toServer)
  <1>1. /\ toServer # << >> /\ toServer' = Tail(toServer)
        /\ toClient' = IF batch[b].kind = "upload" THEN Append(toClient, b) ELSE toClient
        /\ server' = [i \in KeyIds |-> IF i \in Ids(b) THEN b ELSE server[i]]
        /\ UNCHANGED <<store, writes, batch, connection>>
    BY DEF ServerReceives, creds, disk
  <1>2. /\ b \in Range(toServer) /\ b \in Batches
        /\ Range(toServer') = Range(toServer) \ {b}
    BY <1>1, Taken DEF Base, Typed, FifoInv
  <1> HIDE DEF b
  <1>3. Range(toClient') = Range(toClient) \cup (IF batch[b].kind = "upload" THEN {b} ELSE {})
    BY <1>1, <1>2, Appended DEF Base, Typed
  <1>4. Used(b)
    BY <1>2 DEF Base, FifoInv
  <1>5. \A c \in Batches : Ids(c)' = Ids(c) /\ Kept(c)' = Kept(c) /\ Used(c)' = Used(c)
    BY <1>1 DEF Ids, Kept, Used
  <1>6. JobsInv'
    <2>1. \A c \in Batches : batch'[c].pc = "querying" => c \in Range(toServer') \cup Range(toClient')
      BY <1>1, <1>2, <1>3 DEF Base, FifoInv, Ordered, JobsInv
    <2>2. \A c \in Range(toServer') \cup Range(toClient') :
             batch'[c].kind = "upload" => batch'[c].pc = "querying"
      BY <1>1, <1>2, <1>3 DEF Ordered, JobsInv
    <2> QED BY <1>1, <1>5, <2>1, <2>2 DEF Ordered, JobsInv
  <1>7. \A c \in Batches : Used(c) /\ c \notin Range(toServer) => c < b
    <2> SUFFICES ASSUME NEW c \in Batches, Used(c), c \notin Range(toServer) PROVE c < b
      OBVIOUS
    <2>1. ~(c > b) /\ c # b
      BY <1>2 DEF Base, FifoInv
    <2> QED BY <1>2, <2>1, BatchAssumption DEF Batches
  <1>8. ASSUME NEW i \in KeyIds, ServerAt(i)
        PROVE  ServerAt(i)'
    <2>1. CASE i \in Ids(b)
      <3>1. server'[i] = b
        BY <1>1, <2>1
      <3>2. ReceivedWith(i)' = ReceivedWith(i) \cup {b}
        BY <1>2, <1>4, <1>5, <2>1 DEF ReceivedWith
      <3>3. ReceivedWith(i) \in SUBSET Batches /\ \A c \in ReceivedWith(i) : c < b
        BY <1>7 DEF ReceivedWith
      <3>4. IsLast(b, ReceivedWith(i) \cup {b})
        BY <1>2, <3>3, NewLast
      <3> QED BY <3>1, <3>2, <3>4 DEF ServerAt, IsLast
    <2>2. CASE i \notin Ids(b)
      <3>1. server'[i] = server[i]
        BY <1>1, <2>2
      <3>2. ReceivedWith(i)' = ReceivedWith(i)
        BY <1>2, <1>5, <2>2 DEF ReceivedWith
      <3> QED BY <1>8, <3>1, <3>2 DEF ServerAt, IsLast
    <2> QED BY <2>1, <2>2
  <1>9. ASSUME NEW i \in KeyIds, WritesAt(i), HeldAt(i)
        PROVE  WritesAt(i)' /\ HeldAt(i)'
    <2>1. KeptWith(i)' = KeptWith(i) /\ Held(i)' = Held(i)
      BY <1>1, <1>5 DEF KeptWith, Held
    <2>2. WritesAt(i)'
      BY <1>1, <1>5, <1>9, RangeIn DEF Base, Typed, WritesAt
    <2> QED BY <1>9, <2>1, <2>2 DEF HeldAt, IsLast
  <1> QED BY <1>6, <1>8, <1>9 DEF Ordered, LastInv

\* A result and a node of the registration are dealt with in the order of the batches.
LEMMA ResponseOrder == ASSUME Base, Ordered, Response PROVE Ordered'
  <1> DEFINE b == Head(toClient)
  <1>1. /\ toClient # << >> /\ toClient' = Tail(toClient)
        /\ \A a \in Batches : batch[a].pc = "sending" => a > b
        /\ batch[b].pc = "querying" => StoreBatch(b)
        /\ UNCHANGED <<store, server, toServer, connection>>
    BY DEF Response, disk, remote
  <1>2. /\ b \in Range(toClient) /\ b \in Batches /\ Range(toClient') = Range(toClient) \ {b}
        /\ \A a \in Range(toClient) : b <= a
    BY <1>1, Taken DEF Base, Typed, FifoInv
  <1> HIDE DEF b
  <1>3. Used(b) /\ batch[b].kind = "upload" /\ b \notin Range(toServer)
    BY <1>2 DEF Base, FifoInv
  <1>4. batch[b].pc = "querying"
    BY <1>2, <1>3 DEF Ordered, JobsInv
  <1>5. ~Kept(b)
    BY <1>4 DEF Kept
  <1>6. \A a \in Batches : a < b => Kept(a)
    <2> SUFFICES ASSUME NEW a \in Batches, a < b PROVE Kept(a)
      OBVIOUS
    <2>1. Used(a) /\ a \in Int /\ b \in Int
      BY <1>2, <1>3, BatchAssumption DEF Base, FifoInv, Batches
    <2>2. a \notin Range(toClient)
      BY <1>2, <2>1
    <2>3. a \notin Range(toServer)
      BY <1>2, <1>3, <2>1 DEF Base, FifoInv
    <2>4. batch[a].pc # "querying" /\ batch[a].pc # "failed"
      BY <2>2, <2>3 DEF Ordered, JobsInv
    <2>5. batch[a].pc # "sending"
      BY <1>1, <2>1
    <2>6. batch[a].pc \in {"sending", "querying", "storing", "done", "saved", "failed"}
      BY <2>1 DEF Base, Typed, Job, Used
    <2> QED BY <2>4, <2>5, <2>6 DEF Kept
  <1> QED BY <1>1, <1>2, <1>3, <1>4, <1>5, <1>6, StoreBatchOrder

LEMMA SentOrder == ASSUME Base, Ordered, NEW b \in Batches, RegistrationSent(b) PROVE Ordered'
  <1>1. /\ batch[b].pc = "sending" /\ StoreBatch(b)
        /\ UNCHANGED <<store, server, toServer, toClient, connection>>
    BY DEF RegistrationSent, disk, remote, network
  <1>2. batch[b].kind = "registration" /\ Used(b) /\ ~Kept(b)
    BY <1>1 DEF Base, FifoInv, Used, Unused, Kept
  <1>3. \A a \in Batches : ~(a < b)
    <2>1. b = 1
      BY <1>2 DEF Ordered, JobsInv
    <2> QED BY <2>1, BatchAssumption DEF Batches
  <1>4. b \notin Range(toClient)
    BY <1>2 DEF Base, FifoInv
  <1>5. Range(toClient') = Range(toClient) \ {b}
    BY <1>1, <1>4
  <1> QED BY <1>1, <1>2, <1>3, <1>5, StoreBatchOrder

LEMMA OrderedStep ==
    ASSUME Base, ~disturbed => Ordered, [Next]_vars, ~disturbed'
    PROVE  Ordered'
  <1>0. Ordered
    BY DEF Next, vars, Login, UserUpload, LoginConfirmed, InitialQueries, Response, SaveCreds, ServerReceives,
           ConnectionLost, Crash, RegistrationSent, QueryTimesOut, BatchDone, FileWritten,
           HandOut, history
  <1>s. \A i \in KeyIds : \A c \in Range(writes[i]) : c \in Batches /\ batch[c].pc = "storing" /\ i \in Ids(c)
    BY <1>0, RangeIn DEF Base, Typed, Ordered, LastInv, WritesAt
  <1>1. CASE Login \/ UserUpload \/ LoginConfirmed \/ InitialQueries
    <2>1. UNCHANGED <<store, writes, server, toClient>> /\ connection' # "down"
      BY <1>1 DEF Login, UserUpload, LoginConfirmed, InitialQueries, disk, remote, network, history
    <2>2. CASE Start("upload") \/ (Start("registration") /\ connection = "down")
      BY <1>0, <2>1, <2>2, StartOrder
    <2>3. CASE UNCHANGED <<batch, toServer>>
      BY <1>0, <1>s, <2>1, <2>3, SameOrder DEF Used
    <2> QED BY <1>1, <2>2, <2>3 DEF Login, UserUpload, LoginConfirmed, InitialQueries, network, history
  <1>2. ASSUME NEW b \in Batches, BatchDone(b) PROVE Ordered'
    <2>1. /\ batch[b].pc = "storing" /\ Stored(b) /\ Used(b)
          /\ batch' = [batch EXCEPT ![b].pc = "done"]
          /\ UNCHANGED <<store, writes, server, toServer, toClient, connection>>
      BY <1>2 DEF BatchDone, disk, remote, network, Used, Unused
    <2>2. /\ batch'[b].pc = "done" /\ batch'[b].kind = batch[b].kind /\ batch'[b].first = batch[b].first
          /\ \A c \in Batches : c # b => batch'[c] = batch[c]
          /\ \A c \in Batches : Used(c)' <=> Used(c)
      BY <2>1, PcEffect DEF Base
    <2>3. \A i \in KeyIds : b \notin Range(writes[i])
      BY <1>s, <2>1 DEF Stored
    <2>4. \A i \in KeyIds : \A c \in Range(writes[i]) : batch'[c].pc = "storing"
      BY <1>s, <2>2, <2>3
    <2> QED BY <1>0, <2>1, <2>2, <2>4, SameOrder
  <1>3. CASE SaveCreds
    <2> DEFINE S == {b \in Batches : batch[b].pc = "done"}
    <2>1. /\ batch' = [b \in Batches |-> IF b \in S THEN [batch[b] EXCEPT !.pc = "saved"] ELSE batch[b]]
          /\ UNCHANGED <<store, writes, server, toServer, toClient, connection>>
      BY <1>3 DEF SaveCreds, remote, network
    <2>2. \A b \in S : Used(b) /\ batch[b].pc = "done"
      BY DEF Used, Unused
    <2> HIDE DEF S
    <2>3. S \in SUBSET Batches
      BY DEF S
    <2>4. \A b \in Batches :
             /\ batch'[b].pc = IF b \in S THEN "saved" ELSE batch[b].pc
             /\ batch'[b].kind = batch[b].kind /\ batch'[b].first = batch[b].first
             /\ Used(b)' <=> Used(b)
      BY <2>1, <2>2, <2>3, PcsEffect DEF Base
    <2>5. \A b \in Batches : batch'[b].pc = batch[b].pc
                              \/ {batch[b].pc, batch'[b].pc} \subseteq {"storing", "done", "saved"}
      BY <2>2, <2>4
    <2>6. \A i \in KeyIds : \A c \in Range(writes[i]) : batch'[c].pc = "storing"
      BY <1>s, <2>2, <2>4
    <2> QED BY <1>0, <2>1, <2>4, <2>5, <2>6, SameOrder
  <1>4. ASSUME NEW i \in KeyIds, HandOut(i) PROVE Ordered'
    <2>1. UNCHANGED <<store, writes, server, toServer, toClient, connection, batch>>
      BY <1>4 DEF HandOut, disk, network
    <2> QED BY <1>0, <1>s, <2>1, SameOrder DEF Used
  <1>5. CASE UNCHANGED vars
    <2>1. UNCHANGED <<store, writes, server, toServer, toClient, connection, batch>>
      BY <1>5 DEF vars, disk, network, remote
    <2> QED BY <1>0, <1>s, <2>1, SameOrder DEF Used
  <1>6. /\ ~ConnectionLost /\ ~Crash /\ \A b \in Batches : ~QueryTimesOut(b)
    BY DEF ConnectionLost, Crash, QueryTimesOut
  <1> QED BY <1>0, <1>1, <1>2, <1>3, <1>4, <1>5, <1>6, ResponseOrder, SentOrder, ReceiveOrder,
             FileWrittenOrder DEF Next

LEMMA OrderedInvariant == Spec => [](Base /\ (~disturbed => Ordered))
  <1>1. Init => Ordered
    <2> SUFFICES ASSUME Init PROVE Ordered
      OBVIOUS
    <2>1. \A b \in Batches : ~Used(b) /\ ~Kept(b) /\ batch[b].pc = "unused" /\ batch[b].kind = "none"
      BY DEF Init, Used, Kept, Unused
    <2>2. JobsInv
      BY <2>1, RangeEmpty DEF Init, JobsInv
    <2>3. ASSUME NEW i \in KeyIds PROVE WritesAt(i) /\ HeldAt(i) /\ ServerAt(i)
      <3>1. writes[i] = << >> /\ store[i] = None /\ server[i] = None
        BY DEF Init
      <3>2. KeptWith(i) = {} /\ ReceivedWith(i) = {}
        BY <2>1 DEF KeptWith, ReceivedWith
      <3> QED BY <3>1, <3>2, RangeEmpty DEF WritesAt, HeldAt, ServerAt, Held, IsLast
    <2> QED BY <2>2, <2>3 DEF Ordered, LastInv
  <1>2. Base /\ (~disturbed => Ordered) /\ [Next]_vars => (~disturbed' => Ordered')
    BY OrderedStep
  <1> QED BY <1>1, <1>2, BaseInvariant, PTL DEF Spec

\* As long as nothing is lost, the server and the key store agree on every key once all
\* jobs are done, even if overlapping jobs have used the same ids: uploadPreKeys() calls
\* keys.set() in the order of the results (engine.ts), and the mutex of a key's file
\* serves in the order of the calls (auth/index.ts).
THEOREM OrderIsEnough == Spec => []OrderSavesOverlap
  <1>1. Base /\ (~disturbed => Ordered) => OrderSavesOverlap
    <2> SUFFICES ASSUME Base, Ordered, Quiet, NEW i \in KeyIds, server[i] # None
                 PROVE  store[i] = server[i]
      BY DEF OrderSavesOverlap
    <2>1. toServer = << >> /\ \A b \in Batches : ~Active(b)
      BY DEF Quiet
    <2>2. \A b \in Batches : batch[b].pc \notin {"sending", "storing", "querying", "failed"}
      BY <2>1 DEF Active, Ordered, JobsInv
    <2>3. \A b \in Batches : Kept(b) <=> Used(b)
      <3>1. \A b \in Batches : Used(b) =>
               batch[b].pc \in {"sending", "querying", "storing", "done", "saved", "failed"}
        BY DEF Base, Typed, Job, Used
      <3> QED BY <2>2, <3>1 DEF Kept, Used, Unused
    <2>4. KeptWith(i) = ReceivedWith(i)
      BY <2>1, <2>3, RangeEmpty DEF KeptWith, ReceivedWith
    <2>5. WritesAt(i) /\ HeldAt(i) /\ ServerAt(i)
      BY DEF Ordered, LastInv
    <2>6. writes[i] \in Seq(Batches)
      BY DEF Base, Typed
    <2>7. writes[i] = << >>
      <3> SUFFICES ASSUME writes[i] # << >> PROVE FALSE
        OBVIOUS
      <3>1. Head(writes[i]) \in Range(writes[i]) /\ Head(writes[i]) \in Batches
        BY <2>6, HeadTailProperties, RangeIn
      <3> QED BY <2>2, <2>5, <3>1 DEF WritesAt
    <2>8. IsLast(store[i], ReceivedWith(i)) /\ IsLast(server[i], ReceivedWith(i))
      BY <2>4, <2>5, <2>7 DEF HeldAt, Held, ServerAt
    <2>9. ReceivedWith(i) \subseteq Batches
      BY DEF ReceivedWith
    <2> QED BY <2>8, <2>9, BatchAssumption DEF IsLast, Batches
  <1> QED BY <1>1, OrderedInvariant, PTL
=============================================================================
