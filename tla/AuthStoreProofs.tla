---------------------------- MODULE AuthStoreProofs ----------------------------
(***************************************************************************)
(* What the mutexes of the auth state are for, proved for any files,       *)
(* values, number of calls, of failing writes and of crashes: no read of a *)
(* file that is being written, sets in the order of the calls, and saves   *)
(* that are on the disk when they resolve.                                 *)
(***************************************************************************)
EXTENDS AuthStore, SequenceTheorems, TLAPS

Credentials == [kind : {"data"}, identity : Nat, changes : Nat]
Content == Values \cup {Absent, Torn} \cup {Stringify(v) : v \in Values} \cup Credentials

\* A request; what it writes is serialized when it begins.
Request ==
    {r \in [call : Calls, op : {"read", "write", "delete"}, value : Content, begun : BOOLEAN] :
        r.begun \/ r.value \in Values \cup {Absent}}

Typed ==
    /\ disk \in [AllFiles -> Content]
    /\ register \in [AllFiles -> Content]
    /\ locks \in [AllFiles -> Seq(Request)]
    /\ status \in [Calls -> {"idle", "running", "done", "failed"}]
    /\ results \in [Calls -> {Unread} \cup {Parse(v) : v \in Content}]
    /\ asked \in [Files -> Content]
    /\ savedAt \in [Calls -> Nat]
    /\ creds \in Credentials
    /\ identities \in Nat \ {0}

\* The mutex: only the first request on a file has begun.
OneAtATime == \A f \in AllFiles : \A n \in 1..Len(locks[f]) : locks[f][n].begun => n = 1

Writing(f) == Len(locks[f]) > 0 /\ locks[f][1].begun /\ locks[f][1].op = "write"

\* The disk has what was last written as a whole, except where a write is under way.
DiskIsRegister ==
    \A f \in AllFiles : disk[f] = IF Writing(f) THEN Torn ELSE register[f]

\* The credentials are only ever written, and only written as such.
CredsFileInv ==
    /\ \A n \in 1..Len(locks[credsFile]) : locks[credsFile][n].op = "write"
    /\ Writing(credsFile) => locks[credsFile][1].value \in Credentials
    /\ register[credsFile] \in Credentials \cup {Absent, Torn}

QueueInv == Typed /\ OneAtATime /\ DiskIsRegister /\ CredsFileInv

\* What a request leaves in the file.
Outcome(r) ==
    IF r.op = "delete" THEN Absent ELSE IF r.begun THEN r.value ELSE Stringify(r.value)

ReadsOnly(f, n) == \A m \in 1..Len(locks[f]) : m > n => locks[f][m].op = "read"

\* A file is, or is going to be once its last write is over, as the last call wants it.
AskedOf(f) ==
    /\ ReadsOnly(f, 0) => asked[f] = disk[f]
    /\ \A n \in 1..Len(locks[f]) :
          locks[f][n].op # "read" /\ ReadsOnly(f, n) => asked[f] = Outcome(locks[f][n])

AskedInv == \A f \in Files : AskedOf(f)

\* A request is one of a call that has been made; a read and a save have no other
\* request, and a save is running as long as it has one.
RequestsInv ==
    \A f, g \in AllFiles : \A n \in 1..Len(locks[f]) : \A m \in 1..Len(locks[g]) :
        /\ status[locks[f][n].call] # "idle"
        /\ locks[f][n].call = locks[g][m].call /\ (locks[f][n].op = "read" \/ f = credsFile)
           => f = g /\ n = m
        /\ f = credsFile => status[locks[f][n].call] = "running"

\* A call that does not save the credentials has saved none.
SavesInv ==
    /\ \A c \in Calls : status[c] = "idle" => savedAt[c] = 0
    /\ \A f \in Files : \A n \in 1..Len(locks[f]) : savedAt[locks[f][n].call] = 0

\* As long as the client has its first identity: what is in memory is as recent as
\* every call that is not over and every one that has resolved, what is on the disk
\* and what is being written is as recent as every one that has resolved.
RecencyInv ==
    identities = 1 =>
        /\ \A c \in Calls : status[c] \in {"running", "done"} => creds.changes >= savedAt[c]
        /\ register[credsFile].kind = "data" =>
              /\ creds.changes >= register[credsFile].changes
              /\ \A c \in Calls : status[c] = "done" => register[credsFile].changes >= savedAt[c]
        /\ Writing(credsFile) =>
              LET r == locks[credsFile][1]
              IN  /\ creds.changes >= r.value.changes
                  /\ \A c \in Calls : status[c] = "done" \/ c = r.call
                        => r.value.changes >= savedAt[c]

IInv == QueueInv /\ AskedInv /\ RequestsInv /\ SavesInv /\ RecencyInv

-----------------------------------------------------------------------------
(* Serialization and queues.                                                *)

\* What the serialization does to an absent value and to the credentials.
LEMMA Serialization ==
    /\ Absent \notin Values /\ Absent.kind # "data" /\ Torn.kind # "data" /\ Torn # Absent
    /\ Stringify(Absent) = Absent /\ Parse(Absent) = Absent /\ Parse(Torn) = Absent
    /\ \A c \in Credentials : Stringify(c) = c /\ Parse(c) = c /\ c.kind = "data"
    /\ \A v \in Values \cup {Absent} : v \in Content /\ Stringify(v) \in Content
  <1>1. /\ Absent \notin Values /\ Absent.kind # "data" /\ Torn.kind # "data" /\ Torn # Absent
    <2>1. Absent.kind = "absent" /\ Torn.kind = "torn"
      BY DEF Absent, Torn
    <2> QED BY <2>1, ValuesAssumption DEF Kinds
  <1>2. Stringify(Absent) = Absent /\ Parse(Absent) = Absent /\ Parse(Torn) = Absent
    BY DEF Stringify, Parse, Absent, Torn
  <1>3. \A c \in Credentials : Stringify(c) = c /\ Parse(c) = c /\ c.kind = "data"
    BY DEF Stringify, Parse, Credentials
  <1>4. \A v \in Values \cup {Absent} : v \in Content /\ Stringify(v) \in Content
    BY <1>2 DEF Content
  <1> QED BY <1>1, <1>2, <1>3, <1>4

\* The queue of f with one more request, and without its first one.
Appended(f, r) ==
    /\ Len(locks'[f]) = Len(locks[f]) + 1
    /\ \A n \in 1..Len(locks[f]) : locks'[f][n] = locks[f][n]
    /\ locks'[f][Len(locks[f]) + 1] = r

Removed(f) ==
    /\ Len(locks[f]) > 0 /\ Len(locks'[f]) = Len(locks[f]) - 1
    /\ \A n \in 1..Len(locks[f]) - 1 : locks'[f][n] = locks[f][n + 1]

LEMMA AskEffect ==
    ASSUME Typed, NEW c \in Calls, NEW S \in SUBSET AllFiles, NEW op, NEW data,
           \A f \in S : op[f] \in {"read", "write", "delete"} /\ data[f] \in Values \cup {Absent},
           Ask(c, S, op, data)
    PROVE  /\ status[c] = "idle" /\ status' = [status EXCEPT ![c] = "running"]
           /\ locks' \in [AllFiles -> Seq(Request)]
           /\ \A f \in AllFiles \ S : locks'[f] = locks[f]
           /\ \A f \in S : Appended(f, Waits(f, c, op[f], data[f]))
  <1>1. /\ status[c] = "idle" /\ status' = [status EXCEPT ![c] = "running"]
        /\ locks' = [f \in AllFiles |->
              IF f \in S THEN Append(locks[f], Waits(f, c, op[f], data[f])) ELSE locks[f]]
    BY DEF Ask, IsNext
  <1>2. \A f \in S : locks[f] \in Seq(Request) /\ Waits(f, c, op[f], data[f]) \in Request
    BY DEF Typed, Waits, Request, Content
  <1>3. \A f \in S : /\ Append(locks[f], Waits(f, c, op[f], data[f])) \in Seq(Request)
                     /\ locks'[f] = Append(locks[f], Waits(f, c, op[f], data[f]))
    BY <1>1, <1>2, AppendProperties
  <1>4. locks' \in [AllFiles -> Seq(Request)] /\ \A f \in AllFiles \ S : locks'[f] = locks[f]
    BY <1>1, <1>3 DEF Typed
  <1>5. \A f \in S : Appended(f, Waits(f, c, op[f], data[f]))
    BY <1>2, <1>3, AppendProperties DEF Appended
  <1> QED BY <1>1, <1>4, <1>5

\* The request that ends is the first one.
LEMMA WithoutEffect ==
    ASSUME Typed, OneAtATime, NEW f \in AllFiles, NEW n \in DOMAIN locks[f],
           n = 1 \/ locks[f][n].begun, locks' = [locks EXCEPT ![f] = Without(@, n)]
    PROVE  /\ n = 1 /\ Len(locks[f]) > 0
           /\ locks' \in [AllFiles -> Seq(Request)]
           /\ \A g \in AllFiles \ {f} : locks'[g] = locks[g]
           /\ Removed(f)
  <1> DEFINE q == locks[f]
  <1>1. q \in Seq(Request) /\ n \in 1..Len(q) /\ Len(q) \in Nat /\ n = 1
    BY DEF Typed, OneAtATime
  <1>2. Without(q, 1) = << >> \o SubSeq(q, 2, Len(q))
    BY DEF Without
  <1>3. /\ SubSeq(q, 2, Len(q)) \in Seq(Request)
        /\ Len(SubSeq(q, 2, Len(q))) = Len(q) - 1
        /\ \A i \in 1..Len(q) - 1 : SubSeq(q, 2, Len(q))[i] = q[i + 1]
    BY <1>1
  <1>4. Without(q, 1) = SubSeq(q, 2, Len(q))
    BY <1>2, <1>3, ConcatEmptySeq
  <1>5. locks'[f] = SubSeq(q, 2, Len(q)) /\ \A g \in AllFiles \ {f} : locks'[g] = locks[g]
    BY <1>1, <1>4 DEF Typed
  <1>6. locks' \in [AllFiles -> Seq(Request)]
    BY <1>1, <1>3, <1>4 DEF Typed
  <1> HIDE DEF q
  <1> QED BY <1>1, <1>3, <1>5, <1>6 DEF Removed, q

\* The request that begins is the first one.
LEMMA BeginEffect ==
    ASSUME Typed, NEW f \in AllFiles, Begin(f)
    PROVE  LET r == locks[f][1]
               value == IF r.op = "write" THEN ToWrite(f, r) ELSE r.value
           IN  /\ Len(locks[f]) > 0 /\ ~r.begun /\ r \in Request
               /\ locks' \in [AllFiles -> Seq(Request)]
               /\ \A g \in AllFiles \ {f} : locks'[g] = locks[g]
               /\ Len(locks'[f]) = Len(locks[f])
               /\ locks'[f][1] = [r EXCEPT !.begun = TRUE, !.value = value]
               /\ \A n \in 2..Len(locks[f]) : locks'[f][n] = locks[f][n]
               /\ disk' = IF r.op = "write" THEN [disk EXCEPT ![f] = Torn] ELSE disk
               /\ UNCHANGED <<status, results, asked, savedAt, creds, register, counts>>
  <1> DEFINE q == locks[f]
             r == q[1]
             value == IF r.op = "write" THEN ToWrite(f, r) ELSE r.value
             new == [r EXCEPT !.begun = TRUE, !.value = value]
  <1>1. PICK n \in MayBegin(f) :
          /\ locks' = [locks EXCEPT ![f][n] = [q[n] EXCEPT !.begun = TRUE,
                          !.value = IF q[n].op = "write" THEN ToWrite(f, q[n]) ELSE q[n].value]]
          /\ disk' = IF q[n].op = "write" THEN [disk EXCEPT ![f] = Torn] ELSE disk
          /\ UNCHANGED <<status, results, asked, savedAt, creds, register, counts>>
    BY Zenon DEF Begin
  <1>2. q \in Seq(Request) /\ n = 1 /\ 1 \in DOMAIN q /\ ~r.begun
    BY <1>1 DEF MayBegin, Typed
  <1>3. r \in Request /\ Len(q) > 0 /\ Len(q) \in Nat /\ DOMAIN q = 1..Len(q)
    BY <1>2
  <1>4. value \in Content
    <2>1. r.value \in Values \cup {Absent}
      BY <1>2, <1>3 DEF Request
    <2>2. Stringify(r.value) \in Content /\ Stringify(creds) \in Content
      BY <2>1, Serialization DEF Typed, Content
    <2> QED BY <2>1, <2>2, Serialization DEF ToWrite
  <1>5. new \in Request
    BY <1>3, <1>4 DEF Request
  <1>6. locks' = [locks EXCEPT ![f] = [q EXCEPT ![1] = new]]
    BY <1>1, <1>2
  <1>7. /\ [q EXCEPT ![1] = new] \in Seq(Request)
        /\ Len([q EXCEPT ![1] = new]) = Len(q)
        /\ [q EXCEPT ![1] = new][1] = new
        /\ \A m \in 2..Len(q) : [q EXCEPT ![1] = new][m] = q[m]
    BY <1>2, <1>3, <1>5, ExceptSeq
  <1> HIDE DEF new, value
  <1>8. /\ locks' \in [AllFiles -> Seq(Request)]
        /\ locks'[f] = [q EXCEPT ![1] = new]
        /\ \A g \in AllFiles \ {f} : locks'[g] = locks[g]
    BY <1>6, <1>7 DEF Typed
  <1> QED BY <1>1, <1>2, <1>3, <1>7, <1>8 DEF new, value
-----------------------------------------------------------------------------
(* The mutex and the disk.                                                  *)

\* The data of a set() and of the other calls, as AskEffect wants them.
LEMMA SetKeysAsks ==
    ASSUME Typed, NEW c \in Calls, NEW S \in SUBSET Files, NEW data \in [S -> Values \cup {Absent}],
           SetKeys(c, data)
    PROVE  LET op == [f \in S |-> IF data[f] = Absent THEN "delete" ELSE "write"]
           IN  /\ status[c] = "idle" /\ status' = [status EXCEPT ![c] = "running"]
               /\ locks' \in [AllFiles -> Seq(Request)]
               /\ \A f \in AllFiles \ S : locks'[f] = locks[f]
               /\ \A f \in S : Appended(f, Waits(f, c, op[f], data[f]))
  <1> DEFINE op == [f \in S |-> IF data[f] = Absent THEN "delete" ELSE "write"]
  <1>1. DOMAIN data = S /\ S \in SUBSET AllFiles
    BY DEF AllFiles
  <1>2. \A f \in S : op[f] \in {"read", "write", "delete"} /\ data[f] \in Values \cup {Absent}
    OBVIOUS
  <1>3. Ask(c, S, op, data)
    BY <1>1, Zenon DEF SetKeys
  <1> HIDE DEF op
  <1>4. /\ status[c] = "idle" /\ status' = [status EXCEPT ![c] = "running"]
        /\ locks' \in [AllFiles -> Seq(Request)]
        /\ \A f \in AllFiles \ S : locks'[f] = locks[f]
        /\ \A f \in S : Appended(f, Waits(f, c, op[f], data[f]))
    BY <1>1, <1>2, <1>3, AskEffect
  <1> QED BY <1>4, Zenon DEF op

LEMMA GetKeyAsks ==
    ASSUME Typed, NEW c \in Calls, NEW f \in Files, GetKey(c, f)
    PROVE  /\ status[c] = "idle" /\ status' = [status EXCEPT ![c] = "running"]
           /\ locks' \in [AllFiles -> Seq(Request)]
           /\ \A g \in AllFiles \ {f} : locks'[g] = locks[g]
           /\ Appended(f, Waits(f, c, "read", Absent))
  <1> DEFINE op == [g \in {f} |-> "read"]
             data == [g \in {f} |-> Absent]
  <1>1. /\ {f} \in SUBSET AllFiles /\ op[f] = "read" /\ data[f] = Absent
        /\ \A g \in {f} : op[g] \in {"read", "write", "delete"} /\ data[g] \in Values \cup {Absent}
    BY DEF AllFiles
  <1>2. Ask(c, {f}, op, data)
    BY Zenon DEF GetKey
  <1> HIDE DEF op, data
  <1> QED BY <1>1, <1>2, AskEffect, ZenonT(40)

LEMMA SaveCredsAsks ==
    ASSUME Typed, NEW c \in Calls, SaveCreds(c)
    PROVE  /\ status[c] = "idle" /\ status' = [status EXCEPT ![c] = "running"]
           /\ locks' \in [AllFiles -> Seq(Request)]
           /\ \A g \in AllFiles \ {credsFile} : locks'[g] = locks[g]
           /\ Appended(credsFile, Waits(credsFile, c, "write", Absent))
  <1> DEFINE op == [g \in {credsFile} |-> "write"]
             data == [g \in {credsFile} |-> Absent]
  <1>1. /\ {credsFile} \in SUBSET AllFiles /\ op[credsFile] = "write" /\ data[credsFile] = Absent
        /\ \A g \in {credsFile} : op[g] \in {"read", "write", "delete"}
                                  /\ data[g] \in Values \cup {Absent}
    BY DEF AllFiles
  <1>2. Ask(c, {credsFile}, op, data)
    BY Zenon DEF SaveCreds
  <1> HIDE DEF op, data
  <1> QED BY <1>1, <1>2, AskEffect, ZenonT(40)

\* One more request leaves the others, and the disk, as they are.
LEMMA AskKeepsQueues ==
    ASSUME QueueInv, NEW S \in SUBSET AllFiles, NEW r,
           locks' \in [AllFiles -> Seq(Request)],
           \A f \in AllFiles \ S : locks'[f] = locks[f],
           \A f \in S : Appended(f, r[f]) /\ ~r[f].begun,
           credsFile \in S => r[credsFile].op = "write",
           UNCHANGED <<disk, register>>
    PROVE  OneAtATime' /\ DiskIsRegister' /\ CredsFileInv'
  <1>1. \A f \in AllFiles : locks[f] \in Seq(Request) /\ Len(locks[f]) \in Nat
    BY DEF QueueInv, Typed
  <1>2. OneAtATime'
    BY <1>1 DEF QueueInv, OneAtATime, Appended
  <1>3. \A f \in AllFiles : Writing(f)' <=> Writing(f)
    BY <1>1, SMTT(20) DEF Writing, Appended
  <1>4. \A f \in AllFiles : Writing(f) => locks'[f][1] = locks[f][1]
    BY <1>1 DEF Writing, Appended
  <1>5. DiskIsRegister'
    BY <1>3 DEF QueueInv, DiskIsRegister
  <1>6. CredsFileInv'
    BY <1>1, <1>3, <1>4, SMTT(20) DEF QueueInv, CredsFileInv, Appended, AllFiles
  <1> QED BY <1>2, <1>5, <1>6

LEMMA BeginStep ==
    ASSUME QueueInv, NEW f \in AllFiles, Begin(f)
    PROVE  QueueInv'
  <1> DEFINE r == locks[f][1]
             value == IF r.op = "write" THEN ToWrite(f, r) ELSE r.value
  <1> USE DEF QueueInv
  <1>1. /\ Len(locks[f]) > 0 /\ ~r.begun /\ r \in Request
        /\ locks' \in [AllFiles -> Seq(Request)]
        /\ \A g \in AllFiles \ {f} : locks'[g] = locks[g]
        /\ Len(locks'[f]) = Len(locks[f])
        /\ locks'[f][1] = [r EXCEPT !.begun = TRUE, !.value = value]
        /\ \A n \in 2..Len(locks[f]) : locks'[f][n] = locks[f][n]
        /\ disk' = IF r.op = "write" THEN [disk EXCEPT ![f] = Torn] ELSE disk
        /\ UNCHANGED <<status, results, asked, savedAt, creds, register, counts>>
    BY BeginEffect
  <1>2. \A g \in AllFiles : locks[g] \in Seq(Request) /\ Len(locks[g]) \in Nat
    BY DEF Typed
  <1>3. locks'[f][1].op = r.op /\ locks'[f][1].begun /\ locks'[f][1].value = value
    BY <1>1 DEF Request
  <1>4. Typed'
    BY <1>1 DEF Typed, Content, counts
  <1>5. OneAtATime'
    BY <1>1, <1>2 DEF OneAtATime
  <1>6. /\ Writing(f)' <=> r.op = "write"
        /\ ~Writing(f)
        /\ \A g \in AllFiles \ {f} : Writing(g)' <=> Writing(g)
    BY <1>1, <1>3 DEF Writing
  <1>7. DiskIsRegister'
    BY <1>1, <1>6 DEF DiskIsRegister, Typed
  <1>8. CredsFileInv'
    <2>1. CASE f = credsFile
      <3>1. r.op = "write"
        BY <1>1, <1>2, <2>1, SMTT(20) DEF CredsFileInv
      <3>2. value \in Credentials
        BY <3>1, <2>1, Serialization DEF ToWrite, Typed
      <3> HIDE DEF value
      <3>3. \A n \in 1..Len(locks'[f]) : locks'[f][n].op = "write"
        <4>1. \A n \in 1..Len(locks[f]) : locks[f][n].op = "write"
          BY <2>1 DEF CredsFileInv
        <4>2. Len(locks'[f]) = Len(locks[f]) /\ locks'[f][1].op = "write"
          BY <1>1, <1>3, <3>1
        <4>3. \A n \in 2..Len(locks[f]) : locks'[f][n].op = "write"
          BY <1>1, <4>1
        <4> QED BY <4>2, <4>3
      <3>4. locks'[f][1].value \in Credentials /\ register' = register
        BY <1>1, <1>3, <3>2
      <3> QED BY <2>1, <3>3, <3>4 DEF CredsFileInv
    <2>2. CASE f # credsFile
      BY <1>1, <1>6, <2>2 DEF CredsFileInv, AllFiles, Writing
    <2> QED BY <2>1, <2>2
  <1> QED BY <1>4, <1>5, <1>7, <1>8

\* The end of the first request of f, whether it went well or not.
LEMMA RemovedKeepsQueues ==
    ASSUME QueueInv, NEW f \in AllFiles, Removed(f),
           locks' \in [AllFiles -> Seq(Request)],
           \A g \in AllFiles \ {f} : locks'[g] = locks[g]
    PROVE  /\ OneAtATime' /\ ~Writing(f)'
           /\ \A g \in AllFiles \ {f} : Writing(g)' <=> Writing(g)
           /\ \A n \in 1..Len(locks'[credsFile]) : locks'[credsFile][n].op = "write"
           /\ Writing(credsFile)' => Writing(credsFile) /\ locks'[credsFile] = locks[credsFile]
  <1>1. \A g \in AllFiles : locks[g] \in Seq(Request) /\ Len(locks[g]) \in Nat
    BY DEF QueueInv, Typed
  <1>2. ASSUME NEW n \in 1..Len(locks'[f]) PROVE ~locks'[f][n].begun
    <2>1. n \in 1..Len(locks[f]) - 1 /\ n + 1 \in 1..Len(locks[f]) /\ n + 1 # 1
      BY <1>1 DEF Removed
    <2>2. locks'[f][n] = locks[f][n + 1]
      BY <2>1 DEF Removed
    <2>3. ~locks[f][n + 1].begun
      BY <2>1 DEF QueueInv, OneAtATime
    <2> QED BY <2>2, <2>3
  <1>3. OneAtATime'
    BY <1>2 DEF QueueInv, OneAtATime
  <1>4. ~Writing(f)' /\ \A g \in AllFiles \ {f} : Writing(g)' <=> Writing(g)
    BY <1>1, <1>2 DEF Writing, Removed
  <1>5. \A n \in 1..Len(locks'[credsFile]) : locks'[credsFile][n].op = "write"
    BY <1>1 DEF QueueInv, CredsFileInv, Removed, AllFiles
  <1>6. Writing(credsFile)' => Writing(credsFile) /\ locks'[credsFile] = locks[credsFile]
    BY <1>4 DEF AllFiles
  <1> QED BY <1>3, <1>4, <1>5, <1>6

\* What a request that is over leaves on the disk.
Written(f) ==
    LET r == locks[f][1]
    IN  CASE r.op = "write"  -> r.value
          [] r.op = "delete" -> Absent
          [] r.op = "read"   -> disk[f]

LEMMA EndEffect ==
    ASSUME Typed, OneAtATime, NEW f \in AllFiles, End(f)
    PROVE  LET r == locks[f][1]
           IN  /\ r \in Request /\ r.begun
               /\ locks' \in [AllFiles -> Seq(Request)]
               /\ \A g \in AllFiles \ {f} : locks'[g] = locks[g]
               /\ Removed(f)
               /\ disk' = [disk EXCEPT ![f] = Written(f)]
               /\ register' = IF r.op = "read" THEN register
                              ELSE [register EXCEPT ![f] = Written(f)]
               /\ results' = IF r.op = "read" THEN [results EXCEPT ![r.call] = Parse(disk[f])]
                             ELSE results
               /\ status' \in {status, [status EXCEPT ![r.call] = "done"]}
               /\ status' # status => status[r.call] = "running"
               /\ UNCHANGED <<asked, savedAt, creds, counts>>
  <1> DEFINE q == locks[f]
             new(n) == CASE q[n].op = "write"  -> q[n].value
                         [] q[n].op = "delete" -> Absent
                         [] q[n].op = "read"   -> disk[f]
  <1>1. PICK n \in DOMAIN q :
          /\ q[n].begun
          /\ disk' = [disk EXCEPT ![f] = new(n)]
          /\ register' = IF q[n].op = "read" THEN register ELSE [register EXCEPT ![f] = new(n)]
          /\ results' = IF q[n].op = "read" THEN [results EXCEPT ![q[n].call] = Parse(disk[f])]
                        ELSE results
          /\ Finish(f, n)
          /\ UNCHANGED <<asked, savedAt, creds, counts>>
    BY Zenon DEF End
  <1> HIDE DEF new
  <1>2. /\ n = 1 /\ Len(locks[f]) > 0
        /\ locks' \in [AllFiles -> Seq(Request)]
        /\ \A g \in AllFiles \ {f} : locks'[g] = locks[g]
        /\ Removed(f)
    BY <1>1, WithoutEffect DEF Finish
  <1>3. q[1] \in Request
    BY <1>2 DEF Typed
  <1>4. new(1) = Written(f)
    BY Zenon DEF new, Written
  <1>5. /\ status' \in {status, [status EXCEPT ![q[1].call] = "done"]}
        /\ status' # status => status[q[1].call] = "running"
    BY <1>1, <1>2 DEF Finish
  <1> QED BY <1>1, <1>2, <1>3, <1>4, <1>5

LEMMA EndStep ==
    ASSUME QueueInv, NEW f \in AllFiles, End(f)
    PROVE  QueueInv'
  <1> DEFINE r == locks[f][1]
  <1> USE DEF QueueInv
  <1>1. /\ r \in Request /\ r.begun
        /\ locks' \in [AllFiles -> Seq(Request)]
        /\ \A g \in AllFiles \ {f} : locks'[g] = locks[g]
        /\ Removed(f)
        /\ disk' = [disk EXCEPT ![f] = Written(f)]
        /\ register' = IF r.op = "read" THEN register ELSE [register EXCEPT ![f] = Written(f)]
        /\ results' = IF r.op = "read" THEN [results EXCEPT ![r.call] = Parse(disk[f])]
                      ELSE results
        /\ status' \in {status, [status EXCEPT ![r.call] = "done"]}
        /\ UNCHANGED <<asked, savedAt, creds, counts>>
    BY EndEffect
  <1>2. /\ r.op = "write" => Written(f) = r.value
        /\ r.op = "delete" => Written(f) = Absent
        /\ r.op = "read" => Written(f) = disk[f]
    BY <1>1 DEF Written, Request
  <1>3. /\ r.op \in {"read", "write", "delete"} /\ r.value \in Content /\ r.call \in Calls
        /\ Absent \in Content /\ disk[f] \in Content
    BY <1>1 DEF Request, Content, Typed
  <1>4. Written(f) \in Content
    BY <1>2, <1>3
  <1>5. results' \in [Calls -> {Unread} \cup {Parse(v) : v \in Content}]
    BY <1>1, <1>3 DEF Typed
  <1>6. Typed'
    BY <1>1, <1>3, <1>4, <1>5 DEF Typed, counts
  <1>7. /\ OneAtATime' /\ ~Writing(f)'
        /\ \A g \in AllFiles \ {f} : Writing(g)' <=> Writing(g)
        /\ \A n \in 1..Len(locks'[credsFile]) : locks'[credsFile][n].op = "write"
        /\ Writing(credsFile)' => Writing(credsFile) /\ locks'[credsFile] = locks[credsFile]
    BY <1>1, RemovedKeepsQueues
  <1>8. Writing(f) <=> r.op = "write"
    BY <1>1 DEF Writing, Removed
  <1>9. DiskIsRegister'
    <2>1. disk'[f] = register'[f]
      BY <1>1, <1>2, <1>3, <1>8 DEF DiskIsRegister, Typed
    <2>2. \A g \in AllFiles \ {f} : disk'[g] = disk[g] /\ register'[g] = register[g]
      BY <1>1 DEF Typed
    <2> QED BY <1>7, <2>1, <2>2 DEF DiskIsRegister
  <1>10. register'[credsFile] \in Credentials \cup {Absent, Torn}
    <2>1. CASE f = credsFile
      <3>1. r.op = "write" /\ r.value \in Credentials
        BY <1>1, <1>8, <2>1 DEF CredsFileInv, Removed
      <3> QED BY <1>1, <1>2, <2>1, <3>1 DEF Typed
    <2>2. CASE f # credsFile
      BY <1>1, <2>2 DEF CredsFileInv, Typed
    <2> QED BY <2>1, <2>2
  <1>11. CredsFileInv'
    BY <1>7, <1>10 DEF CredsFileInv
  <1> QED BY <1>6, <1>7, <1>9, <1>11

LEMMA WriteFailsEffect ==
    ASSUME Typed, OneAtATime, NEW f \in AllFiles, WriteFails(f)
    PROVE  LET r == locks[f][1]
           IN  /\ r \in Request /\ r.begun /\ r.op = "write"
               /\ locks' \in [AllFiles -> Seq(Request)]
               /\ \A g \in AllFiles \ {f} : locks'[g] = locks[g]
               /\ Removed(f)
               /\ status' = [status EXCEPT ![r.call] = "failed"]
               /\ register' = [register EXCEPT ![f] = Torn]
               /\ asked' = IF f \in Files /\ \A m \in DOMAIN locks'[f] : locks'[f][m].op = "read"
                           THEN [asked EXCEPT ![f] = Torn] ELSE asked
               /\ UNCHANGED <<disk, results, savedAt, creds, identities>>
  <1> DEFINE q == locks[f]
  <1>1. PICK n \in DOMAIN q :
          /\ q[n].begun /\ q[n].op = "write"
          /\ locks' = [locks EXCEPT ![f] = Without(@, n)]
          /\ status' = [status EXCEPT ![q[n].call] = "failed"]
          /\ asked' = IF f \in Files /\ \A m \in DOMAIN locks'[f] : locks'[f][m].op = "read"
                      THEN [asked EXCEPT ![f] = Torn] ELSE asked
    BY Zenon DEF WriteFails
  <1>2. register' = [register EXCEPT ![f] = Torn] /\ UNCHANGED <<disk, results, savedAt, creds, identities>>
    BY DEF WriteFails
  <1>3. /\ n = 1 /\ Len(locks[f]) > 0
        /\ locks' \in [AllFiles -> Seq(Request)]
        /\ \A g \in AllFiles \ {f} : locks'[g] = locks[g]
        /\ Removed(f)
    BY <1>1, WithoutEffect
  <1>4. q[1] \in Request
    BY <1>3 DEF Typed
  <1> QED BY <1>1, <1>2, <1>3, <1>4

LEMMA WriteFailsStep ==
    ASSUME QueueInv, NEW f \in AllFiles, WriteFails(f)
    PROVE  QueueInv'
  <1> DEFINE r == locks[f][1]
  <1> USE DEF QueueInv
  <1>1. /\ r \in Request /\ r.begun /\ r.op = "write"
        /\ locks' \in [AllFiles -> Seq(Request)]
        /\ \A g \in AllFiles \ {f} : locks'[g] = locks[g]
        /\ Removed(f)
        /\ status' = [status EXCEPT ![r.call] = "failed"]
        /\ register' = [register EXCEPT ![f] = Torn]
        /\ asked' = IF f \in Files /\ \A m \in DOMAIN locks'[f] : locks'[f][m].op = "read"
                    THEN [asked EXCEPT ![f] = Torn] ELSE asked
        /\ UNCHANGED <<disk, results, savedAt, creds, identities>>
    BY WriteFailsEffect
  <1>2. r.call \in Calls /\ Torn \in Content
    BY <1>1 DEF Request, Content
  <1>3. asked' \in [Files -> Content]
    BY <1>1, <1>2 DEF Typed
  <1>4. Typed'
    BY <1>1, <1>2, <1>3 DEF Typed
  <1>5. /\ OneAtATime' /\ ~Writing(f)'
        /\ \A g \in AllFiles \ {f} : Writing(g)' <=> Writing(g)
        /\ \A n \in 1..Len(locks'[credsFile]) : locks'[credsFile][n].op = "write"
        /\ Writing(credsFile)' => Writing(credsFile) /\ locks'[credsFile] = locks[credsFile]
    BY <1>1, RemovedKeepsQueues
  <1>6. Writing(f)
    BY <1>1 DEF Writing, Removed
  <1>7. DiskIsRegister'
    BY <1>1, <1>5, <1>6 DEF DiskIsRegister, Typed
  <1>8. CredsFileInv'
    <2>1. register'[credsFile] \in {register[credsFile], Torn}
      BY <1>1 DEF Typed, AllFiles
    <2> QED BY <1>5, <2>1 DEF CredsFileInv
  <1> QED BY <1>4, <1>5, <1>7, <1>8

\* A write that cannot open its file leaves what the file has.
LEMMA OpenFailsEffect ==
    ASSUME Typed, OneAtATime, NEW f \in AllFiles, OpenFails(f)
    PROVE  LET r == locks[f][1]
           IN  /\ r \in Request /\ ~r.begun /\ r.op = "write"
               /\ locks' \in [AllFiles -> Seq(Request)]
               /\ \A g \in AllFiles \ {f} : locks'[g] = locks[g]
               /\ Removed(f)
               /\ status' = [status EXCEPT ![r.call] = "failed"]
               /\ asked' = IF f \in Files /\ \A m \in DOMAIN locks'[f] : locks'[f][m].op = "read"
                           THEN [asked EXCEPT ![f] = disk[f]] ELSE asked
               /\ UNCHANGED <<disk, register, results, savedAt, creds, identities>>
  <1> DEFINE q == locks[f]
  <1>1. PICK n \in MayBegin(f) :
          /\ q[n].op = "write"
          /\ locks' = [locks EXCEPT ![f] = Without(@, n)]
          /\ status' = [status EXCEPT ![q[n].call] = "failed"]
          /\ asked' = IF f \in Files /\ \A m \in DOMAIN locks'[f] : locks'[f][m].op = "read"
                      THEN [asked EXCEPT ![f] = disk[f]] ELSE asked
    BY Zenon DEF OpenFails
  <1>2. n \in DOMAIN q /\ n = 1 /\ ~q[n].begun
    BY DEF MayBegin
  <1>3. UNCHANGED <<disk, register, results, savedAt, creds, identities>>
    BY DEF OpenFails
  <1>4. /\ Len(locks[f]) > 0
        /\ locks' \in [AllFiles -> Seq(Request)]
        /\ \A g \in AllFiles \ {f} : locks'[g] = locks[g]
        /\ Removed(f)
    BY <1>1, <1>2, WithoutEffect
  <1>5. q[1] \in Request
    BY <1>4 DEF Typed
  <1> QED BY <1>1, <1>2, <1>3, <1>4, <1>5

LEMMA OpenFailsStep ==
    ASSUME QueueInv, NEW f \in AllFiles, OpenFails(f)
    PROVE  QueueInv'
  <1> DEFINE r == locks[f][1]
  <1> USE DEF QueueInv
  <1>1. /\ r \in Request /\ ~r.begun /\ r.op = "write"
        /\ locks' \in [AllFiles -> Seq(Request)]
        /\ \A g \in AllFiles \ {f} : locks'[g] = locks[g]
        /\ Removed(f)
        /\ status' = [status EXCEPT ![r.call] = "failed"]
        /\ asked' = IF f \in Files /\ \A m \in DOMAIN locks'[f] : locks'[f][m].op = "read"
                    THEN [asked EXCEPT ![f] = disk[f]] ELSE asked
        /\ UNCHANGED <<disk, register, results, savedAt, creds, identities>>
    BY OpenFailsEffect
  <1>2. r.call \in Calls /\ disk[f] \in Content
    BY <1>1 DEF Request, Typed
  <1>3. asked' \in [Files -> Content]
    BY <1>1, <1>2 DEF Typed
  <1>4. Typed'
    BY <1>1, <1>2, <1>3 DEF Typed
  <1>5. /\ OneAtATime' /\ ~Writing(f)'
        /\ \A g \in AllFiles \ {f} : Writing(g)' <=> Writing(g)
        /\ \A n \in 1..Len(locks'[credsFile]) : locks'[credsFile][n].op = "write"
        /\ Writing(credsFile)' => Writing(credsFile) /\ locks'[credsFile] = locks[credsFile]
    BY <1>1, RemovedKeepsQueues
  <1>6. ~Writing(f)
    BY <1>1 DEF Writing
  <1>7. DiskIsRegister'
    BY <1>1, <1>5, <1>6 DEF DiskIsRegister
  <1>8. CredsFileInv'
    BY <1>1, <1>5 DEF CredsFileInv
  <1> QED BY <1>4, <1>5, <1>7, <1>8

LEMMA CrashEffect ==
    ASSUME QueueInv, CrashAndRestart
    PROVE  /\ QueueInv'
           /\ \A f \in AllFiles : Len(locks'[f]) = 0
           /\ asked' = [f \in Files |-> disk[f]]
           /\ UNCHANGED <<disk, results, savedAt>>
           /\ status' = [c \in Calls |-> IF status[c] = "running" THEN "failed" ELSE status[c]]
           /\ identities' = identities =>
                 /\ disk[credsFile] \in Credentials /\ disk[credsFile] = register[credsFile]
                 /\ creds' = disk[credsFile] /\ register'[credsFile] = register[credsFile]
           /\ identities' \in {identities, identities + 1}
  <1> DEFINE loaded == Parse(disk[credsFile])
  <1> USE DEF QueueInv
  <1>1. /\ locks' = [f \in AllFiles |-> << >>]
        /\ status' = [c \in Calls |-> IF status[c] = "running" THEN "failed" ELSE status[c]]
        /\ \/ loaded = Absent /\ creds' = FreshCreds(identities + 1) /\ identities' = identities + 1
           \/ loaded # Absent /\ creds' = loaded /\ identities' = identities
        /\ register' = [f \in AllFiles |-> IF disk[f] = Torn THEN Torn ELSE register[f]]
        /\ asked' = [f \in Files |-> disk[f]]
        /\ UNCHANGED <<disk, results, savedAt>>
    BY DEF CrashAndRestart
  <1>2. disk[credsFile] \in Credentials \cup {Absent, Torn}
    BY DEF DiskIsRegister, CredsFileInv, AllFiles
  <1>3. \/ loaded = Absent
        \/ disk[credsFile] \in Credentials /\ loaded = disk[credsFile]
    BY <1>2, Serialization
  <1>4. FreshCreds(identities + 1) \in Credentials
    BY DEF FreshCreds, Credentials, Typed
  <1>5. creds' \in Credentials /\ identities' \in Nat \ {0}
    BY <1>1, <1>3, <1>4 DEF Typed
  <1>6. Torn \in Content /\ << >> \in Seq(Request) /\ Len(<< >>) = 0
    BY EmptySeq DEF Content
  <1>7. locks' \in [AllFiles -> Seq(Request)] /\ \A f \in AllFiles : locks'[f] = << >>
    BY <1>1, <1>6
  <1>8. \A f \in AllFiles : Len(locks'[f]) = 0
    BY <1>6, <1>7
  <1>9. register' \in [AllFiles -> Content] /\ asked' \in [Files -> Content]
    BY <1>1, <1>6 DEF Typed, AllFiles
  <1>10. status' \in [Calls -> {"idle", "running", "done", "failed"}]
    BY <1>1 DEF Typed
  <1>11. Typed'
    BY <1>1, <1>5, <1>7, <1>9, <1>10 DEF Typed
  <1>12. OneAtATime' /\ \A f \in AllFiles : ~Writing(f)'
    BY <1>8 DEF OneAtATime, Writing
  <1>13. \A f \in AllFiles : disk'[f] = register'[f]
    BY <1>1 DEF DiskIsRegister
  <1>14. DiskIsRegister'
    BY <1>12, <1>13 DEF DiskIsRegister
  <1>15. CredsFileInv'
    BY <1>1, <1>2, <1>8, <1>12, <1>13 DEF CredsFileInv, AllFiles
  <1>16. identities' = identities =>
            /\ disk[credsFile] \in Credentials /\ disk[credsFile] = register[credsFile]
            /\ creds' = disk[credsFile] /\ register'[credsFile] = register[credsFile]
    <2>1. identities + 1 # identities
      BY DEF Typed
    <2>2. SUFFICES ASSUME identities' = identities
                   PROVE  /\ disk[credsFile] \in Credentials /\ disk[credsFile] = register[credsFile]
                          /\ creds' = disk[credsFile] /\ register'[credsFile] = register[credsFile]
      OBVIOUS
    <2>3. disk[credsFile] \in Credentials /\ creds' = disk[credsFile]
      BY <1>1, <1>3, <2>1, <2>2
    <2>4. disk[credsFile] # Torn
      BY <2>3, Serialization
    <2> QED BY <1>1, <2>3, <2>4 DEF DiskIsRegister, AllFiles
  <1> QED BY <1>1, <1>8, <1>11, <1>12, <1>14, <1>15, <1>16

LEMMA ChangeCredsEffect ==
    ASSUME Typed, ChangeCreds
    PROVE  /\ creds' \in Credentials /\ creds'.changes = creds.changes + 1
           /\ UNCHANGED <<disk, locks, status, results, asked, savedAt, register, identities>>
  <1>1. creds' = [creds EXCEPT !.changes = creds.changes + 1]
    BY DEF ChangeCreds
  <1>2. creds' \in Credentials /\ creds'.changes = creds.changes + 1
    <2>1. creds \in [kind : {"data"}, identity : Nat, changes : Nat]
      BY DEF Typed, Credentials
    <2>2. creds.changes + 1 \in Nat
      BY <2>1
    <2> DEFINE k == creds.changes + 1
    <2> HIDE DEF k
    <2>3. [creds EXCEPT !.changes = k] \in [kind : {"data"}, identity : Nat, changes : Nat]
          /\ [creds EXCEPT !.changes = k].changes = k
      BY <2>1, <2>2 DEF k
    <2> QED BY <1>1, <2>3 DEF k, Credentials
  <1>3. UNCHANGED <<disk, locks, status, results, asked, savedAt, register, identities>>
    BY DEF ChangeCreds, memory, counts
  <1> QED BY <1>2, <1>3

LEMMA AskStep ==
    ASSUME QueueInv, NEW c \in Calls,
           \/ \E S \in (SUBSET Files) \ {{}} : \E data \in [S -> Values \cup {Absent}] : SetKeys(c, data)
           \/ \E f \in Files : GetKey(c, f)
           \/ SaveCreds(c)
    PROVE  QueueInv'
  <1> USE DEF QueueInv
  <1>1. ASSUME NEW S \in SUBSET Files, NEW data \in [S -> Values \cup {Absent}], SetKeys(c, data)
        PROVE  QueueInv'
    <2> DEFINE op == [f \in S |-> IF data[f] = Absent THEN "delete" ELSE "write"]
               r == [f \in S |-> Waits(f, c, op[f], data[f])]
    <2>1. /\ status' = [status EXCEPT ![c] = "running"]
          /\ locks' \in [AllFiles -> Seq(Request)]
          /\ \A f \in AllFiles \ S : locks'[f] = locks[f]
          /\ \A f \in S : Appended(f, r[f])
      BY <1>1, SetKeysAsks
    <2>2. \A f \in S : ~r[f].begun
      BY DEF Waits
    <2> HIDE DEF op, r
    <2>3. asked' = [f \in Files |-> IF f \in S THEN Stringify(data[f]) ELSE asked[f]]
          /\ UNCHANGED <<disk, results, savedAt, creds, register, counts>>
      BY <1>1 DEF SetKeys
    <2>4. asked' \in [Files -> Content]
      BY <2>3, Serialization DEF Typed
    <2>5. Typed'
      BY <2>1, <2>3, <2>4 DEF Typed, counts
    <2>6. S \in SUBSET AllFiles /\ credsFile \notin S
      BY FilesAssumption DEF AllFiles
    <2>7. OneAtATime' /\ DiskIsRegister' /\ CredsFileInv'
      BY <2>1, <2>2, <2>3, <2>6, AskKeepsQueues
    <2> QED BY <2>5, <2>7
  <1>2. ASSUME NEW f \in Files, GetKey(c, f)
        PROVE  QueueInv'
    <2> DEFINE r == [g \in {f} |-> Waits(f, c, "read", Absent)]
    <2>1. /\ status' = [status EXCEPT ![c] = "running"]
          /\ locks' \in [AllFiles -> Seq(Request)]
          /\ \A g \in AllFiles \ {f} : locks'[g] = locks[g]
          /\ \A g \in {f} : Appended(g, r[g])
      BY <1>2, GetKeyAsks
    <2>2. \A g \in {f} : ~r[g].begun
      BY DEF Waits
    <2> HIDE DEF r
    <2>3. UNCHANGED <<disk, results, asked, savedAt, creds, register, counts>>
      BY <1>2 DEF GetKey
    <2>4. Typed'
      BY <2>1, <2>3 DEF Typed, counts
    <2>5. {f} \in SUBSET AllFiles /\ credsFile \notin {f}
      BY FilesAssumption DEF AllFiles
    <2>6. OneAtATime' /\ DiskIsRegister' /\ CredsFileInv'
      BY <2>1, <2>2, <2>3, <2>5, AskKeepsQueues
    <2> QED BY <2>4, <2>6
  <1>3. ASSUME SaveCreds(c)
        PROVE  QueueInv'
    <2> DEFINE r == [g \in {credsFile} |-> Waits(credsFile, c, "write", Absent)]
    <2>1. /\ status' = [status EXCEPT ![c] = "running"]
          /\ locks' \in [AllFiles -> Seq(Request)]
          /\ \A g \in AllFiles \ {credsFile} : locks'[g] = locks[g]
          /\ \A g \in {credsFile} : Appended(g, r[g])
      BY <1>3, SaveCredsAsks
    <2>2. \A g \in {credsFile} : ~r[g].begun /\ r[g].op = "write"
      BY DEF Waits
    <2> HIDE DEF r
    <2>3. /\ UNCHANGED <<disk, results, asked, creds, register, counts>>
          /\ savedAt' = [savedAt EXCEPT ![c] = creds.changes]
      BY <1>3 DEF SaveCreds
    <2>4. creds.changes \in Nat
      BY DEF Typed, Credentials
    <2>5. Typed'
      BY <2>1, <2>3, <2>4 DEF Typed, counts
    <2>6. {credsFile} \in SUBSET AllFiles
      BY DEF AllFiles
    <2>7. OneAtATime' /\ DiskIsRegister' /\ CredsFileInv'
      BY <2>1, <2>2, <2>3, <2>6, AskKeepsQueues
    <2> QED BY <2>5, <2>7
  <1> QED BY <1>1, <1>2, <1>3

\* withLock() of auth/index.ts: only the first request on a file is under way, and the
\* disk has what was last written as a whole, except while a write is under way.
THEOREM QueueInvariant == Spec => []QueueInv
  <1>1. Init => QueueInv
    <2> SUFFICES ASSUME Init PROVE QueueInv
      OBVIOUS
    <2>1. Absent \in Content /\ FreshCreds(1) \in Credentials /\ << >> \in Seq(Request) /\ Len(<< >>) = 0
      BY EmptySeq DEF Content, Credentials, FreshCreds
    <2>2. locks \in [AllFiles -> Seq(Request)] /\ \A f \in AllFiles : Len(locks[f]) = 0
      BY <2>1 DEF Init
    <2>3. Typed
      BY <2>1, <2>2 DEF Init, Typed
    <2>4. OneAtATime /\ \A f \in AllFiles : ~Writing(f)
      BY <2>2 DEF OneAtATime, Writing
    <2>5. DiskIsRegister
      BY <2>4 DEF Init, DiskIsRegister
    <2>6. CredsFileInv
      BY <2>2, <2>4 DEF Init, CredsFileInv, AllFiles
    <2> QED BY <2>3, <2>4, <2>5, <2>6 DEF QueueInv
  <1>2. QueueInv /\ [Next]_vars => QueueInv'
    <2> SUFFICES ASSUME QueueInv, [Next]_vars PROVE QueueInv'
      OBVIOUS
    <2>1. ASSUME NEW c \in Calls,
                 \/ \E S \in (SUBSET Files) \ {{}} :
                       \E data \in [S -> Values \cup {Absent}] : SetKeys(c, data)
                 \/ \E f \in Files : GetKey(c, f)
                 \/ SaveCreds(c)
          PROVE  QueueInv'
      BY <2>1, AskStep
    <2>2. ASSUME NEW f \in AllFiles, Begin(f) \/ End(f) \/ WriteFails(f) \/ OpenFails(f)
          PROVE  QueueInv'
      BY <2>2, BeginStep, EndStep, WriteFailsStep, OpenFailsStep
    <2>3. CASE ChangeCreds
      <3>1. /\ creds' \in Credentials
            /\ UNCHANGED <<disk, locks, status, results, asked, savedAt, register, identities>>
        BY <2>3, ChangeCredsEffect DEF QueueInv
      <3> QED BY <3>1 DEF QueueInv, Typed, OneAtATime, DiskIsRegister, CredsFileInv, Writing
    <2>4. CASE CrashAndRestart
      BY <2>4, CrashEffect
    <2>5. CASE UNCHANGED vars
      BY <2>5 DEF vars, memory, counts, QueueInv, Typed, OneAtATime, DiskIsRegister,
                  CredsFileInv, Writing
    <2> QED BY <2>1, <2>2, <2>3, <2>4, <2>5 DEF Next
  <1> QED BY <1>1, <1>2, PTL DEF Spec

-----------------------------------------------------------------------------
(* Sets take effect in the order of the calls.                              *)

LEMMA AskedUnchanged ==
    ASSUME NEW f \in Files, AskedOf(f), locks'[f] = locks[f], disk'[f] = disk[f],
           asked'[f] = asked[f]
    PROVE  AskedOf(f)'
  BY DEF AskedOf, ReadsOnly, Outcome

\* Reads that come last change nothing.
LEMMA AskedStep ==
    ASSUME QueueInv, QueueInv', AskedInv, [Next]_vars
    PROVE  AskedInv'
  <1> SUFFICES ASSUME NEW f \in Files
               PROVE  AskedOf(f)'
    BY DEF AskedInv
  <1> USE DEF QueueInv
  <1>1. /\ f \in AllFiles /\ f # credsFile /\ locks[f] \in Seq(Request) /\ Len(locks[f]) \in Nat
        /\ locks'[f] \in Seq(Request) /\ Len(locks'[f]) \in Nat /\ AskedOf(f)
    BY FilesAssumption DEF Typed, AllFiles, AskedInv
  <1>2. ASSUME NEW c \in Calls, NEW S \in SUBSET Files, NEW data \in [S -> Values \cup {Absent}],
               SetKeys(c, data)
        PROVE  AskedOf(f)'
    <2> DEFINE op == [g \in S |-> IF data[g] = Absent THEN "delete" ELSE "write"]
    <2>1. /\ \A g \in AllFiles \ S : locks'[g] = locks[g]
          /\ \A g \in S : Appended(g, Waits(g, c, op[g], data[g]))
      BY <1>2, SetKeysAsks
    <2>2. asked' = [g \in Files |-> IF g \in S THEN Stringify(data[g]) ELSE asked[g]] /\ disk' = disk
      BY <1>2 DEF SetKeys
    <2>3. CASE f \in S
      <3> DEFINE r == Waits(f, c, op[f], data[f])
                 last == Len(locks[f]) + 1
      <3>1. r.op = op[f] /\ r.value = data[f] /\ ~r.begun
        BY DEF Waits
      <3>2. op[f] # "read" /\ (op[f] = "delete" => data[f] = Absent)
        BY <2>3
      <3>3. Outcome(r) = Stringify(data[f])
        BY <3>1, <3>2, Serialization DEF Outcome
      <3> HIDE DEF op, r
      <3>4. Appended(f, r)
        BY <2>1, <2>3 DEF r
      <3>5. Len(locks'[f]) = last /\ locks'[f][last] = r /\ r.op # "read"
        BY <3>1, <3>2, <3>4 DEF Appended
      <3>6. \A n \in 0..Len(locks[f]) : ~ReadsOnly(f, n)'
        BY <1>1, <3>5 DEF ReadsOnly
      <3>7. asked'[f] = Stringify(data[f])
        BY <2>2, <2>3
      <3> QED BY <1>1, <3>3, <3>5, <3>6, <3>7 DEF AskedOf, Outcome
    <2>4. CASE f \notin S
      BY <1>1, <2>1, <2>2, <2>4, AskedUnchanged
    <2> QED BY <2>3, <2>4
  <1>3. ASSUME NEW c \in Calls, NEW g \in Files, GetKey(c, g)
        PROVE  AskedOf(f)'
    <2>1. /\ \A h \in AllFiles \ {g} : locks'[h] = locks[h]
          /\ Appended(g, Waits(g, c, "read", Absent))
      BY <1>3, GetKeyAsks
    <2>2. disk' = disk /\ asked' = asked
      BY <1>3 DEF GetKey
    <2>3. CASE f = g
      <3>1. /\ Len(locks'[f]) = Len(locks[f]) + 1
            /\ \A n \in 1..Len(locks[f]) : locks'[f][n] = locks[f][n]
            /\ locks'[f][Len(locks[f]) + 1].op = "read"
        BY <2>1, <2>3 DEF Appended, Waits
      <3>2. \A n \in 0..Len(locks[f]) : ReadsOnly(f, n)' <=> ReadsOnly(f, n)
        <4>1. \A m \in 1..Len(locks'[f]) :
                  IF m \in 1..Len(locks[f]) THEN locks'[f][m] = locks[f][m]
                  ELSE locks'[f][m].op = "read"
          BY <1>1, <3>1
        <4>2. 1..Len(locks[f]) \subseteq 1..Len(locks'[f])
          BY <1>1, <3>1
        <4> QED BY <4>1, <4>2 DEF ReadsOnly
      <3> QED BY SMTT(30), <1>1, <2>2, <3>1, <3>2 DEF AskedOf, Outcome
    <2>4. CASE f # g
      BY <1>1, <2>1, <2>2, <2>4, AskedUnchanged
    <2> QED BY <2>3, <2>4
  <1>4. ASSUME NEW c \in Calls, SaveCreds(c)
        PROVE  AskedOf(f)'
    BY <1>1, <1>4, SaveCredsAsks, AskedUnchanged DEF SaveCreds
  <1>5. ASSUME NEW g \in AllFiles, Begin(g)
        PROVE  AskedOf(f)'
    <2> DEFINE r == locks[g][1]
               value == IF r.op = "write" THEN ToWrite(g, r) ELSE r.value
    <2>1. /\ Len(locks[g]) > 0 /\ ~r.begun /\ r \in Request
          /\ \A h \in AllFiles \ {g} : locks'[h] = locks[h]
          /\ Len(locks'[g]) = Len(locks[g])
          /\ locks'[g][1] = [r EXCEPT !.begun = TRUE, !.value = value]
          /\ \A n \in 2..Len(locks[g]) : locks'[g][n] = locks[g][n]
          /\ disk' = IF r.op = "write" THEN [disk EXCEPT ![g] = Torn] ELSE disk
          /\ UNCHANGED <<status, results, asked, savedAt, creds, register, counts>>
      BY <1>5, BeginEffect
    <2>2. CASE f = g
      <3>1. locks'[f][1].op = r.op /\ locks'[f][1].begun /\ locks'[f][1].value = value
        BY <2>1, <2>2 DEF Request
      <3>2. r.op = "write" => value = Stringify(r.value)
        BY <1>1, <2>2 DEF ToWrite
      <3> HIDE DEF value
      <3>3. r.op # "read" => Outcome(locks'[f][1]) = Outcome(r)
        BY <2>1, <3>1, <3>2 DEF Outcome, Request
      <3>4. \A n \in 1..Len(locks[f]) : locks'[f][n].op = locks[f][n].op
        BY <1>1, <2>1, <2>2, <3>1
      <3>5. \A n \in 0..Len(locks[f]) : ReadsOnly(f, n)' <=> ReadsOnly(f, n)
        BY SMTT(30), <1>1, <2>1, <2>2, <3>4 DEF ReadsOnly
      <3>6. ReadsOnly(f, 0) => disk' = disk
        BY <1>1, <2>1, <2>2 DEF ReadsOnly
      <3>7. \A n \in 1..Len(locks[f]) : locks[f][n].op # "read" =>
                Outcome(locks'[f][n]) = Outcome(locks[f][n])
        BY <1>1, <2>1, <2>2, <3>3
      <3> QED BY <1>1, <2>1, <2>2, <3>4, <3>5, <3>6, <3>7 DEF AskedOf, Outcome
    <2>3. CASE f # g
      <3>1. disk'[f] = disk[f]
        BY <1>1, <2>1, <2>3 DEF Typed
      <3> QED BY <1>1, <2>1, <2>3, <3>1, AskedUnchanged
    <2> QED BY <2>2, <2>3
  <1>6. ASSUME NEW g \in AllFiles, Removed(g),
               \A h \in AllFiles \ {g} : locks'[h] = locks[h] /\ disk'[h] = disk[h],
               \A h \in Files \ {g} : asked'[h] = asked[h],
               f = g => /\ \/ asked'[f] = asked[f]
                           \/ ReadsOnly(f, 1) /\ asked'[f] = disk'[f]
                        /\ \/ locks[f][1].op = "read" /\ disk'[f] = disk[f]
                           \/ locks[f][1].op # "read" /\ disk'[f] = Outcome(locks[f][1])
                           \/ ReadsOnly(f, 1) => asked'[f] = disk'[f]
        PROVE  AskedOf(f)'
    <2>1. CASE f = g
      <3>1. /\ Len(locks[f]) > 0 /\ Len(locks'[f]) = Len(locks[f]) - 1
            /\ \A n \in 1..Len(locks[f]) - 1 : locks'[f][n] = locks[f][n + 1]
        BY <1>6, <2>1 DEF Removed
      <3>2. \A n \in 0..Len(locks'[f]) : ReadsOnly(f, n)' <=> ReadsOnly(f, n + 1)
        <4> SUFFICES ASSUME NEW n \in 0..Len(locks'[f])
                     PROVE  ReadsOnly(f, n)' <=> ReadsOnly(f, n + 1)
          OBVIOUS
        <4>1. ASSUME ReadsOnly(f, n)', NEW m \in 1..Len(locks[f]), m > n + 1
              PROVE  locks[f][m].op = "read"
          <5>1. m - 1 \in 1..Len(locks'[f]) /\ m - 1 > n /\ locks'[f][m - 1] = locks[f][m]
            BY <1>1, <3>1, <4>1
          <5> QED BY <4>1, <5>1 DEF ReadsOnly
        <4>2. ASSUME ReadsOnly(f, n + 1), NEW m \in 1..Len(locks'[f]), m > n
              PROVE  locks'[f][m].op = "read"
          <5>1. m + 1 \in 1..Len(locks[f]) /\ m + 1 > n + 1 /\ locks'[f][m] = locks[f][m + 1]
            BY <1>1, <3>1, <4>2
          <5> QED BY <4>2, <5>1 DEF ReadsOnly
        <4> QED BY <4>1, <4>2 DEF ReadsOnly
      <3>3. ReadsOnly(f, 1) /\ locks[f][1].op = "read" => ReadsOnly(f, 0)
        BY <1>1 DEF ReadsOnly
      <3>4. ReadsOnly(f, 0)' => asked'[f] = disk'[f]
        BY <1>1, <1>6, <2>1, <3>1, <3>2, <3>3 DEF AskedOf
      <3>5. ASSUME NEW n \in 1..Len(locks'[f]), locks'[f][n].op # "read", ReadsOnly(f, n)'
            PROVE  asked'[f] = Outcome(locks'[f][n])
        <4>1. n + 1 \in 1..Len(locks[f]) /\ locks'[f][n] = locks[f][n + 1]
          BY SMTT(30), <1>1, <3>1
        <4>2. ReadsOnly(f, n + 1) /\ ~ReadsOnly(f, 1)
          BY SMTT(30), <1>1, <3>2, <3>5, <4>1 DEF ReadsOnly
        <4> QED BY <1>1, <1>6, <2>1, <3>5, <4>1, <4>2 DEF AskedOf
      <3> QED BY <3>4, <3>5 DEF AskedOf, Outcome
    <2>2. CASE f # g
      BY <1>1, <1>6, <2>2, AskedUnchanged
    <2> QED BY <2>1, <2>2
  <1>7. ASSUME NEW g \in AllFiles, End(g)
        PROVE  AskedOf(f)'
    <2>1. /\ locks[g][1] \in Request /\ locks[g][1].begun
          /\ \A h \in AllFiles \ {g} : locks'[h] = locks[h]
          /\ Removed(g)
          /\ disk' = [disk EXCEPT ![g] = Written(g)]
          /\ asked' = asked
      BY <1>7, EndEffect
    <2>2. /\ locks[g][1].op = "read" => Written(g) = disk[g]
          /\ locks[g][1].op # "read" => Written(g) = Outcome(locks[g][1])
      BY <2>1 DEF Written, Outcome, Request
    <2>3. disk'[g] = Written(g) /\ \A h \in AllFiles \ {g} : disk'[h] = disk[h]
      BY <2>1 DEF Typed
    <2> QED BY <1>6, <2>1, <2>2, <2>3
  \* No write or delete is left when the first request is gone.
  <1>12. ASSUME Removed(f)
         PROVE  (\A m \in DOMAIN locks'[f] : locks'[f][m].op = "read") <=> ReadsOnly(f, 1)
    <2>1. /\ Len(locks[f]) > 0 /\ Len(locks'[f]) = Len(locks[f]) - 1
          /\ \A n \in 1..Len(locks[f]) - 1 : locks'[f][n] = locks[f][n + 1]
          /\ DOMAIN locks'[f] = 1..Len(locks'[f])
      BY <1>1, <1>12 DEF Removed
    <2>2. ASSUME ReadsOnly(f, 1), NEW m \in DOMAIN locks'[f]
          PROVE  locks'[f][m].op = "read"
      <3>1. m + 1 \in 1..Len(locks[f]) /\ m + 1 > 1 /\ locks'[f][m] = locks[f][m + 1]
        BY SMTT(30), <1>1, <2>1
      <3> QED BY <2>2, <3>1 DEF ReadsOnly
    <2>3. ASSUME \A m \in DOMAIN locks'[f] : locks'[f][m].op = "read",
                 NEW m \in 1..Len(locks[f]), m > 1
          PROVE  locks[f][m].op = "read"
      <3>1. m - 1 \in DOMAIN locks'[f] /\ locks'[f][m - 1] = locks[f][m]
        BY <1>1, <2>1, <2>3
      <3> QED BY <2>3, <3>1
    <2> QED BY <2>2, <2>3 DEF ReadsOnly
  <1>8. ASSUME NEW g \in AllFiles, WriteFails(g)
        PROVE  AskedOf(f)'
    <2>1. /\ locks[g][1].begun /\ locks[g][1].op = "write"
          /\ \A h \in AllFiles \ {g} : locks'[h] = locks[h]
          /\ Removed(g)
          /\ asked' = IF g \in Files /\ \A m \in DOMAIN locks'[g] : locks'[g][m].op = "read"
                      THEN [asked EXCEPT ![g] = Torn] ELSE asked
          /\ disk' = disk
      BY <1>8, WriteFailsEffect
    <2>2. disk[g] = Torn
      BY <2>1 DEF DiskIsRegister, Writing, Removed
    <2>3. /\ \A h \in Files \ {g} : asked'[h] = asked[h]
          /\ asked'[f] \in {asked[f], Torn}
      BY <2>1 DEF Typed
    <2>4. f = g => IF ReadsOnly(f, 1) THEN asked'[f] = Torn ELSE asked'[f] = asked[f]
      BY <1>12, <2>1 DEF Typed
    <2> QED BY <1>6, <2>1, <2>2, <2>3, <2>4
  <1>13. ASSUME NEW g \in AllFiles, OpenFails(g)
         PROVE  AskedOf(f)'
    <2>1. /\ ~locks[g][1].begun /\ locks[g][1].op = "write"
          /\ \A h \in AllFiles \ {g} : locks'[h] = locks[h]
          /\ Removed(g)
          /\ asked' = IF g \in Files /\ \A m \in DOMAIN locks'[g] : locks'[g][m].op = "read"
                      THEN [asked EXCEPT ![g] = disk[g]] ELSE asked
          /\ disk' = disk
      BY <1>13, OpenFailsEffect
    <2>2. /\ \A h \in Files \ {g} : asked'[h] = asked[h]
          /\ asked'[f] \in {asked[f], disk[f]}
      BY <2>1 DEF Typed
    <2>3. f = g => IF ReadsOnly(f, 1) THEN asked'[f] = disk[f] ELSE asked'[f] = asked[f]
      BY <1>12, <2>1 DEF Typed
    <2> QED BY <1>6, <2>1, <2>2, <2>3
  <1>9. CASE ChangeCreds
    BY <1>1, <1>9, ChangeCredsEffect, AskedUnchanged
  <1>10. CASE CrashAndRestart
    <2>1. Len(locks'[f]) = 0 /\ asked'[f] = disk'[f]
      BY <1>1, <1>10, CrashEffect
    <2> QED BY <2>1 DEF AskedOf
  <1>11. CASE UNCHANGED vars
    BY <1>1, <1>11, AskedUnchanged DEF vars, memory
  <1> QED BY <1>2, <1>3, <1>4, <1>5, <1>7, <1>8, <1>9, <1>10, <1>11, <1>13 DEF Next

\* Sets of one key take effect in the order of the calls: writeFile(), readFile()
\* and unlink() under one mutex per file, however they overlap, fail or are cut off
\* by a crash.
THEOREM OrderOfCalls == Spec => []LastCallWins
  <1>1. Init => AskedInv
    <2> SUFFICES ASSUME Init PROVE AskedInv
      OBVIOUS
    <2>1. \A f \in Files : locks[f] = << >> /\ disk[f] = Absent /\ asked[f] = Absent
      BY DEF Init, AllFiles
    <2> QED BY <2>1 DEF AskedInv, AskedOf
  <1>2. QueueInv /\ QueueInv' /\ AskedInv /\ [Next]_vars => AskedInv'
    BY AskedStep
  <1>3. AskedInv => LastCallWins
    BY DEF AskedInv, AskedOf, LastCallWins, ReadsOnly
  <1> QED BY <1>1, <1>2, <1>3, QueueInvariant, PTL DEF Spec

-----------------------------------------------------------------------------
(* No read of a file that is being written.                                 *)

\* What is in the queues.
LEMMA QueuesTyped ==
    ASSUME Typed
    PROVE  \A f \in AllFiles :
              /\ Len(locks[f]) \in Nat /\ DOMAIN locks[f] = 1..Len(locks[f])
              /\ \A n \in 1..Len(locks[f]) : locks[f][n] \in Request /\ locks[f][n].call \in Calls
  <1> SUFFICES ASSUME NEW f \in AllFiles
               PROVE  /\ Len(locks[f]) \in Nat /\ DOMAIN locks[f] = 1..Len(locks[f])
                      /\ \A n \in 1..Len(locks[f]) :
                            locks[f][n] \in Request /\ locks[f][n].call \in Calls
    OBVIOUS
  <1>1. locks[f] \in Seq(Request)
    BY DEF Typed
  <1>2. \A n \in 1..Len(locks[f]) : locks[f][n] \in Request
    BY <1>1, ElementOfSeq
  <1> QED BY <1>1, <1>2, LenProperties DEF Request

LEMMA QueuesTypedNext ==
    ASSUME Typed'
    PROVE  \A f \in AllFiles :
              /\ Len(locks'[f]) \in Nat /\ DOMAIN locks'[f] = 1..Len(locks'[f])
              /\ \A n \in 1..Len(locks'[f]) :
                    locks'[f][n] \in Request /\ locks'[f][n].call \in Calls
  <1> SUFFICES ASSUME NEW f \in AllFiles
               PROVE  /\ Len(locks'[f]) \in Nat /\ DOMAIN locks'[f] = 1..Len(locks'[f])
                      /\ \A n \in 1..Len(locks'[f]) :
                            locks'[f][n] \in Request /\ locks'[f][n].call \in Calls
    OBVIOUS
  <1>1. locks'[f] \in Seq(Request)
    BY DEF Typed
  <1>2. \A n \in 1..Len(locks'[f]) : locks'[f][n] \in Request
    BY <1>1, ElementOfSeq
  <1> QED BY <1>1, <1>2, LenProperties DEF Request

\* The queues of a step that asks for nothing: the requests that are left are d
\* places further in the queue they were in.
LEMMA RequestsShift ==
    ASSUME QueueInv, QueueInv', RequestsInv, NEW d \in [AllFiles -> Nat],
           \A f \in AllFiles : \A n \in 1..Len(locks'[f]) :
               /\ n + d[f] \in 1..Len(locks[f])
               /\ locks'[f][n].call = locks[f][n + d[f]].call
               /\ locks'[f][n].op = locks[f][n + d[f]].op,
           \A c \in Calls : status[c] # "idle" => status'[c] # "idle",
           \A n \in 1..Len(locks'[credsFile]) :
               status'[locks'[credsFile][n].call] = status[locks'[credsFile][n].call]
    PROVE  RequestsInv'
  <1>1. \A f \in AllFiles : /\ Len(locks'[f]) \in Nat
                            /\ \A n \in 1..Len(locks'[f]) : locks'[f][n].call \in Calls
    BY QueuesTypedNext DEF QueueInv
  <1>2. ASSUME NEW f \in AllFiles, NEW n \in 1..Len(locks'[f])
        PROVE  status'[locks'[f][n].call] # "idle"
    <2> DEFINE i == n + d[f]
    <2>1. i \in 1..Len(locks[f]) /\ locks'[f][n].call = locks[f][i].call
      OBVIOUS
    <2> HIDE DEF i
    <2>2. status[locks[f][i].call] # "idle"
      BY <2>1 DEF RequestsInv
    <2>3. locks'[f][n].call \in Calls
      BY <1>1
    <2> QED BY <2>1, <2>2, <2>3
  <1>3. ASSUME NEW f \in AllFiles, NEW g \in AllFiles,
               NEW n \in 1..Len(locks'[f]), NEW m \in 1..Len(locks'[g]),
               locks'[f][n].call = locks'[g][m].call,
               locks'[f][n].op = "read" \/ f = credsFile
        PROVE  f = g /\ n = m
    <2> DEFINE i == n + d[f]
               j == m + d[g]
    <2>1. /\ i \in 1..Len(locks[f]) /\ j \in 1..Len(locks[g])
          /\ locks[f][i].call = locks[g][j].call
          /\ locks[f][i].op = "read" \/ f = credsFile
      BY <1>3, Zenon
    <2> HIDE DEF i, j
    <2>2. f = g /\ i = j
      BY <2>1 DEF RequestsInv
    <2> QED BY <1>1, <2>2 DEF i, j
  <1>4. ASSUME NEW n \in 1..Len(locks'[credsFile])
        PROVE  status'[locks'[credsFile][n].call] = "running"
    <2> DEFINE i == n + d[credsFile]
    <2>1. credsFile \in AllFiles
      BY DEF AllFiles
    <2>2. i \in 1..Len(locks[credsFile]) /\ locks'[credsFile][n].call = locks[credsFile][i].call
      BY <2>1
    <2> HIDE DEF i
    <2>3. status[locks[credsFile][i].call] = "running"
      BY <2>1, <2>2 DEF RequestsInv
    <2> QED BY <2>2, <2>3
  <1> QED BY SMTT(30), <1>2, <1>3, <1>4 DEF RequestsInv

\* A call is made: it had no request before.
LEMMA RequestsAsk ==
    ASSUME QueueInv, RequestsInv, NEW c \in Calls, NEW S \in SUBSET AllFiles, NEW r,
           status[c] = "idle", status' = [status EXCEPT ![c] = "running"],
           \A f \in AllFiles \ S : locks'[f] = locks[f],
           \A f \in S : Appended(f, r[f]) /\ r[f].call = c,
           \A f \in S : r[f].op = "read" \/ f = credsFile => S = {f}
    PROVE  RequestsInv'
  <1> DEFINE Old(f) == 1..Len(locks[f])
             New(f) == IF f \in S THEN {Len(locks[f]) + 1} ELSE {}
  <1>1. \A f \in AllFiles : /\ Len(locks[f]) \in Nat
                            /\ \A n \in Old(f) : locks[f][n].call \in Calls
    BY QueuesTyped DEF QueueInv
  <1>2. \A f \in AllFiles :
            /\ \A n \in 1..Len(locks'[f]) : n \in Old(f) \/ n \in New(f)
            /\ \A n \in Old(f) : locks'[f][n] = locks[f][n]
            /\ \A n \in New(f) : f \in S /\ locks'[f][n] = r[f] /\ locks'[f][n].call = c
    BY <1>1 DEF Appended
  <1>3. \A f \in AllFiles : \A n \in Old(f) : locks[f][n].call # c /\ status[locks[f][n].call] # "idle"
    BY DEF RequestsInv
  <1>4. status'[c] = "running" /\ \A e \in Calls \ {c} : status'[e] = status[e]
    BY DEF QueueInv, Typed
  <1>5. \A f \in AllFiles : \A n \in 1..Len(locks'[f]) :
            /\ status'[locks'[f][n].call] # "idle"
            /\ f = credsFile => status'[locks'[f][n].call] = "running"
    <2> SUFFICES ASSUME NEW f \in AllFiles, NEW n \in 1..Len(locks'[f])
                 PROVE  /\ status'[locks'[f][n].call] # "idle"
                        /\ f = credsFile => status'[locks'[f][n].call] = "running"
      OBVIOUS
    <2>1. CASE n \in Old(f)
      BY <1>1, <1>2, <1>3, <1>4, <2>1 DEF RequestsInv
    <2>2. CASE n \in New(f)
      BY <1>2, <1>4, <2>2
    <2> QED BY <1>2, <2>1, <2>2
  <1>6. ASSUME NEW f \in AllFiles, NEW g \in AllFiles,
               NEW n \in 1..Len(locks'[f]), NEW m \in 1..Len(locks'[g]),
               locks'[f][n].call = locks'[g][m].call,
               locks'[f][n].op = "read" \/ f = credsFile
        PROVE  f = g /\ n = m
    <2>1. CASE n \in Old(f) /\ m \in Old(g)
      <3>1. /\ locks[f][n].call = locks[g][m].call
            /\ locks[f][n].op = "read" \/ f = credsFile
        BY <1>2, <1>6, <2>1, SMTT(20)
      <3> QED BY <2>1, <3>1 DEF RequestsInv
    <2>2. CASE n \in Old(f) /\ m \in New(g)
      BY SMTT(30), <1>2, <1>3, <1>6, <2>2
    <2>3. CASE n \in New(f) /\ m \in Old(g)
      BY <1>2, <1>3, <1>6, <2>3, SMTT(20)
    <2>4. CASE n \in New(f) /\ m \in New(g)
      <3>1. f \in S /\ g \in S /\ (r[f].op = "read" \/ f = credsFile)
        BY <1>2, <1>6, <2>4
      <3>2. f = g
        BY <3>1
      <3> QED BY <2>4, <3>2
    <2> QED BY <1>2, <2>1, <2>2, <2>3, <2>4
  <1> QED BY <1>5, <1>6 DEF RequestsInv

LEMMA RequestsStep ==
    ASSUME QueueInv, QueueInv', RequestsInv, [Next]_vars
    PROVE  RequestsInv'
  <1> USE DEF QueueInv
  <1>1. /\ \A f \in AllFiles : Len(locks[f]) \in Nat /\ Len(locks'[f]) \in Nat
        /\ \A f \in AllFiles : \A n \in 1..Len(locks[f]) : locks[f][n].call \in Calls
        /\ credsFile \in AllFiles
    BY QueuesTyped, QueuesTypedNext DEF AllFiles
  <1>2. ASSUME NEW c \in Calls, NEW S \in SUBSET Files, NEW data \in [S -> Values \cup {Absent}],
               SetKeys(c, data)
        PROVE  RequestsInv'
    <2> DEFINE op == [f \in S |-> IF data[f] = Absent THEN "delete" ELSE "write"]
               r == [f \in S |-> Waits(f, c, op[f], data[f])]
    <2>1. /\ status[c] = "idle" /\ status' = [status EXCEPT ![c] = "running"]
          /\ \A f \in AllFiles \ S : locks'[f] = locks[f]
          /\ \A f \in S : Appended(f, r[f])
      BY <1>2, SetKeysAsks
    <2>2. \A f \in S : r[f].call = c /\ r[f].op # "read" /\ f # credsFile
      BY FilesAssumption DEF Waits
    <2> HIDE DEF op, r
    <2>3. S \in SUBSET AllFiles
      BY DEF AllFiles
    <2>4. \A f \in S : r[f].op = "read" \/ f = credsFile => S = {f}
      BY <2>2
    <2>5. \A f \in S : Appended(f, r[f]) /\ r[f].call = c
      BY <2>1, <2>2
    <2> QED BY <2>1, <2>3, <2>4, <2>5, RequestsAsk, Zenon
  <1>3. ASSUME NEW c \in Calls, NEW f \in Files, GetKey(c, f)
        PROVE  RequestsInv'
    <2> DEFINE r == [g \in {f} |-> Waits(f, c, "read", Absent)]
    <2>1. /\ status[c] = "idle" /\ status' = [status EXCEPT ![c] = "running"]
          /\ \A g \in AllFiles \ {f} : locks'[g] = locks[g]
          /\ \A g \in {f} : Appended(g, r[g]) /\ r[g].call = c
      BY <1>3, GetKeyAsks DEF Waits
    <2> HIDE DEF r
    <2>2. {f} \in SUBSET AllFiles
      BY DEF AllFiles
    <2> QED BY <2>1, <2>2, RequestsAsk
  <1>4. ASSUME NEW c \in Calls, SaveCreds(c)
        PROVE  RequestsInv'
    <2> DEFINE r == [g \in {credsFile} |-> Waits(credsFile, c, "write", Absent)]
    <2>1. /\ status[c] = "idle" /\ status' = [status EXCEPT ![c] = "running"]
          /\ \A g \in AllFiles \ {credsFile} : locks'[g] = locks[g]
          /\ \A g \in {credsFile} : Appended(g, r[g]) /\ r[g].call = c
      BY <1>4, SaveCredsAsks DEF Waits
    <2> HIDE DEF r
    <2>2. {credsFile} \in SUBSET AllFiles
      BY DEF AllFiles
    <2> QED BY <2>1, <2>2, RequestsAsk
  <1>5. ASSUME NEW f \in AllFiles, Begin(f)
        PROVE  RequestsInv'
    <2> DEFINE q == locks[f][1]
               value == IF q.op = "write" THEN ToWrite(f, q) ELSE q.value
               d == [g \in AllFiles |-> 0]
    <2>1. /\ Len(locks[f]) > 0 /\ q \in Request
          /\ \A g \in AllFiles \ {f} : locks'[g] = locks[g]
          /\ Len(locks'[f]) = Len(locks[f])
          /\ locks'[f][1] = [q EXCEPT !.begun = TRUE, !.value = value]
          /\ \A n \in 2..Len(locks[f]) : locks'[f][n] = locks[f][n]
          /\ UNCHANGED status
      BY <1>5, BeginEffect
    <2>2. locks'[f][1].call = q.call /\ locks'[f][1].op = q.op
      BY <2>1 DEF Request
    <2>3. \A n \in 1..Len(locks[f]) :
              locks'[f][n].call = locks[f][n].call /\ locks'[f][n].op = locks[f][n].op
      <3>1. \A n \in 1..Len(locks[f]) : n = 1 \/ n \in 2..Len(locks[f])
        BY <1>1
      <3> QED BY <2>1, <2>2, <3>1
    <2>4. d \in [AllFiles -> Nat] /\ \A g \in AllFiles : d[g] = 0
      OBVIOUS
    <2> HIDE DEF d, value
    <2>5. \A g \in AllFiles : \A n \in 1..Len(locks'[g]) :
              /\ n + d[g] \in 1..Len(locks[g])
              /\ locks'[g][n].call = locks[g][n + d[g]].call
              /\ locks'[g][n].op = locks[g][n + d[g]].op
      BY <1>1, <2>1, <2>3, <2>4
    <2> QED BY SMTT(30), <2>1, <2>4, <2>5, RequestsShift
  <1>6. ASSUME NEW f \in AllFiles, Removed(f),
               \A g \in AllFiles \ {f} : locks'[g] = locks[g],
               status' = status \/ \E s \in {"done", "failed"} :
                                      status' = [status EXCEPT ![locks[f][1].call] = s]
        PROVE  RequestsInv'
    <2> DEFINE d == [g \in AllFiles |-> IF g = f THEN 1 ELSE 0]
    <2>1. d \in [AllFiles -> Nat] /\ \A g \in AllFiles : d[g] = IF g = f THEN 1 ELSE 0
      OBVIOUS
    <2> HIDE DEF d
    <2>2. \A g \in AllFiles : \A n \in 1..Len(locks'[g]) :
              /\ n + d[g] \in 1..Len(locks[g])
              /\ locks'[g][n] = locks[g][n + d[g]]
      <3>1. /\ Len(locks[f]) > 0 /\ Len(locks'[f]) = Len(locks[f]) - 1
            /\ \A n \in 1..Len(locks[f]) - 1 : locks'[f][n] = locks[f][n + 1]
        BY <1>6 DEF Removed
      <3>2. \A n \in 1..Len(locks'[f]) :
                n + d[f] \in 1..Len(locks[f]) /\ locks'[f][n] = locks[f][n + d[f]]
        BY <1>1, <2>1, <3>1
      <3>3. ASSUME NEW g \in AllFiles \ {f}, NEW n \in 1..Len(locks'[g])
            PROVE  n + d[g] \in 1..Len(locks[g]) /\ locks'[g][n] = locks[g][n + d[g]]
        <4>1. d[g] = 0 /\ n + d[g] = n /\ locks'[g] = locks[g]
          BY <1>1, <1>6, <2>1
        <4> QED BY <4>1
      <3> QED BY <3>2, <3>3
    <2>3. 1 \in 1..Len(locks[f]) /\ locks[f][1].call \in Calls
      BY <1>1, <1>6 DEF Removed
    <2>4. \A n \in 1..Len(locks'[credsFile]) : locks'[credsFile][n].call # locks[f][1].call
      <3> SUFFICES ASSUME NEW n \in 1..Len(locks'[credsFile]),
                          locks'[credsFile][n].call = locks[f][1].call
                   PROVE  FALSE
        OBVIOUS
      <3>1. credsFile = f /\ n + d[credsFile] = 1
        BY <1>1, <2>2, <2>3, SMTT(20) DEF RequestsInv
      <3> QED BY <2>1, <3>1
    <2>5. \A c \in Calls : status'[c] # status[c] =>
              c = locks[f][1].call /\ status'[c] \in {"done", "failed"}
      BY <1>6 DEF Typed
    <2>6. \A n \in 1..Len(locks'[credsFile]) :
              status'[locks'[credsFile][n].call] = status[locks'[credsFile][n].call]
      BY <1>1, <2>2, <2>4, <2>5, SMTT(20)
    <2> QED BY SMTT(30), <2>1, <2>2, <2>5, <2>6, RequestsShift
  <1>7. ASSUME NEW f \in AllFiles, End(f) \/ WriteFails(f) \/ OpenFails(f)
        PROVE  RequestsInv'
    BY <1>6, <1>7, EndEffect, WriteFailsEffect, OpenFailsEffect
  <1>8. CASE CrashAndRestart
    BY <1>8, CrashEffect DEF RequestsInv, AllFiles
  <1>9. CASE UNCHANGED <<locks, status>>
    BY <1>9 DEF RequestsInv
  <1>10. ChangeCreds \/ UNCHANGED vars => UNCHANGED <<locks, status>>
    BY ChangeCredsEffect DEF vars, memory
  <1> QED BY <1>2, <1>3, <1>4, <1>5, <1>7, <1>8, <1>9, <1>10 DEF Next

LEMMA RequestsInvariant == Spec => []RequestsInv
  <1>1. Init => RequestsInv
    BY DEF Init, RequestsInv, AllFiles
  <1> QED BY <1>1, RequestsStep, QueueInvariant, PTL DEF Spec

\* A step of the reads.
ReadStep ==
    \A f \in Files : \A n \in DOMAIN locks[f] :
        LET c == locks[f][n].call
        IN  results'[c] # results[c] => results'[c] = Parse(register[f])

\* A get() finds the value that was last written as a whole, however calls on the
\* same file overlap: withLock() of auth/index.ts.
THEOREM ReadsAreWhole == Spec => NoTornRead
  <1>1. QueueInv /\ RequestsInv /\ [Next]_vars => [ReadStep]_results
    <2> SUFFICES ASSUME QueueInv, RequestsInv, [Next]_vars,
                        NEW f \in Files, NEW n \in DOMAIN locks[f],
                        results'[locks[f][n].call] # results[locks[f][n].call]
                 PROVE  results'[locks[f][n].call] = Parse(register[f])
      BY SMTT(30) DEF ReadStep
    <2> USE DEF QueueInv
    <2>1. PICK g \in AllFiles : End(g)
      BY CrashEffect, BeginEffect, WriteFailsEffect, OpenFailsEffect, ChangeCredsEffect
         DEF Next, vars, memory, SetKeys, GetKey, SaveCreds
    <2>2. /\ locks[g][1] \in Request /\ locks[g][1].begun /\ Removed(g)
          /\ results' = IF locks[g][1].op = "read"
                        THEN [results EXCEPT ![locks[g][1].call] = Parse(disk[g])] ELSE results
      BY <2>1, EndEffect
    <2>3. /\ f \in AllFiles /\ n \in 1..Len(locks[f]) /\ 1 \in 1..Len(locks[g])
          /\ locks[f][n].call \in Calls
      BY <2>2, QueuesTyped DEF AllFiles, Removed
    <2>4. /\ locks[g][1].op = "read" /\ locks[g][1].call = locks[f][n].call
          /\ results'[locks[f][n].call] = Parse(disk[g])
      BY <2>2, <2>3 DEF Typed
    <2>5. f = g
      BY <2>3, <2>4 DEF RequestsInv
    <2>6. disk[f] = register[f]
      BY <2>3, <2>4, <2>5 DEF DiskIsRegister, Writing
    <2> QED BY <2>4, <2>5, <2>6
  <1>2. NoTornRead <=> [][ReadStep]_results
    BY PTL DEF NoTornRead, ReadStep
  <1> QED BY <1>1, <1>2, QueueInvariant, RequestsInvariant, PTL DEF Spec

-----------------------------------------------------------------------------
(* Saves of the credentials.                                                *)

LEMMA SavesStep ==
    ASSUME QueueInv, QueueInv', RequestsInv, SavesInv, [Next]_vars
    PROVE  SavesInv'
  <1> USE DEF QueueInv
  <1>1. /\ \A f \in AllFiles : /\ Len(locks[f]) \in Nat /\ Len(locks'[f]) \in Nat
                               /\ \A n \in 1..Len(locks[f]) : locks[f][n].call \in Calls
                               /\ \A n \in 1..Len(locks'[f]) : locks'[f][n].call \in Calls
        /\ credsFile \in AllFiles /\ credsFile \notin Files /\ Files \subseteq AllFiles
    BY QueuesTyped, QueuesTypedNext, FilesAssumption DEF AllFiles
  <1>2. \A f \in AllFiles : \A n \in 1..Len(locks[f]) : status[locks[f][n].call] # "idle"
    BY <1>1 DEF RequestsInv
  <1>3. ASSUME NEW c \in Calls, NEW S \in SUBSET Files, NEW data \in [S -> Values \cup {Absent}],
               SetKeys(c, data)
        PROVE  SavesInv'
    <2> DEFINE op == [f \in S |-> IF data[f] = Absent THEN "delete" ELSE "write"]
    <2>1. /\ status[c] = "idle" /\ status' = [status EXCEPT ![c] = "running"]
          /\ \A f \in AllFiles \ S : locks'[f] = locks[f]
          /\ \A f \in S : Appended(f, Waits(f, c, op[f], data[f]))
      BY <1>3, SetKeysAsks
    <2> HIDE DEF op
    <2>2. savedAt' = savedAt /\ savedAt[c] = 0
      BY <1>3, <2>1 DEF SetKeys, SavesInv
    <2>3. ASSUME NEW f \in Files, NEW n \in 1..Len(locks'[f])
          PROVE  savedAt'[locks'[f][n].call] = 0
      <3>1. CASE f \in S
        <4>1. /\ Len(locks'[f]) = Len(locks[f]) + 1 /\ locks'[f][Len(locks[f]) + 1].call = c
              /\ \A m \in 1..Len(locks[f]) : locks'[f][m] = locks[f][m]
          <5>1. Appended(f, Waits(f, c, op[f], data[f]))
            BY <2>1, <3>1
          <5>2. Waits(f, c, op[f], data[f]).call = c
            BY DEF Waits
          <5> QED BY <5>1, <5>2 DEF Appended
        <4>2. n \in 1..Len(locks[f]) \/ n = Len(locks[f]) + 1
          BY <1>1, <4>1
        <4> QED BY <2>2, <4>1, <4>2, SMTT(20) DEF SavesInv
      <3>2. CASE f \notin S
        BY <1>1, <2>1, <2>2, <3>2 DEF SavesInv
      <3> QED BY <3>1, <3>2
    <2>4. \A e \in Calls : status'[e] = "idle" => savedAt'[e] = 0
      BY <2>1, <2>2 DEF SavesInv, Typed
    <2> QED BY <2>3, <2>4 DEF SavesInv
  <1>4. ASSUME NEW c \in Calls, NEW g \in Files, GetKey(c, g)
        PROVE  SavesInv'
    <2>1. /\ status[c] = "idle" /\ status' = [status EXCEPT ![c] = "running"]
          /\ \A f \in AllFiles \ {g} : locks'[f] = locks[f]
          /\ Appended(g, Waits(g, c, "read", Absent))
      BY <1>4, GetKeyAsks
    <2>2. savedAt' = savedAt /\ savedAt[c] = 0
      BY <1>4, <2>1 DEF GetKey, SavesInv
    <2>3. ASSUME NEW f \in Files, NEW n \in 1..Len(locks'[f])
          PROVE  savedAt'[locks'[f][n].call] = 0
      <3>1. CASE f \in {g}
        <4>1. /\ Len(locks'[f]) = Len(locks[f]) + 1 /\ locks'[f][Len(locks[f]) + 1].call = c
              /\ \A m \in 1..Len(locks[f]) : locks'[f][m] = locks[f][m]
          BY <2>1, <3>1 DEF Appended, Waits
        <4>2. n \in 1..Len(locks[f]) \/ n = Len(locks[f]) + 1
          BY <1>1, <4>1
        <4> QED BY <2>2, <4>1, <4>2 DEF SavesInv
      <3>2. CASE f \notin {g}
        BY <1>1, <2>1, <2>2, <3>2 DEF SavesInv
      <3> QED BY <3>1, <3>2
    <2>4. \A e \in Calls : status'[e] = "idle" => savedAt'[e] = 0
      BY <2>1, <2>2 DEF SavesInv, Typed
    <2> QED BY <2>3, <2>4 DEF SavesInv
  <1>5. ASSUME NEW c \in Calls, SaveCreds(c)
        PROVE  SavesInv'
    <2>1. /\ status[c] = "idle" /\ status' = [status EXCEPT ![c] = "running"]
          /\ \A f \in Files : locks'[f] = locks[f]
          /\ savedAt' = [savedAt EXCEPT ![c] = creds.changes]
      BY <1>1, <1>5, SaveCredsAsks DEF SaveCreds
    <2>2. \A f \in Files : \A n \in 1..Len(locks[f]) : locks[f][n].call # c
      BY <1>1, <1>2, <2>1
    <2>3. status'[c] = "running" /\ \A e \in Calls \ {c} : savedAt'[e] = savedAt[e] /\ status'[e] = status[e]
      BY <2>1 DEF Typed
    <2> QED BY <1>1, <2>1, <2>2, <2>3 DEF SavesInv
  <1>6. ASSUME NEW f \in AllFiles, Begin(f)
        PROVE  SavesInv'
    <2> DEFINE q == locks[f][1]
               value == IF q.op = "write" THEN ToWrite(f, q) ELSE q.value
    <2>1. /\ q \in Request /\ \A g \in AllFiles \ {f} : locks'[g] = locks[g]
          /\ Len(locks'[f]) = Len(locks[f])
          /\ locks'[f][1] = [q EXCEPT !.begun = TRUE, !.value = value]
          /\ \A n \in 2..Len(locks[f]) : locks'[f][n] = locks[f][n]
          /\ UNCHANGED <<status, savedAt>>
      BY <1>6, BeginEffect
    <2>2. locks'[f][1].call = q.call
      BY <2>1 DEF Request
    <2>3. \A n \in 1..Len(locks[f]) : n = 1 \/ n \in 2..Len(locks[f])
      BY <1>1
    <2>4. \A g \in Files : \A n \in 1..Len(locks'[g]) :
              n \in 1..Len(locks[g]) /\ locks'[g][n].call = locks[g][n].call
      BY <1>1, <2>1, <2>2, <2>3
    <2> QED BY SMTT(30), <2>1, <2>4 DEF SavesInv
  <1>7. ASSUME NEW f \in AllFiles, End(f) \/ WriteFails(f) \/ OpenFails(f)
        PROVE  SavesInv'
    <2>1. /\ Removed(f) /\ \A g \in AllFiles \ {f} : locks'[g] = locks[g]
          /\ \A c \in Calls : status'[c] = "idle" => status[c] = "idle"
          /\ UNCHANGED savedAt
      <3> DEFINE r == locks[f][1]
      <3>1. CASE End(f)
        <4>1. /\ Removed(f) /\ \A g \in AllFiles \ {f} : locks'[g] = locks[g]
              /\ status' \in {status, [status EXCEPT ![r.call] = "done"]} /\ UNCHANGED savedAt
          BY <3>1, EndEffect, Zenon
        <4> QED BY <4>1 DEF Typed
      <3>2. CASE WriteFails(f)
        <4>1. /\ Removed(f) /\ \A g \in AllFiles \ {f} : locks'[g] = locks[g]
              /\ status' = [status EXCEPT ![r.call] = "failed"] /\ UNCHANGED savedAt
          BY <3>2, WriteFailsEffect, Zenon
        <4> QED BY <4>1 DEF Typed
      <3>3. CASE OpenFails(f)
        <4>1. /\ Removed(f) /\ \A g \in AllFiles \ {f} : locks'[g] = locks[g]
              /\ status' = [status EXCEPT ![r.call] = "failed"] /\ UNCHANGED savedAt
          BY <3>3, OpenFailsEffect, Zenon
        <4> QED BY <4>1 DEF Typed
      <3> QED BY <1>7, <3>1, <3>2, <3>3
    <2>2. \A g \in Files : \A n \in 1..Len(locks'[g]) :
              \E m \in 1..Len(locks[g]) : locks'[g][n] = locks[g][m]
      <3> SUFFICES ASSUME NEW g \in Files, NEW n \in 1..Len(locks'[g])
                   PROVE  \E m \in 1..Len(locks[g]) : locks'[g][n] = locks[g][m]
        OBVIOUS
      <3>1. CASE g = f
        <4>1. n + 1 \in 1..Len(locks[g]) /\ locks'[g][n] = locks[g][n + 1]
          BY <1>1, <2>1, <3>1 DEF Removed
        <4> QED BY <4>1
      <3>2. CASE g # f
        BY <1>1, <2>1, <3>2
      <3> QED BY <3>1, <3>2
    <2>3. \A g \in Files : \A n \in 1..Len(locks'[g]) : savedAt'[locks'[g][n].call] = 0
      BY <2>1, <2>2, SMTT(20) DEF SavesInv
    <2>4. \A c \in Calls : status'[c] = "idle" => savedAt'[c] = 0
      BY <2>1 DEF SavesInv
    <2> QED BY <2>3, <2>4 DEF SavesInv
  <1>8. CASE CrashAndRestart
    BY <1>1, <1>8, CrashEffect DEF SavesInv, Typed
  <1>9. CASE UNCHANGED <<locks, status, savedAt>>
    BY <1>9 DEF SavesInv
  <1>10. ChangeCreds \/ UNCHANGED vars => UNCHANGED <<locks, status, savedAt>>
    BY ChangeCredsEffect DEF vars, memory
  <1> QED BY <1>3, <1>4, <1>5, <1>6, <1>7, <1>8, <1>9, <1>10 DEF Next

LEMMA RecencyStep ==
    ASSUME QueueInv, QueueInv', RequestsInv, SavesInv, RecencyInv, [Next]_vars
    PROVE  RecencyInv'
  <1> DEFINE first == locks[credsFile][1]
  <1> USE DEF QueueInv
  <1>1. /\ \A f \in AllFiles : /\ Len(locks[f]) \in Nat
                               /\ \A n \in 1..Len(locks[f]) : locks[f][n].call \in Calls
        /\ credsFile \in AllFiles /\ credsFile \notin Files /\ Files \subseteq AllFiles
    BY QueuesTyped, FilesAssumption DEF AllFiles
  <1>2. /\ creds.changes \in Nat /\ creds'.changes \in Nat
        /\ \A c \in Calls : savedAt[c] \in Nat
        /\ register[credsFile].kind = "data" => register[credsFile].changes \in Nat
        /\ Writing(credsFile) => /\ first.value.changes \in Nat /\ first.value.kind = "data"
                                 /\ first.call \in Calls /\ status[first.call] = "running"
    <2>1. register[credsFile].kind = "data" => register[credsFile] \in Credentials
      BY Serialization DEF CredsFileInv
    <2>2. Writing(credsFile) => 1 \in 1..Len(locks[credsFile]) /\ first.value \in Credentials
      BY <1>1 DEF CredsFileInv, Writing
    <2>3. Writing(credsFile) => first.call \in Calls /\ status[first.call] = "running"
      BY <1>1, <2>2 DEF RequestsInv
    <2> QED BY <2>1, <2>2, <2>3 DEF Typed, Credentials
  \* A call that is not a save.
  <1>3. ASSUME NEW c \in Calls, status[c] = "idle", status' = [status EXCEPT ![c] = "running"],
               UNCHANGED <<savedAt, creds, register, identities>>, locks'[credsFile] = locks[credsFile]
        PROVE  RecencyInv'
    <2>1. savedAt[c] = 0 /\ status'[c] = "running" /\ \A e \in Calls \ {c} : status'[e] = status[e]
      BY <1>3 DEF SavesInv, Typed
    <2>2. Writing(credsFile)' <=> Writing(credsFile)
      BY <1>3 DEF Writing
    <2>3. \A e \in Calls : \/ status'[e] = status[e]
                           \/ status'[e] = "running" /\ savedAt'[e] = 0
      BY <1>3, <2>1
    <2>4. locks'[credsFile][1] = first
      BY <1>3
    <2> SUFFICES ASSUME identities = 1
                 PROVE  RecencyInv'
      BY <1>3 DEF RecencyInv
    <2>5. \A e \in Calls : status'[e] \in {"running", "done"} => creds'.changes >= savedAt'[e]
      BY <1>2, <1>3, <2>3 DEF RecencyInv
    <2>6. register'[credsFile].kind = "data" =>
              /\ creds'.changes >= register'[credsFile].changes
              /\ \A e \in Calls : status'[e] = "done"
                    => register'[credsFile].changes >= savedAt'[e]
      BY <1>2, <1>3, <2>3 DEF RecencyInv
    <2>7. Writing(credsFile)' =>
              /\ creds'.changes >= locks'[credsFile][1].value.changes
              /\ \A e \in Calls : status'[e] = "done" \/ e = locks'[credsFile][1].call
                    => locks'[credsFile][1].value.changes >= savedAt'[e]
      BY <1>2, <1>3, <2>2, <2>3, <2>4 DEF RecencyInv
    <2> QED BY <2>5, <2>6, <2>7, Zenon DEF RecencyInv
  <1>4. ASSUME NEW c \in Calls,
               NEW S \in SUBSET Files, NEW data \in [S -> Values \cup {Absent}], SetKeys(c, data)
        PROVE  RecencyInv'
    <2>1. /\ status[c] = "idle" /\ status' = [status EXCEPT ![c] = "running"]
          /\ \A f \in AllFiles \ S : locks'[f] = locks[f]
      BY <1>4, SetKeysAsks
    <2>2. locks'[credsFile] = locks[credsFile]
      BY <1>1, <2>1
    <2>3. UNCHANGED <<savedAt, creds, register, identities>>
      BY <1>4 DEF SetKeys, counts
    <2> QED BY <1>3, <2>1, <2>2, <2>3
  <1>5. ASSUME NEW c \in Calls, NEW f \in Files, GetKey(c, f)
        PROVE  RecencyInv'
    BY <1>1, <1>3, <1>5, GetKeyAsks DEF GetKey, counts
  <1>6. ASSUME NEW c \in Calls, SaveCreds(c)
        PROVE  RecencyInv'
    <2>1. /\ status[c] = "idle" /\ status' = [status EXCEPT ![c] = "running"]
          /\ Appended(credsFile, Waits(credsFile, c, "write", Absent))
          /\ savedAt' = [savedAt EXCEPT ![c] = creds.changes]
          /\ UNCHANGED <<creds, register, identities>>
      BY <1>6, SaveCredsAsks DEF SaveCreds, counts
    <2>2. /\ status'[c] = "running" /\ savedAt'[c] = creds.changes
          /\ \A e \in Calls \ {c} : status'[e] = status[e] /\ savedAt'[e] = savedAt[e]
      BY <2>1 DEF Typed
    <2>3. Writing(credsFile)' => Writing(credsFile) /\ locks'[credsFile][1] = first
      BY <1>1, <2>1 DEF Writing, Appended, Waits
    <2>4. Writing(credsFile) => first.call # c
      BY <1>2, <2>1
    <2> QED BY <1>2, <2>1, <2>2, <2>3, <2>4 DEF RecencyInv
  <1>7. ASSUME NEW f \in AllFiles, Begin(f)
        PROVE  RecencyInv'
    <2> DEFINE q == locks[f][1]
               value == IF q.op = "write" THEN ToWrite(f, q) ELSE q.value
    <2>1. /\ Len(locks[f]) > 0 /\ q \in Request
          /\ \A g \in AllFiles \ {f} : locks'[g] = locks[g]
          /\ locks'[f][1] = [q EXCEPT !.begun = TRUE, !.value = value]
          /\ UNCHANGED <<status, savedAt, creds, register, counts>>
      BY <1>7, BeginEffect
    <2>2. CASE f = credsFile
      <3>1. locks'[f][1].call = q.call /\ locks'[f][1].value = value
        BY <2>1 DEF Request
      <3>2. 1 \in 1..Len(locks[f]) /\ q.op = "write" /\ status[q.call] = "running" /\ q.call \in Calls
        BY <1>1, <2>1, <2>2 DEF CredsFileInv, RequestsInv
      <3>3. value = creds
        BY <2>2, <3>2, Serialization DEF ToWrite, Typed
      <3> HIDE DEF value
      <3> QED BY <1>2, <2>1, <2>2, <3>1, <3>2, <3>3 DEF RecencyInv, counts
    <2>3. CASE f # credsFile
      <3>1. locks'[credsFile] = locks[credsFile]
        BY <1>1, <2>1, <2>3
      <3> QED BY <2>1, <3>1 DEF RecencyInv, counts, Writing
    <2> QED BY <2>2, <2>3
  <1>8. ASSUME NEW f \in AllFiles, End(f)
        PROVE  RecencyInv'
    <2> DEFINE q == locks[f][1]
    <2>1. /\ q \in Request /\ q.begun /\ Removed(f)
          /\ \A g \in AllFiles \ {f} : locks'[g] = locks[g]
          /\ register' = IF q.op = "read" THEN register ELSE [register EXCEPT ![f] = Written(f)]
          /\ status' \in {status, [status EXCEPT ![q.call] = "done"]}
          /\ status' # status => status[q.call] = "running"
          /\ UNCHANGED <<savedAt, creds, counts>>
      BY <1>8, EndEffect
    <2>2. /\ q.call \in Calls
          /\ \A c \in Calls : \/ status'[c] = status[c]
                              \/ c = q.call /\ status[c] = "running" /\ status'[c] = "done"
      BY <2>1 DEF Request, Typed
    <2>3. CASE f = credsFile
      <3>1. q.op = "write" /\ Writing(credsFile) /\ ~Writing(credsFile)'
        <4>1. Len(locks[f]) > 0 /\ 1 \in 1..Len(locks[f])
          BY <1>1, <2>1 DEF Removed
        <4>2. q.op = "write" /\ Writing(credsFile)
          BY <2>1, <2>3, <4>1 DEF CredsFileInv, Writing
        <4>3. locks' \in [AllFiles -> Seq(Request)]
          BY DEF Typed
        <4>4. ~Writing(credsFile)'
          BY <2>1, <2>3, <4>3, RemovedKeepsQueues
        <4> QED BY <4>2, <4>4
      <3>2. register'[credsFile] = q.value
        BY <1>1, <2>1, <2>3, <3>1 DEF Written, Typed
      <3> QED BY <1>2, <2>1, <2>2, <2>3, <3>1, <3>2 DEF RecencyInv, counts
    <2>4. CASE f # credsFile
      <3>1. /\ locks'[credsFile] = locks[credsFile]
            /\ register'[credsFile] = register[credsFile]
        BY <1>1, <2>1, <2>4 DEF Typed
      <3>2. savedAt[q.call] = 0
        <4>1. f \in Files /\ 1 \in 1..Len(locks[f])
          BY <2>1, <2>4 DEF AllFiles, Removed, Typed
        <4> QED BY <4>1 DEF SavesInv
      <3>3. Writing(credsFile)' <=> Writing(credsFile)
        BY <3>1 DEF Writing
      <3> QED BY <1>2, <2>1, <2>2, <3>1, <3>2, <3>3 DEF RecencyInv, counts
    <2> QED BY <2>3, <2>4
  <1>9. ASSUME NEW f \in AllFiles, WriteFails(f)
        PROVE  RecencyInv'
    <2>1. /\ locks[f][1] \in Request /\ Removed(f)
          /\ locks' \in [AllFiles -> Seq(Request)]
          /\ \A g \in AllFiles \ {f} : locks'[g] = locks[g]
          /\ status' = [status EXCEPT ![locks[f][1].call] = "failed"]
          /\ register' = [register EXCEPT ![f] = Torn]
          /\ UNCHANGED <<savedAt, creds, identities>>
      BY <1>9, WriteFailsEffect
    <2>2. \A c \in Calls : status'[c] \in {status[c], "failed"}
      BY <2>1 DEF Typed
    <2>3. register'[credsFile] \in {register[credsFile], Torn}
      BY <1>1, <2>1 DEF Typed
    <2>4. Writing(credsFile)' => /\ Writing(credsFile) /\ locks'[credsFile] = locks[credsFile]
                                 /\ f # credsFile
      BY <2>1, RemovedKeepsQueues
    <2>5. Torn.kind # "data"
      BY Serialization
    <2> QED BY <1>2, <2>1, <2>2, <2>3, <2>4, <2>5 DEF RecencyInv
  <1>13. ASSUME NEW f \in AllFiles, OpenFails(f)
         PROVE  RecencyInv'
    <2>1. /\ Removed(f)
          /\ locks' \in [AllFiles -> Seq(Request)]
          /\ \A g \in AllFiles \ {f} : locks'[g] = locks[g]
          /\ status' = [status EXCEPT ![locks[f][1].call] = "failed"]
          /\ UNCHANGED <<savedAt, creds, register, identities>>
      BY <1>13, OpenFailsEffect
    <2>2. \A c \in Calls : status'[c] \in {status[c], "failed"}
      BY <2>1 DEF Typed
    <2>3. Writing(credsFile)' => Writing(credsFile) /\ locks'[credsFile] = locks[credsFile]
      BY <2>1, RemovedKeepsQueues
    <2> QED BY <1>2, <2>1, <2>2, <2>3 DEF RecencyInv
  <1>10. CASE ChangeCreds
    <2>1. /\ creds'.changes = creds.changes + 1
          /\ UNCHANGED <<locks, status, savedAt, register, identities>>
      BY <1>10, ChangeCredsEffect
    <2> QED BY <1>2, <2>1 DEF RecencyInv, Writing
  <1>11. CASE CrashAndRestart
    <2> SUFFICES ASSUME identities' = 1
                 PROVE  RecencyInv'
      BY DEF RecencyInv
    <2>1. /\ UNCHANGED savedAt /\ ~Writing(credsFile)'
          /\ \A c \in Calls : /\ status'[c] # "running"
                              /\ status'[c] = "done" => status[c] = "done"
      BY <1>1, <1>11, CrashEffect DEF Writing
    <2>2. identities = 1 /\ identities' = identities
      BY <1>11, CrashEffect DEF Typed
    <2>3. /\ register[credsFile] \in Credentials /\ creds' = register[credsFile]
          /\ register'[credsFile] = register[credsFile]
      BY <1>11, <2>2, CrashEffect
    <2>4. register[credsFile].kind = "data"
      BY <2>3, Serialization
    <2> QED BY <1>2, <2>1, <2>2, <2>3, <2>4 DEF RecencyInv
  <1>12. CASE UNCHANGED vars
    BY <1>12 DEF vars, memory, counts, RecencyInv, Writing
  <1> QED BY <1>4, <1>5, <1>6, <1>7, <1>8, <1>9, <1>10, <1>11, <1>12, <1>13 DEF Next

\* A saveCreds() that has resolved has written credentials as recent as those it was
\* called with: it gives writeJSON() the object itself, which is serialized when the
\* mutex is held.
THEOREM SavesAreDurable == Spec => []SavedIsDurable
  <1>1. Init => SavesInv /\ RecencyInv
    <2> SUFFICES ASSUME Init PROVE SavesInv /\ RecencyInv
      OBVIOUS
    <2>1. \A f \in AllFiles : Len(locks[f]) = 0
      BY DEF Init
    <2>2. SavesInv
      BY <2>1 DEF Init, SavesInv, AllFiles
    <2>3. RecencyInv
      BY <2>1, Serialization DEF Init, RecencyInv, Writing, FreshCreds, AllFiles
    <2> QED BY <2>2, <2>3
  <1>2. /\ QueueInv /\ QueueInv' /\ RequestsInv /\ SavesInv /\ RecencyInv /\ [Next]_vars
           => SavesInv' /\ RecencyInv'
    BY SavesStep, RecencyStep
  <1>3. RecencyInv => SavedIsDurable
    BY DEF RecencyInv, SavedIsDurable
  <1> QED BY <1>1, <1>2, <1>3, QueueInvariant, RequestsInvariant, PTL DEF Spec

=============================================================================
