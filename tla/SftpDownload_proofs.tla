------------------------- MODULE SftpDownload_proofs ------------------------
(***************************************************************************)
(* The invariants of SftpDownload for every size of a chunk, every number  *)
(* of requests in flight and every bound on the file. They rest on what is *)
(* outstanding and reported in each state of the operation (InPhase), on   *)
(* what can have been reported at all (ReportsInStep), and on where each   *)
(* chunk that was asked for is: written, still asked for, or past the end  *)
(* (ChunksInStep).                                                         *)
(***************************************************************************)
EXTENDS SftpDownload, FiniteSetTheorems, SequenceTheorems, TLAPS

Reported == IF hasError THEN <<"error">> ELSE <<>>

Reading == state = "Open" /\ ~statRequested

Opening ==
  /\ ~handle /\ ~hasError /\ inFlightCount = 0
  /\ \/ jobs = {JobId} /\ asked[JobId] = "open" /\ reports = <<>>
     \/ jobs = {} /\ reports = <<"error">>

AskingSize ==
  /\ handle /\ ~hasError /\ inFlightCount = 0
  /\ jobs = {JobId} /\ asked[JobId] = "stat" /\ reports = <<>>

Fetching ==
  /\ handle /\ reports = Reported
  /\ jobs # {} /\ inFlightCount = Cardinality(jobs)
  /\ \A id \in jobs : asked[id] = "read"

ClosingHandle ==
  /\ handle /\ reports = Reported /\ inFlightCount \in {0, 1}
  /\ \E id \in Ids : jobs = {id} /\ asked[id] = "close"

Over == ~handle /\ jobs = {} /\ reports \in {<<"ok">>, <<"error">>}

InPhase ==
  channel = "open" =>
    /\ \A id \in Ids : id \in jobs <=> asked[id] # Nothing
    /\ state = "Inactive" => /\ jobs = {} /\ reports = <<>>
                             /\ ~handle /\ ~hasError
                             /\ inFlightCount = 0
    /\ state = "OpenRequested" => Opening
    /\ state = "Open" /\ statRequested => AskingSize
    /\ Reading => Fetching
    /\ state = "CloseRequested" => ClosingHandle \/ Over

ReportsInStep ==
  /\ reports \in {<<>>, <<"ok">>, <<"error">>, <<"error", "error">>}
  /\ channel \in {"open", "closing"} => reports # <<"error", "error">>
  /\ reports = <<"ok">> => jobs = {}

(* Every chunk up to the end is in its place. *)
Complete ==
  /\ ReachesEnd(next, fileSize)
  /\ \A k \in 0..(next - 1) : <<k, k>> \in written \/ (k = next - 1 /\ endSeen)

Underway(k) == \E id \in Ids : asked[id] = "read" /\ wanted[id] = k

ChunksInStep ==
  /\ offsets = wanted
  /\ \A w \in written : w[1] = w[2]
  /\ state # "CloseRequested" /\ ~Reading => ~endSeen
  /\ eofId # NoId => ReachesEnd(next, fileSize)
  /\ eofId # NoId => (asked[eofId] = "read" => wanted[eofId] = next - 1)
  /\ endSeen => eofId # NoId
  /\ Reading /\ fileSize = 0 => inFlightCount = 1 /\ ~endSeen
  /\ Reading /\ ~hasError =>
       \A k \in 0..(next - 1) :
          <<k, k>> \in written \/ (k = next - 1 /\ endSeen) \/ Underway(k)
  /\ state = "CloseRequested" /\ ~hasError => Complete
  /\ reports = <<"ok">> => Complete

IInv == TypeOK /\ InPhase /\ ReportsInStep /\ ChunksInStep /\ NothingPastEof

-----------------------------------------------------------------------------
(* Numbers                                                                 *)

LEMMA EndIsPassed ==
  ASSUME NEW n \in Nat, NEW size \in Nat, ReachesEnd(n, size)
  PROVE  ReachesEnd(n + 1, size)
<1>1. (n + 1) * ChunkSize = n * ChunkSize + ChunkSize
  BY DownloadAssumption, SMT
<1>2. n * ChunkSize \in Nat
  BY DownloadAssumption, SMT
<1> QED
  BY <1>1, <1>2, DownloadAssumption, SMT DEF ReachesEnd

(* calculateInFlightCount() is positive and limited, and every request but *)
(* the last one starts a chunk that does not reach the end.                *)
LEMMA InFlightLimited ==
  ASSUME NEW size \in Nat
  PROVE  /\ InFlightFor(size) \in 1..MaxInFlight
         /\ \A i \in 1..(InFlightFor(size) - 1) : ~ReachesEnd(i, size)
         /\ size = 0 => InFlightFor(size) = 1
<1> DEFINE q == size \div ChunkSize
           r == size % ChunkSize
           n == InFlightFor(size)
<1>1. /\ q \in Nat /\ r \in 0..(ChunkSize - 1)
      /\ size = ChunkSize * q + r
  BY DownloadAssumption, SMT
<1>2. CASE size = 0
  BY <1>2, DownloadAssumption, SMT DEF InFlightFor
<1>3. CASE size # 0
  <2>1. n = AtMost(q + (IF r = 0 THEN 0 ELSE 1), MaxInFlight)
    BY <1>3, Zenon DEF InFlightFor
  <2>2. r # 0 \/ q # 0
    <3> SUFFICES ASSUME r = 0, q = 0 PROVE FALSE
      OBVIOUS
    <3>1. size = ChunkSize * 0 + 0
      BY <1>1, Zenon
    <3> QED
      BY <3>1, <1>3, DownloadAssumption, SMT
  <2> HIDE DEF q, r, n
  <2>3. n \in 1..MaxInFlight /\ n <= q + (IF r = 0 THEN 0 ELSE 1)
    BY <2>1, <2>2, <1>1, DownloadAssumption, SMT DEF AtMost
  <2>4. ASSUME NEW i \in 1..(n - 1) PROVE ~ReachesEnd(i, size)
    <3>1. i \in Nat /\ (r = 0 => i + 1 <= q) /\ i <= q
      BY <2>3, <2>4, <1>1, SMT
    <3>2. ASSUME NEW a \in Nat, NEW b \in Nat, a <= b
          PROVE  a * ChunkSize <= ChunkSize * b
      BY <3>2, DownloadAssumption, SMT
    <3>3. CASE r = 0
      <4>1. (i + 1) * ChunkSize <= ChunkSize * q
        BY <3>1, <3>2, <3>3, <1>1, SMT
      <4>2. (i + 1) * ChunkSize = i * ChunkSize + ChunkSize
        BY <3>1, DownloadAssumption, SMT
      <4>3. i * ChunkSize \in Nat /\ ChunkSize * q \in Nat
        BY <3>1, <1>1, DownloadAssumption, SMT
      <4> QED
        BY <4>1, <4>2, <4>3, <3>3, <1>1, DownloadAssumption, SMT
           DEF ReachesEnd
    <3>4. CASE r # 0
      <4>1. i * ChunkSize <= ChunkSize * q
        BY <3>1, <3>2, <1>1
      <4>2. i * ChunkSize \in Nat /\ ChunkSize * q \in Nat
        BY <3>1, <1>1, DownloadAssumption, SMT
      <4> QED
        BY <4>1, <4>2, <3>4, <1>1, DownloadAssumption, SMT DEF ReachesEnd
    <3> QED
      BY <3>3, <3>4
  <2> QED
    BY <2>3, <2>4, <1>3 DEF n
<1> QED
  BY <1>2, <1>3

LEMMA JobsFinite ==
  ASSUME TypeOK
  PROVE  IsFiniteSet(jobs) /\ Cardinality(jobs) \in Nat
<1>1. IsFiniteSet(Ids)
  BY FS_Interval, DownloadAssumption, SMT DEF Ids
<1>2. jobs \subseteq Ids
  BY DEF TypeOK
<1>3. IsFiniteSet(jobs)
  BY <1>1, <1>2, FS_Subset
<1> QED
  BY <1>3, FS_CardinalityType

-----------------------------------------------------------------------------
(* The answer to a read                                                    *)

(* A read can only be answered while the file is being read. *)
LEMMA ReadMeansReading ==
  ASSUME IInv, NEW id, Answers(id, "read")
  PROVE  Reading /\ Fetching /\ id \in Ids /\ id \in jobs /\ channel = "open"
<1>1. channel = "open" /\ id \in Ids /\ asked[id] = "read" /\ id \in jobs
  BY DEF Answers
<1>2. state \in {"Inactive", "OpenRequested", "Open", "CloseRequested"}
  BY DEF IInv, TypeOK
<1>3. state # "Inactive"
  BY <1>1, Zenon DEF IInv, InPhase
<1>4. state # "OpenRequested"
  <2> SUFFICES ASSUME Opening PROVE FALSE
    BY <1>1, Zenon DEF IInv, InPhase
  <2>1. id = JobId
    BY <1>1, Zenon DEF Opening
  <2> QED
    BY <1>1, <2>1, SMT DEF Opening
<1>5. ~(state = "Open" /\ statRequested)
  <2> SUFFICES ASSUME AskingSize PROVE FALSE
    BY <1>1, Zenon DEF IInv, InPhase
  <2>1. id = JobId
    BY <1>1, Zenon DEF AskingSize
  <2> QED
    BY <1>1, <2>1, SMT DEF AskingSize
<1>6. state # "CloseRequested"
  <2> SUFFICES ASSUME ClosingHandle \/ Over PROVE FALSE
    BY <1>1, Zenon DEF IInv, InPhase
  <2>1. CASE ClosingHandle
    BY <1>1, <2>1, SMT DEF ClosingHandle
  <2>2. CASE Over
    BY <1>1, <2>2, Zenon DEF Over
  <2> QED
    BY <2>1, <2>2
<1>7. Reading
  BY <1>2, <1>3, <1>4, <1>5, <1>6, Zenon DEF Reading
<1> QED
  BY <1>1, <1>7, Zenon DEF IInv, InPhase

LastRead(id) ==
  /\ state' = "CloseRequested" /\ jobs = {id} /\ jobs' = {id}
  /\ inFlightCount = 1 /\ inFlightCount' = 1
  /\ asked' = [asked EXCEPT ![id] = "close"]

OneReadLess(id) ==
  /\ state' = "Open" /\ jobs' = jobs \ {id} /\ jobs' # {}
  /\ inFlightCount # 1
  /\ inFlightCount' \in 1..MaxInFlight
  /\ inFlightCount' = Cardinality(jobs')
  /\ asked' = [asked EXCEPT ![id] = Nothing]

(* finishTransferRequest() closes the handle with the last read only. *)
LEMMA ReadFinished ==
  ASSUME IInv, NEW id, Answers(id, "read"), FinishRequest(id)
  PROVE  LastRead(id) \/ OneReadLess(id)
<1>1. /\ Reading /\ Fetching /\ id \in jobs
  BY ReadMeansReading
<1>2. IsFiniteSet(jobs) /\ Cardinality(jobs) \in Nat
  BY JobsFinite DEF IInv
<1>3. inFlightCount = Cardinality(jobs)
  BY <1>1, Zenon DEF Fetching
<1>4. CASE inFlightCount = 1
  <2>1. PICK x : jobs = {x}
    BY <1>2, <1>3, <1>4, FS_Singleton
  <2>2. jobs = {id}
    BY <1>1, <2>1
  <2>3. /\ state' = "CloseRequested" /\ jobs' = jobs
        /\ inFlightCount' = inFlightCount
        /\ asked' = [asked EXCEPT ![id] = "close"]
    BY <1>4, Zenon DEF FinishRequest, SendClose
  <2> QED
    BY <1>4, <2>2, <2>3, Zenon DEF LastRead
<1>5. CASE inFlightCount # 1
  <2>1. /\ state' = state /\ jobs' = jobs \ {id}
        /\ inFlightCount' = inFlightCount - 1
        /\ asked' = [asked EXCEPT ![id] = Nothing]
    BY <1>5, Zenon DEF FinishRequest, Forget
  <2>2. /\ IsFiniteSet(jobs \ {id})
        /\ Cardinality(jobs \ {id}) = Cardinality(jobs) - 1
    BY <1>1, <1>2, FS_RemoveElement
  <2>3. Cardinality(jobs) # 0
    BY <1>1, <1>2, FS_EmptySet, Zenon
  <2>4. inFlightCount' \in 1..MaxInFlight
    BY <1>2, <1>3, <1>5, <2>1, <2>3, DownloadAssumption, SMT
       DEF IInv, TypeOK
  <2>5. jobs' # {}
    <3> SUFFICES ASSUME jobs' = {} PROVE FALSE
      OBVIOUS
    <3>1. jobs \ {id} = {}
      BY <2>1, Zenon
    <3>2. Cardinality(jobs \ {id}) = 0
      BY <3>1, FS_EmptySet
    <3> QED
      BY <1>2, <1>3, <2>1, <2>2, <2>4, <3>2, SMT
  <2> QED
    BY <1>1, <1>3, <1>5, <2>1, <2>2, <2>4, <2>5, Zenon
       DEF OneReadLess, Reading
<1> QED
  BY <1>4, <1>5

-----------------------------------------------------------------------------
(* What each step leaves alone and does, in the form the proofs use        *)

LEMMA TwoErrors == Append(<<"error">>, "error") = <<"error", "error">>
<1> DEFINE s == Append(<<"error">>, "error")
           t == <<"error", "error">>
<1>1. <<"error">> \in Seq({"error"}) /\ t \in Seq({"error"})
  BY SMT
<1>2. s \in Seq({"error"})
  BY <1>1, SMT
<1>3. Len(s) = 2 /\ Len(t) = 2
  BY <1>1, SMT
<1>4. s[1] = t[1] /\ s[2] = t[2]
  BY <1>1, SMT
<1>5. \A i \in 1..2 : s[i] = t[i]
  <2> HIDE DEF s, t
  <2> QED
    BY <1>4, SMT
<1> HIDE DEF s, t
<1> QED
  BY <1>1, <1>2, <1>3, <1>5, SeqEqual, Zenon DEF s, t

LEMMA Appended ==
  ASSUME NEW x, Report(x)
  PROVE  /\ reports = <<>> => reports' = <<x>>
         /\ reports = <<"error">> /\ x = "error" =>
              reports' = <<"error", "error">>
<1>1. reports' = Append(reports, x)
  BY Zenon DEF Report
<1>2. Append(<<>>, x) = <<x>>
  BY SMT
<1> QED
  BY <1>1, <1>2, TwoErrors, Zenon

(* The answers to reads: what is new in each, then the request ends or is  *)
(* used again.                                                             *)
Frame == UNCHANGED <<channel, statRequested, handle>>

ChunkRead(id) ==
  /\ ~hasError /\ wanted[id] < MaxChunks
  /\ written' = written \cup {<<offsets[id], wanted[id]>>}
  /\ UNCHANGED <<hasError, endSeen, reports>>

ErrorRead ==
  /\ hasError' = TRUE /\ UNCHANGED data
  /\ IF hasError THEN UNCHANGED reports ELSE Report("error")

EndRead(id) ==
  /\ id = eofId /\ endSeen' = TRUE
  /\ UNCHANGED <<hasError, written, reports>>

ReadStep(id) ==
  /\ Answers(id, "read") /\ Frame
  /\ \/ ChunkRead(id) /\ SendReadRequest(id)
                      /\ ~(ReachesEnd(next, fileSize) /\ fileSize # 0)
     \/ ChunkRead(id) /\ FinishRead(id)
                      /\ ReachesEnd(next, fileSize) /\ fileSize # 0
     \/ ErrorRead /\ FinishRead(id)
     \/ EndRead(id) /\ FinishRead(id)

LEMMA ReadSteps ==
  ASSUME IInv, NEW id \in Ids,
         \/ HandleReadData(id) \/ LocalWriteFails(id) \/ DropReadData(id)
         \/ \E status \in {"eof", "failure"} : HandleReadStatus(id, status)
  PROVE  ReadStep(id)
<1>1. CASE HandleReadData(id)
  BY <1>1, Zenon DEF HandleReadData, ReadStep, Frame, ChunkRead
<1>2. CASE LocalWriteFails(id)
  BY <1>2, Zenon DEF LocalWriteFails, ReadStep, Frame, ErrorRead
<1>3. CASE DropReadData(id)
  BY <1>3, Zenon DEF DropReadData, ReadStep, Frame, ErrorRead
<1>4. ASSUME NEW status \in {"eof", "failure"}, HandleReadStatus(id, status)
      PROVE  ReadStep(id)
  <2>1. /\ Answers(id, "read") /\ FinishRead(id) /\ Frame
        /\ written' = written
        /\ endSeen' = (endSeen \/ (status = "eof" /\ id = eofId))
    BY <1>4, Zenon DEF HandleReadStatus, Frame
  <2>2. CASE ReadFailed(id, status)
    <3>1. endSeen' = endSeen
      BY <2>1, <2>2, Zenon DEF ReadFailed, IInv, TypeOK
    <3>2. IF hasError THEN UNCHANGED <<reports, hasError>>
                      ELSE Report("error") /\ hasError' = TRUE
      BY <1>4, <2>2, Zenon DEF HandleReadStatus
    <3>3. ErrorRead
      BY <2>1, <3>1, <3>2, Zenon DEF ErrorRead, data
    <3> QED
      BY <2>1, <3>3, Zenon DEF ReadStep
  <2>3. CASE ~ReadFailed(id, status)
    <3>1. EndRead(id)
      BY <1>4, <2>1, <2>3, Zenon DEF HandleReadStatus, ReadFailed, EndRead
    <3> QED
      BY <2>1, <3>1, Zenon DEF ReadStep
  <2> QED
    BY <2>2, <2>3
<1> QED
  BY <1>1, <1>2, <1>3, <1>4

(* A step is one of these. *)
LEMMA Steps ==
  ASSUME IInv, [Next]_vars
  PROVE  \/ CreateJob \/ HandleGetHandle \/ OpenFails \/ StatFails
         \/ \E size \in Nat, sizePresent \in BOOLEAN :
              HandleAttrs(size, sizePresent)
         \/ \E id \in Ids : ReadStep(id)
         \/ \E id \in Ids, ok \in BOOLEAN : HandleCloseStatus(id, ok)
         \/ CloseChannel \/ HandleChannelClose \/ LoseConnection
         \/ UNCHANGED vars
<1>1. 0..(MaxChunks * ChunkSize) \subseteq Nat
  BY DownloadAssumption, SMT
<1> QED
  BY <1>1, ReadSteps, Zenon DEF Next, Answer

-----------------------------------------------------------------------------
(* Types                                                                   *)

LEMMA FirstId == JobId \in Ids /\ Ids \subseteq Nat
  BY DownloadAssumption, SMT DEF JobId, Ids

Flags ==
  /\ hasError \in BOOLEAN /\ statRequested \in BOOLEAN
  /\ handle \in BOOLEAN /\ endSeen \in BOOLEAN /\ pastEof \in BOOLEAN

LEMMA FlagsKept == IInv /\ [Next]_vars => Flags'
<1> SUFFICES ASSUME IInv, [Next]_vars PROVE Flags'
  OBVIOUS
<1> USE DEF IInv, TypeOK, Flags, counts, data
<1>1. CASE CreateJob
  BY <1>1, Zenon DEF CreateJob
<1>2. CASE HandleGetHandle
  BY <1>2, Zenon DEF HandleGetHandle
<1>3. CASE OpenFails
  BY <1>3, Zenon DEF OpenFails
<1>4. CASE StatFails
  BY <1>4, Zenon DEF StatFails
<1>5. ASSUME NEW size \in Nat, NEW sizePresent \in BOOLEAN,
             HandleAttrs(size, sizePresent)
      PROVE  Flags'
  BY <1>5, Zenon DEF HandleAttrs
<1>6. ASSUME NEW id \in Ids, ReadStep(id)
      PROVE  Flags'
  <2>1. UNCHANGED <<statRequested, handle>>
    BY <1>6, Zenon DEF ReadStep, Frame
  <2>2. hasError' \in BOOLEAN /\ endSeen' \in BOOLEAN
    BY <1>6, Zenon DEF ReadStep, ChunkRead, ErrorRead, EndRead
  <2>3. pastEof' \in BOOLEAN
    BY <1>6, Zenon DEF ReadStep, SendReadRequest, FinishRead
  <2> QED
    BY <2>1, <2>2, <2>3, Zenon
<1>7. ASSUME NEW id \in Ids, NEW ok \in BOOLEAN, HandleCloseStatus(id, ok)
      PROVE  Flags'
  BY <1>7, Zenon DEF HandleCloseStatus, CloseOutcome
<1>8. CASE CloseChannel
  BY <1>8, Zenon DEF CloseChannel
<1>9. CASE HandleChannelClose
  BY <1>9, Zenon DEF HandleChannelClose
<1>10. CASE LoseConnection
  BY <1>10, Zenon DEF LoseConnection
<1>11. CASE UNCHANGED vars
  BY <1>11, Zenon DEF vars
<1> QED
  BY <1>1, <1>2, <1>3, <1>4, <1>5, <1>6, <1>7, <1>8, <1>9, <1>10, <1>11,
     Steps, Zenon

(* Everything else. inFlightCount is only lowered while it is positive, or *)
(* from 0 by the answer to the request that closes the handle.             *)
Places ==
  /\ channel \in {"open", "closing", "closed", "lost"}
  /\ jobs \subseteq Ids
  /\ state \in {"Inactive", "OpenRequested", "Open", "CloseRequested"}
  /\ asked \in [Ids -> {Nothing, "open", "stat", "read", "close"}]

Amounts ==
  /\ fileSize \in Nat /\ next \in Nat
  /\ inFlightCount \in -1..MaxInFlight
  /\ eofId \in Ids \cup {NoId}
  /\ offsets \in [Ids -> Nat] /\ wanted \in [Ids -> Nat]

LEMMA PlacesKept == IInv /\ [Next]_vars => Places'
<1> SUFFICES ASSUME IInv, [Next]_vars PROVE Places'
  OBVIOUS
<1> USE FirstId DEF IInv, TypeOK, Places, counts, data
<1>1. CASE CreateJob
  BY <1>1, SMT DEF CreateJob
<1>2. CASE HandleGetHandle
  BY <1>2, SMT DEF HandleGetHandle
<1>3. CASE OpenFails
  BY <1>3, SMT DEF OpenFails, Forget
<1>4. CASE StatFails
  BY <1>4, SMT DEF StatFails, SendClose
<1>5. ASSUME NEW size \in Nat, NEW sizePresent \in BOOLEAN,
             HandleAttrs(size, sizePresent)
      PROVE  Places'
  <2>1. InFlightFor(size) \in 1..MaxInFlight
    BY InFlightLimited
  <2>2. /\ UNCHANGED <<channel, state>>
        /\ jobs' = 0..(InFlightFor(size) - 1)
        /\ asked' = [id \in Ids |-> IF id < InFlightFor(size) THEN "read"
                                                               ELSE Nothing]
    BY <1>5, Zenon DEF HandleAttrs, SpawnReadRequests
  <2>3. jobs' \subseteq Ids
    BY <2>1, <2>2, DownloadAssumption, SMT DEF Ids
  <2>4. asked' \in [Ids -> {Nothing, "open", "stat", "read", "close"}]
    BY <2>2, Zenon
  <2> QED
    BY <2>2, <2>3, <2>4, Zenon
<1>6. ASSUME NEW id \in Ids, ReadStep(id)
      PROVE  Places'
  <2>1. channel' = channel
    BY <1>6, Zenon DEF ReadStep, Frame
  <2>2. CASE SendReadRequest(id)
    BY <2>1, <2>2, Zenon DEF SendReadRequest
  <2>3. CASE FinishRequest(id)
    <3>1. /\ state' \in {state, "CloseRequested"}
          /\ jobs' \in {jobs, jobs \ {id}}
          /\ \E a \in {"close", Nothing} : asked' = [asked EXCEPT ![id] = a]
      BY <2>3, Zenon DEF FinishRequest, SendClose, Forget
    <3> QED
      BY <2>1, <3>1, SMT
  <2> QED
    BY <1>6, <2>2, <2>3, Zenon DEF ReadStep, FinishRead
<1>7. ASSUME NEW id \in Ids, NEW ok \in BOOLEAN, HandleCloseStatus(id, ok)
      PROVE  Places'
  BY <1>7, SMT DEF HandleCloseStatus, Forget
<1>8. CASE CloseChannel
  BY <1>8, SMT DEF CloseChannel
<1>9. CASE HandleChannelClose
  BY <1>9, SMT DEF HandleChannelClose
<1>10. CASE LoseConnection
  BY <1>10, SMT DEF LoseConnection
<1>11. CASE UNCHANGED vars
  BY <1>11, SMT DEF vars
<1> QED
  BY <1>1, <1>2, <1>3, <1>4, <1>5, <1>6, <1>7, <1>8, <1>9, <1>10, <1>11,
     Steps, Zenon

LEMMA AmountsKept == IInv /\ [Next]_vars => Amounts'
<1> SUFFICES ASSUME IInv, [Next]_vars PROVE Amounts'
  OBVIOUS
<1>0. Amounts
  BY DEF IInv, TypeOK, Amounts
<1>1. CASE UNCHANGED counts
  BY <1>0, <1>1, SMT DEF Amounts, counts
<1>2. ASSUME NEW size \in Nat, NEW sizePresent \in BOOLEAN,
             HandleAttrs(size, sizePresent)
      PROVE  Amounts'
  <2> DEFINE n == InFlightFor(size)
  <2>1. n \in 1..MaxInFlight
    BY InFlightLimited
  <2>2. /\ inFlightCount' = n /\ next' = n /\ fileSize' = size
        /\ wanted' = [id \in Ids |-> IF id < n THEN id ELSE 0]
        /\ offsets' = [id \in Ids |-> IF id < n THEN id ELSE 0]
        /\ eofId' = IF ReachesEnd(n, size) THEN n - 1 ELSE NoId
    BY <1>2, Zenon DEF HandleAttrs, SpawnReadRequests
  <2> HIDE DEF n
  <2>3. /\ inFlightCount' \in -1..MaxInFlight /\ next' \in Nat
        /\ fileSize' \in Nat /\ n - 1 \in Ids
    BY <2>1, <2>2, DownloadAssumption, SMT DEF Ids
  <2>4. eofId' \in Ids \cup {NoId}
    BY <2>2, <2>3, Zenon
  <2>5. offsets' \in [Ids -> Nat] /\ wanted' \in [Ids -> Nat]
    BY <2>2, FirstId, SMT
  <2> QED
    BY <2>3, <2>4, <2>5, Zenon DEF Amounts
<1>3. ASSUME NEW id \in Ids, ReadStep(id)
      PROVE  Amounts'
  <2>1. CASE SendReadRequest(id)
    <3>1. /\ UNCHANGED <<inFlightCount, fileSize>>
          /\ wanted' = [wanted EXCEPT ![id] = next]
          /\ offsets' = [offsets EXCEPT ![id] = next]
          /\ next' = next + 1
          /\ eofId' \in {id, eofId}
      BY <2>1, Zenon DEF SendReadRequest
    <3> QED
      BY <1>0, <3>1, SMT DEF Amounts
  <2>2. CASE FinishRead(id)
    <3>1. LastRead(id) \/ OneReadLess(id)
      BY <1>3, <2>2, ReadFinished, Zenon DEF ReadStep, FinishRead
    <3>2. inFlightCount' \in -1..MaxInFlight
      BY <3>1, DownloadAssumption, SMT DEF LastRead, OneReadLess
    <3> QED
      BY <1>0, <2>2, <3>2, Zenon DEF Amounts, FinishRead
  <2> QED
    BY <1>3, <2>1, <2>2, Zenon DEF ReadStep
<1>4. ASSUME NEW id \in Ids, NEW ok \in BOOLEAN, HandleCloseStatus(id, ok)
      PROVE  Amounts'
  <2>1. channel = "open" /\ id \in jobs /\ state = "CloseRequested"
    BY <1>4, Zenon DEF HandleCloseStatus, Answers
  <2>2. inFlightCount \in {0, 1}
    BY <2>1, Zenon DEF IInv, InPhase, ClosingHandle, Over
  <2>3. /\ inFlightCount' = inFlightCount - 1
        /\ UNCHANGED <<fileSize, next, eofId, offsets, wanted>>
    BY <1>4, Zenon DEF HandleCloseStatus
  <2>4. inFlightCount' \in -1..MaxInFlight
    BY <2>2, <2>3, DownloadAssumption, SMT
  <2> QED
    BY <1>0, <2>3, <2>4, Zenon DEF Amounts
<1>5. \/ CreateJob \/ HandleGetHandle \/ OpenFails \/ StatFails
      \/ CloseChannel \/ HandleChannelClose \/ LoseConnection
      \/ UNCHANGED vars
      => UNCHANGED counts
  BY Zenon DEF CreateJob, HandleGetHandle, OpenFails, StatFails,
     CloseChannel, HandleChannelClose, LoseConnection, vars
<1> QED
  BY <1>1, <1>2, <1>3, <1>4, <1>5, Steps, Zenon

-----------------------------------------------------------------------------
(* What a step reports                                                     *)

(* While the file is read, an error is reported when it occurs. *)
LEMMA ReadReports ==
  ASSUME IInv, NEW id \in Ids, ReadStep(id)
  PROVE  reports' = Reported' /\ reports' \in {<<>>, <<"error">>}
<1>1. reports = Reported
  <2>1. Answers(id, "read")
    BY Zenon DEF ReadStep
  <2> QED
    BY <2>1, ReadMeansReading, Zenon DEF Fetching
<1>2. CASE UNCHANGED <<reports, hasError>>
  BY <1>1, <1>2, Zenon DEF Reported
<1>3. CASE ErrorRead
  <2>1. CASE hasError
    BY <1>1, <1>3, <2>1, Zenon DEF Reported, ErrorRead
  <2>2. CASE ~hasError
    <3>1. reports = <<>> /\ Report("error") /\ hasError' = TRUE
      BY <1>1, <1>3, <2>2, Zenon DEF Reported, ErrorRead
    <3> QED
      BY <3>1, Appended, Zenon DEF Reported
  <2> QED
    BY <2>1, <2>2
<1> QED
  BY <1>2, <1>3, Zenon DEF ReadStep, ChunkRead, EndRead

(* What is reported when the handle is closed. *)
LEMMA CloseReports ==
  ASSUME IInv, NEW id \in Ids, NEW ok \in BOOLEAN, HandleCloseStatus(id, ok)
  PROVE  /\ channel = "open" /\ ClosingHandle /\ jobs = {id} /\ jobs' = {}
         /\ reports' \in {<<"ok">>, <<"error">>}
         /\ reports' = <<"ok">> => ~hasError
<1>1. /\ channel = "open" /\ id \in jobs /\ state = "CloseRequested"
      /\ CloseOutcome(ok) /\ jobs' = jobs \ {id}
  BY Zenon DEF HandleCloseStatus, Answers, Forget
<1>2. ClosingHandle
  BY <1>1, Zenon DEF IInv, InPhase, Over
<1>3. jobs = {id} /\ jobs' = {}
  BY <1>1, <1>2, Zenon DEF ClosingHandle
<1>4. reports = Reported
  BY <1>2, Zenon DEF ClosingHandle
<1>5. CASE hasError
  <2>1. reports = <<"error">> /\ reports' = reports
    BY <1>1, <1>4, <1>5, Zenon DEF CloseOutcome, Reported
  <2>2. <<"error">> # <<"ok">>
    BY SMT
  <2> QED
    BY <1>1, <1>2, <1>3, <2>1, <2>2, Zenon
<1>6. CASE ~hasError
  <2>1. reports = <<>> /\ Report(IF ok THEN "ok" ELSE "error")
    BY <1>1, <1>4, <1>6, Zenon DEF CloseOutcome, Reported
  <2>2. reports' = <<IF ok THEN "ok" ELSE "error">>
    BY <2>1, Appended, Zenon
  <2> QED
    BY <1>1, <1>2, <1>3, <1>6, <2>2, Zenon
<1> QED
  BY <1>5, <1>6

(* The four outcomes are different. *)
LEMMA OutcomesDiffer ==
  /\ <<"ok">> # <<"error">> /\ <<"ok">> # <<"error", "error">>
  /\ <<"error">> # <<"error", "error">>
  /\ <<>> # <<"ok">> /\ <<>> # <<"error">> /\ <<>> # <<"error", "error">>
  BY SMT

LEMMA ReportsInStepKept == IInv /\ [Next]_vars => ReportsInStep'
<1> SUFFICES ASSUME IInv, [Next]_vars PROVE ReportsInStep'
  OBVIOUS
<1>0. ReportsInStep
  BY DEF IInv
<1>1. CASE CreateJob
  <2>1. reports = <<>> /\ UNCHANGED <<channel, reports>>
    BY <1>1, Zenon DEF CreateJob, IInv, InPhase
  <2> QED
    BY <1>0, <2>1, OutcomesDiffer, Zenon DEF ReportsInStep
<1>2. CASE UNCHANGED <<channel, jobs, reports>>
  BY <1>0, <1>2, Zenon DEF ReportsInStep
<1>3. CASE OpenFails \/ StatFails
  <2>1. /\ channel = "open" /\ JobId \in jobs /\ Report("error")
        /\ \/ state = "OpenRequested"
           \/ state = "Open" /\ statRequested
        /\ channel' = channel
    BY <1>3, Zenon DEF OpenFails, StatFails, Answers
  <2>2. reports = <<>>
    BY <2>1, Zenon DEF IInv, InPhase, Opening, AskingSize
  <2> QED
    BY <2>1, <2>2, Appended, OutcomesDiffer, Zenon DEF ReportsInStep
<1>4. ASSUME NEW size \in Nat, NEW sizePresent \in BOOLEAN,
             HandleAttrs(size, sizePresent)
      PROVE  ReportsInStep'
  <2>1. /\ channel = "open" /\ state = "Open" /\ statRequested
        /\ UNCHANGED <<channel, reports>>
    BY <1>4, Zenon DEF HandleAttrs, Answers
  <2>2. reports = <<>>
    BY <2>1, Zenon DEF IInv, InPhase, AskingSize
  <2> QED
    BY <1>0, <2>1, <2>2, OutcomesDiffer, Zenon DEF ReportsInStep
<1>5. ASSUME NEW id \in Ids, ReadStep(id)
      PROVE  ReportsInStep'
  BY <1>5, ReadReports, OutcomesDiffer, Zenon DEF ReportsInStep
<1>6. ASSUME NEW id \in Ids, NEW ok \in BOOLEAN, HandleCloseStatus(id, ok)
      PROVE  ReportsInStep'
  BY <1>6, CloseReports, OutcomesDiffer, Zenon DEF ReportsInStep
<1>7. CASE HandleChannelClose
  <2>1. /\ channel \in {"open", "closing"} /\ channel' = "closed"
        /\ jobs' = {}
        /\ IF JobId \in jobs THEN Report("error") ELSE UNCHANGED reports
    BY <1>7, Zenon DEF HandleChannelClose
  <2>2. reports' \in {<<>>, <<"ok">>, <<"error">>, <<"error", "error">>}
    <3>1. CASE JobId \in jobs
      <4>1. reports \in {<<>>, <<"error">>}
        BY <1>0, <2>1, <3>1, Zenon DEF ReportsInStep
      <4> QED
        BY <2>1, <3>1, <4>1, Appended, Zenon
    <3>2. CASE JobId \notin jobs
      BY <1>0, <2>1, <3>2, Zenon DEF ReportsInStep
    <3> QED
      BY <3>1, <3>2
  <2>3. channel' \notin {"open", "closing"}
    BY <2>1, SMT
  <2> QED
    BY <2>1, <2>2, <2>3, Zenon DEF ReportsInStep
<1>8. CASE CloseChannel \/ LoseConnection
  <2>1. /\ channel \in {"open", "closing"} /\ UNCHANGED <<jobs, reports>>
    BY <1>8, SMT DEF CloseChannel, LoseConnection
  <2> QED
    BY <1>0, <2>1, Zenon DEF ReportsInStep
<1>9. HandleGetHandle \/ UNCHANGED vars => UNCHANGED <<channel, jobs, reports>>
  BY Zenon DEF HandleGetHandle, vars
<1> QED
  BY <1>1, <1>2, <1>3, <1>4, <1>5, <1>6, <1>7, <1>8, <1>9, Steps, Zenon

-----------------------------------------------------------------------------
(* What is outstanding in each state                                       *)

LEMMA InPhaseKept == IInv /\ [Next]_vars => InPhase'
<1> SUFFICES ASSUME IInv, [Next]_vars, channel' = "open" PROVE InPhase'
  BY DEF InPhase
<1>0. /\ asked \in [Ids -> {Nothing, "open", "stat", "read", "close"}]
      /\ JobId \in Ids /\ jobs \subseteq Ids
      /\ state \in {"Inactive", "OpenRequested", "Open", "CloseRequested"}
  BY FirstId DEF IInv, TypeOK
<1>1. CASE CreateJob
  <2>1. /\ channel = "open" /\ state = "Inactive"
        /\ state' = "OpenRequested" /\ jobs' = {JobId}
        /\ asked' = [asked EXCEPT ![JobId] = "open"]
        /\ UNCHANGED <<handle, hasError, reports, inFlightCount>>
    BY <1>1, Zenon DEF CreateJob, counts
  <2>2. /\ jobs = {} /\ reports = <<>> /\ ~handle /\ ~hasError
        /\ inFlightCount = 0
        /\ \A id \in Ids : id \in jobs <=> asked[id] # Nothing
    BY <2>1, Zenon DEF IInv, InPhase
  <2>3. asked'[JobId] = "open" /\ \A id \in Ids : id # JobId => asked'[id] = Nothing
    BY <1>0, <2>1, <2>2, Zenon
  <2>4. Opening'
    BY <2>1, <2>2, <2>3, Zenon DEF Opening
  <2>5. \A id \in Ids : id \in jobs' <=> asked'[id] # Nothing
    BY <2>1, <2>3, SMT DEF Nothing
  <2> QED
    BY <2>1, <2>4, <2>5, SMT DEF InPhase, Reading
<1>2. CASE HandleGetHandle
  <2>1. /\ Answers(JobId, "open") /\ state = "OpenRequested"
        /\ state' = "Open" /\ statRequested' = TRUE
        /\ asked' = [asked EXCEPT ![JobId] = "stat"]
        /\ handle' = TRUE
        /\ UNCHANGED <<jobs, hasError, reports, inFlightCount>>
    BY <1>2, Zenon DEF HandleGetHandle, counts
  <2>2. /\ channel = "open" /\ JobId \in jobs /\ Opening
        /\ \A id \in Ids : id \in jobs <=> asked[id] # Nothing
    BY <2>1, Zenon DEF IInv, InPhase, Answers
  <2>3. /\ jobs = {JobId} /\ reports = <<>> /\ ~hasError
        /\ inFlightCount = 0
    BY <2>2, Zenon DEF Opening
  <2>4. AskingSize'
    BY <1>0, <2>1, <2>3, Zenon DEF AskingSize
  <2>5. \A id \in Ids : id \in jobs' <=> asked'[id] # Nothing
    BY <1>0, <2>1, <2>2, <2>3, SMT DEF Nothing
  <2> QED
    BY <2>1, <2>4, <2>5, SMT DEF InPhase, Reading
<1>3. CASE OpenFails
  <2>1. /\ Answers(JobId, "open") /\ state = "OpenRequested"
        /\ Report("error") /\ jobs' = jobs \ {JobId}
        /\ asked' = [asked EXCEPT ![JobId] = Nothing]
        /\ UNCHANGED <<state, hasError, handle, inFlightCount>>
    BY <1>3, Zenon DEF OpenFails, Forget, counts
  <2>2. /\ channel = "open" /\ JobId \in jobs /\ Opening
        /\ \A id \in Ids : id \in jobs <=> asked[id] # Nothing
    BY <2>1, Zenon DEF IInv, InPhase, Answers
  <2>3. /\ jobs = {JobId} /\ reports = <<>> /\ ~hasError /\ ~handle
        /\ inFlightCount = 0
    BY <2>2, Zenon DEF Opening
  <2>4. reports' = <<"error">> /\ jobs' = {}
    BY <2>1, <2>3, Appended, Zenon
  <2>5. Opening'
    BY <2>1, <2>3, <2>4, Zenon DEF Opening
  <2>6. \A id \in Ids : id \in jobs' <=> asked'[id] # Nothing
    BY <1>0, <2>1, <2>2, <2>3, SMT DEF Nothing
  <2> QED
    BY <2>1, <2>5, <2>6, SMT DEF InPhase, Reading
<1>4. CASE StatFails
  <2>1. /\ Answers(JobId, "stat") /\ state = "Open" /\ statRequested
        /\ Report("error") /\ hasError' = TRUE /\ state' = "CloseRequested"
        /\ asked' = [asked EXCEPT ![JobId] = "close"]
        /\ UNCHANGED <<jobs, handle, inFlightCount>>
    BY <1>4, Zenon DEF StatFails, SendClose, counts
  <2>2. /\ channel = "open" /\ AskingSize
        /\ \A id \in Ids : id \in jobs <=> asked[id] # Nothing
    BY <2>1, Zenon DEF IInv, InPhase, Answers
  <2>3. jobs = {JobId} /\ reports = <<>> /\ handle /\ inFlightCount = 0
    BY <2>2, Zenon DEF AskingSize
  <2>4. reports' = <<"error">>
    BY <2>1, <2>3, Appended, Zenon
  <2>5. inFlightCount' \in {0, 1}
    BY <2>1, <2>3, Zenon
  <2>6. ClosingHandle'
    BY <1>0, <2>1, <2>3, <2>4, <2>5, Zenon DEF ClosingHandle, Reported
  <2>7. \A id \in Ids : id \in jobs' <=> asked'[id] # Nothing
    BY <1>0, <2>1, <2>2, <2>3, SMT DEF Nothing
  <2> QED
    BY <2>1, <2>6, <2>7, SMT DEF InPhase, Reading
<1>5. ASSUME NEW size \in Nat, NEW sizePresent \in BOOLEAN,
             HandleAttrs(size, sizePresent)
      PROVE  InPhase'
  <2> DEFINE n == InFlightFor(size)
  <2>1. n \in 1..MaxInFlight
    BY InFlightLimited
  <2>2. /\ Answers(JobId, "stat") /\ state = "Open" /\ statRequested
        /\ statRequested' = FALSE /\ state' = state
        /\ inFlightCount' = n /\ jobs' = 0..(n - 1)
        /\ asked' = [id \in Ids |-> IF id < n THEN "read" ELSE Nothing]
        /\ UNCHANGED <<handle, hasError, reports>>
    BY <1>5, Zenon DEF HandleAttrs, SpawnReadRequests
  <2>3. AskingSize
    BY <2>2, Zenon DEF IInv, InPhase, Answers
  <2> HIDE DEF n
  <2>4. Cardinality(jobs') = n
    <3>1. n - 1 \in Int /\ 0 \in Int /\ ~(0 > n - 1)
          /\ (n - 1) - 0 + 1 = n
      BY <2>1, SMT
    <3>2. Cardinality(0..(n - 1)) = IF 0 > n - 1 THEN 0 ELSE (n - 1) - 0 + 1
      BY <3>1, FS_Interval
    <3> QED
      BY <2>2, <3>1, <3>2, Zenon
  <2>5. jobs' # {} /\ \A id \in Ids : id \in jobs' <=> id < n
    BY <2>1, <2>2, SMT DEF Ids
  <2>6. jobs' \subseteq Ids
    BY <2>1, <2>2, DownloadAssumption, SMT DEF Ids
  <2>7. Fetching'
    BY <2>2, <2>3, <2>4, <2>5, <2>6, Zenon DEF Fetching, AskingSize, Reported
  <2>8. \A id \in Ids : id \in jobs' <=> asked'[id] # Nothing
    BY <2>2, <2>5, SMT DEF Nothing
  <2> QED
    BY <2>2, <2>7, <2>8, SMT DEF InPhase, Reading
<1>6. ASSUME NEW id \in Ids, ReadStep(id)
      PROVE  InPhase'
  <2>1. Answers(id, "read") /\ Frame
    BY <1>6, Zenon DEF ReadStep
  <2>2. /\ Reading /\ Fetching /\ id \in jobs /\ channel = "open"
        /\ \A i \in Ids : i \in jobs <=> asked[i] # Nothing
    BY <2>1, ReadMeansReading, Zenon DEF IInv, InPhase
  <2>3. reports' = Reported'
    BY <1>6, ReadReports
  <2>4. handle' /\ ~statRequested' /\ state = "Open"
    BY <2>1, <2>2, Zenon DEF Frame, Fetching, Reading
  <2>5. CASE SendReadRequest(id)
    <3>1. UNCHANGED <<jobs, state, asked, inFlightCount>>
      BY <2>5, Zenon DEF SendReadRequest
    <3>2. Fetching'
      BY <2>2, <2>3, <2>4, <3>1, Zenon DEF Fetching
    <3> QED
      BY <2>2, <2>4, <3>1, <3>2, SMT DEF InPhase, Reading
  <2>6. CASE LastRead(id)
    <3>1. ClosingHandle'
      BY <1>0, <2>3, <2>4, <2>6, Zenon DEF LastRead, ClosingHandle
    <3>2. \A i \in Ids : i \in jobs' <=> asked'[i] # Nothing
      BY <1>0, <2>2, <2>6, SMT DEF LastRead, Nothing
    <3> QED
      BY <2>6, <3>1, <3>2, SMT DEF InPhase, Reading, LastRead
  <2>7. CASE OneReadLess(id)
    <3>1. \A i \in jobs' : asked'[i] = "read"
      BY <1>0, <2>2, <2>7, SMT DEF OneReadLess, Fetching
    <3>2. Fetching'
      BY <2>3, <2>4, <2>7, <3>1, Zenon DEF OneReadLess, Fetching
    <3>3. \A i \in Ids : i \in jobs' <=> asked'[i] # Nothing
      BY <1>0, <2>2, <2>7, SMT DEF OneReadLess, Nothing
    <3> QED
      BY <2>4, <2>7, <3>2, <3>3, SMT DEF InPhase, Reading, OneReadLess
  <2> QED
    BY <1>6, <2>1, <2>5, <2>6, <2>7, ReadFinished, Zenon
       DEF ReadStep, FinishRead
<1>7. ASSUME NEW id \in Ids, NEW ok \in BOOLEAN, HandleCloseStatus(id, ok)
      PROVE  InPhase'
  <2>1. /\ channel = "open" /\ jobs = {id} /\ jobs' = {}
        /\ reports' \in {<<"ok">>, <<"error">>}
    BY <1>7, CloseReports
  <2>2. /\ state = "CloseRequested" /\ state' = state
        /\ asked' = [asked EXCEPT ![id] = Nothing] /\ handle' = FALSE
    BY <1>7, Zenon DEF HandleCloseStatus, Forget
  <2>3. Over'
    BY <2>1, <2>2, Zenon DEF Over
  <2>4. \A i \in Ids : i \in jobs <=> asked[i] # Nothing
    BY <2>1, Zenon DEF IInv, InPhase
  <2>5. \A i \in Ids : i \in jobs' <=> asked'[i] # Nothing
    BY <1>0, <2>1, <2>2, <2>4, SMT DEF Nothing
  <2> QED
    BY <2>2, <2>3, <2>5, SMT DEF InPhase, Reading
<1>8. CASE CloseChannel \/ HandleChannelClose \/ LoseConnection
  BY <1>8, SMT DEF CloseChannel, HandleChannelClose, LoseConnection
<1>9. CASE UNCHANGED vars
  <2>1. UNCHANGED <<channel, jobs, state, hasError, statRequested, asked,
                    handle, reports, inFlightCount>>
    BY <1>9, Zenon DEF vars, counts
  <2>2. InPhase
    BY DEF IInv
  <2> QED
    BY <2>1, <2>2, Zenon DEF InPhase, Reading, Opening, AskingSize, Fetching,
       ClosingHandle, Over, Reported
<1> QED
  BY <1>1, <1>2, <1>3, <1>4, <1>5, <1>6, <1>7, <1>8, <1>9, Steps, Zenon

-----------------------------------------------------------------------------
(* Where the chunks are                                                    *)

(* The part of ChunksInStep that holds of the numbers alone. *)
NumbersInStep ==
  /\ offsets = wanted
  /\ \A w \in written : w[1] = w[2]
  /\ eofId # NoId => ReachesEnd(next, fileSize)
  /\ eofId # NoId => (asked[eofId] = "read" => wanted[eofId] = next - 1)
  /\ endSeen => eofId # NoId

(* A read that is sent on the number of one that was answered with data.   *)
LEMMA NextChunk ==
  ASSUME IInv, NEW id \in Ids, Answers(id, "read"), Frame,
         ChunkRead(id), SendReadRequest(id),
         ~(ReachesEnd(next, fileSize) /\ fileSize # 0)
  PROVE  ChunksInStep' /\ NothingPastEof'
<1>1. /\ next \in Nat /\ fileSize \in Nat /\ id # NoId
      /\ wanted \in [Ids -> Nat] /\ offsets \in [Ids -> Nat]
      /\ eofId \in Ids \cup {NoId}
  BY FirstId, SMT DEF IInv, TypeOK, NoId
<1>2. /\ Reading /\ Reading' /\ ~hasError /\ ~hasError'
  <2>1. Reading
    BY ReadMeansReading
  <2> QED
    BY <2>1, Zenon DEF Reading, SendReadRequest, ChunkRead, Frame
<1>3. /\ written' = written \cup {<<offsets[id], wanted[id]>>}
      /\ wanted' = [wanted EXCEPT ![id] = next]
      /\ offsets' = [offsets EXCEPT ![id] = next]
      /\ next' = next + 1
      /\ eofId' = IF ReachesEnd(next + 1, fileSize) THEN id ELSE eofId
      /\ pastEof' = (pastEof \/ eofId # NoId)
      /\ UNCHANGED <<asked, jobs, state, inFlightCount, fileSize, endSeen,
                     reports>>
  BY Zenon DEF SendReadRequest, ChunkRead
<1>4. asked[id] = "read"
  BY Zenon DEF Answers
<1>5. NumbersInStep
  BY DEF IInv, ChunksInStep, NumbersInStep
<1>6. fileSize # 0 => eofId = NoId /\ ~endSeen
  BY <1>5, Zenon DEF NumbersInStep
<1>7. ~endSeen
  BY <1>2, <1>6, Zenon DEF IInv, ChunksInStep
<1>8. \A w \in written' : w[1] = w[2]
  BY <1>1, <1>3, <1>5, SMT DEF NumbersInStep
<1>9. eofId' # NoId => /\ ReachesEnd(next', fileSize')
                       /\ wanted'[eofId'] = next' - 1
  <2>1. CASE ReachesEnd(next + 1, fileSize)
    <3>1. eofId' = id /\ wanted'[id] = next
      BY <1>1, <1>3, <2>1, Zenon
    <3>2. next' - 1 = next
      BY <1>1, <1>3, SMT
    <3>3. ReachesEnd(next', fileSize')
      BY <1>3, <2>1, Zenon
    <3> QED
      BY <3>1, <3>2, <3>3, Zenon
  <2>2. CASE ~ReachesEnd(next + 1, fileSize)
    <3>1. ~ReachesEnd(next, fileSize)
      BY <1>1, <2>2, EndIsPassed
    <3> QED
      BY <1>3, <1>5, <2>2, <3>1, Zenon DEF NumbersInStep
  <2> QED
    BY <2>1, <2>2
<1>10. Reading' /\ fileSize' = 0 => inFlightCount' = 1 /\ ~endSeen'
  BY <1>2, <1>3, <1>7, Zenon DEF IInv, ChunksInStep
<1>11. ASSUME NEW k \in 0..(next' - 1)
       PROVE  <<k, k>> \in written' \/ Underway(k)'
  <2>1. k = next \/ k \in 0..(next - 1)
    BY <1>1, <1>3, SMT
  <2>2. CASE k = next
    BY <1>1, <1>3, <1>4, <2>2, Zenon DEF Underway
  <2>3. CASE k \in 0..(next - 1) /\ <<k, k>> \in written
    BY <1>3, <2>3, Zenon
  <2>4. CASE Underway(k)
    <3>1. PICK i \in Ids : asked[i] = "read" /\ wanted[i] = k
      BY <2>4, Zenon DEF Underway
    <3>2. CASE i = id
      BY <1>3, <1>5, <3>1, <3>2, Zenon DEF NumbersInStep
    <3>3. CASE i # id
      BY <1>1, <1>3, <3>1, <3>3, Zenon DEF Underway
    <3> QED
      BY <3>2, <3>3
  <2> QED
    BY <1>2, <1>7, <2>1, <2>2, <2>3, <2>4, Zenon DEF IInv, ChunksInStep
<1>12. reports' # <<"ok">>
  <2>1. reports = Reported
    BY ReadMeansReading, Zenon DEF Fetching
  <2> QED
    BY <1>2, <1>3, <2>1, OutcomesDiffer, Zenon DEF Reported
<1>13. offsets' = wanted'
  BY <1>3, <1>5, Zenon DEF NumbersInStep
<1>14. NothingPastEof'
  BY <1>3, <1>6, Zenon DEF IInv, NothingPastEof
<1>15. state' # "CloseRequested"
  BY <1>2, SMT DEF Reading
<1> QED
  BY <1>2, <1>3, <1>7, <1>8, <1>9, <1>10, <1>11, <1>12, <1>13, <1>14, <1>15,
     Zenon DEF ChunksInStep

(* A read that was answered with data, or with the end of the file on      *)
(* eofId, accounts for its chunk; when it was the last one, all are.       *)
LEMMA ReadAccounted ==
  ASSUME IInv, NEW id \in Ids, Answers(id, "read"), ~hasError,
         FinishRead(id),
         \/ ChunkRead(id) /\ ReachesEnd(next, fileSize) /\ fileSize # 0
         \/ EndRead(id)
  PROVE  /\ \A k \in 0..(next' - 1) :
              \/ <<k, k>> \in written' \/ (k = next' - 1 /\ endSeen')
              \/ \E i \in Ids \ {id} : asked[i] = "read" /\ wanted[i] = k
         /\ ReachesEnd(next', fileSize')
<1>1. UNCHANGED <<fileSize, next, eofId, offsets, wanted>>
  BY Zenon DEF FinishRead
<1>2. Reading /\ asked[id] = "read"
  BY ReadMeansReading, Zenon DEF Answers
<1>3. NumbersInStep
  BY DEF IInv, ChunksInStep, NumbersInStep
<1>4. written \subseteq written' /\ (endSeen => endSeen')
  <2>1. CASE ChunkRead(id)
    BY <2>1, Zenon DEF ChunkRead
  <2>2. CASE EndRead(id)
    BY <2>2, Zenon DEF EndRead
  <2> QED
    BY <2>1, <2>2
<1>5. ReachesEnd(next, fileSize)
  <2>1. CASE EndRead(id)
    <3>1. id # NoId
      BY FirstId, SMT DEF NoId
    <3> QED
      BY <1>3, <2>1, <3>1, Zenon DEF EndRead, NumbersInStep
  <2> QED
    BY <2>1
<1>6. \/ <<wanted[id], wanted[id]>> \in written'
      \/ wanted[id] = next - 1 /\ endSeen'
  <2>1. CASE ChunkRead(id)
    BY <1>3, <2>1, Zenon DEF ChunkRead, NumbersInStep
  <2>2. CASE EndRead(id)
    <3>1. id # NoId
      BY FirstId, SMT DEF NoId
    <3> QED
      BY <1>2, <1>3, <2>2, <3>1, Zenon DEF EndRead, NumbersInStep
  <2> QED
    BY <2>1, <2>2
<1>7. ASSUME NEW k \in 0..(next - 1)
      PROVE  \/ <<k, k>> \in written' \/ (k = next - 1 /\ endSeen')
             \/ \E i \in Ids \ {id} : asked[i] = "read" /\ wanted[i] = k
  <2>1. \/ <<k, k>> \in written \/ (k = next - 1 /\ endSeen)
        \/ Underway(k)
    BY <1>2, Zenon DEF IInv, ChunksInStep
  <2>2. CASE Underway(k)
    <3>1. PICK i \in Ids : asked[i] = "read" /\ wanted[i] = k
      BY <2>2, Zenon DEF Underway
    <3> QED
      BY <1>6, <3>1, Zenon
  <2> QED
    BY <1>4, <2>1, <2>2, Zenon
<1> QED
  BY <1>1, <1>5, <1>7, Zenon

(* A read that ends its request. *)
LEMMA ReadEnded ==
  ASSUME IInv, NEW id \in Ids, ReadStep(id), FinishRead(id)
  PROVE  ChunksInStep' /\ NothingPastEof'
<1>1. /\ Answers(id, "read") /\ Frame
      /\ UNCHANGED <<fileSize, next, eofId, offsets, wanted, pastEof>>
      /\ FinishRequest(id)
  BY Zenon DEF ReadStep, FinishRead
<1>2. Reading /\ asked[id] = "read"
  BY <1>1, ReadMeansReading, Zenon DEF Answers
<1>3. LastRead(id) \/ OneReadLess(id)
  BY <1>1, ReadFinished
<1>4. NumbersInStep /\ NothingPastEof
  BY DEF IInv, ChunksInStep, NumbersInStep
<1>5. /\ asked \in [Ids -> {Nothing, "open", "stat", "read", "close"}]
      /\ eofId \in Ids \cup {NoId}
  BY DEF IInv, TypeOK
<1>6. \/ ErrorRead
      \/ ChunkRead(id) /\ ((ReachesEnd(next, fileSize) /\ fileSize # 0)
                           \/ SendReadRequest(id))
      \/ EndRead(id)
  BY Zenon DEF ReadStep
<1>7. ~SendReadRequest(id)
  <2>1. inFlightCount' = inFlightCount => LastRead(id)
    <3>1. CASE inFlightCount = 1
      BY <1>3, <3>1, Zenon DEF OneReadLess
    <3>2. CASE inFlightCount # 1
      <4>1. inFlightCount' = inFlightCount - 1 /\ inFlightCount \in Int
        BY <1>1, <3>2, SMT DEF FinishRequest, IInv, TypeOK
      <4> QED
        BY <4>1, SMT
    <3> QED
      BY <3>1, <3>2
  <2>2. state = "Open" /\ "Open" # "CloseRequested"
    BY <1>2, SMT DEF Reading
  <2> QED
    BY <2>1, <2>2, Zenon DEF SendReadRequest, LastRead
<1>8. \A w \in written' : w[1] = w[2]
  <2>1. CASE ChunkRead(id)
    BY <1>4, <2>1, SMT DEF ChunkRead, NumbersInStep
  <2>2. CASE written' = written
    BY <1>4, <2>2, Zenon DEF NumbersInStep
  <2> QED
    BY <1>6, <2>1, <2>2, Zenon DEF ErrorRead, EndRead, data
<1>9. endSeen' => eofId' # NoId
  <2>1. CASE endSeen' = endSeen
    BY <1>1, <1>4, <2>1, Zenon DEF NumbersInStep
  <2>2. CASE EndRead(id)
    <3>1. id # NoId
      BY FirstId, SMT DEF NoId
    <3> QED
      BY <1>1, <2>2, <3>1, Zenon DEF EndRead
  <2> QED
    BY <1>6, <2>1, <2>2, Zenon DEF ErrorRead, ChunkRead, data
<1>10. ASSUME NEW i \in Ids, asked'[i] = "read"
       PROVE  i # id /\ asked[i] = "read"
  BY <1>3, <1>5, <1>10, SMT DEF LastRead, OneReadLess, Nothing
<1>11. eofId' # NoId => /\ ReachesEnd(next', fileSize')
                        /\ asked'[eofId'] = "read" => wanted'[eofId'] = next' - 1
  BY <1>1, <1>4, <1>5, <1>10, Zenon DEF NumbersInStep
<1>12. offsets' = wanted' /\ NothingPastEof'
  BY <1>1, <1>4, Zenon DEF NumbersInStep, NothingPastEof
<1>13. reports' # <<"ok">>
  BY ReadReports, OutcomesDiffer, Zenon
<1>14. ASSUME ~hasError'
       PROVE  /\ \A k \in 0..(next' - 1) :
                   \/ <<k, k>> \in written' \/ (k = next' - 1 /\ endSeen')
                   \/ \E i \in Ids \ {id} : asked[i] = "read" /\ wanted[i] = k
              /\ ReachesEnd(next', fileSize')
  <2>1. ~hasError
    BY <1>6, <1>14, Zenon DEF ErrorRead, ChunkRead, EndRead
  <2>2. \/ ChunkRead(id) /\ ReachesEnd(next, fileSize) /\ fileSize # 0
        \/ EndRead(id)
    BY <1>6, <1>7, <1>14, Zenon DEF ErrorRead
  <2> QED
    BY <1>1, <2>1, <2>2, ReadAccounted
<1>15. CASE LastRead(id)
  <2>1. state' = "CloseRequested" /\ ~Reading'
    BY <1>15, SMT DEF LastRead, Reading
  <2>2. \A i \in Ids \ {id} : asked[i] # "read"
    <3>1. jobs = {id} /\ \A i \in Ids : i \in jobs <=> asked[i] # Nothing
      BY <1>1, <1>15, Zenon DEF LastRead, IInv, InPhase, Answers
    <3> QED
      BY <3>1, SMT DEF Nothing
  <2>3. ~hasError' => Complete'
    BY <1>14, <2>2, Zenon DEF Complete
  <2> QED
    BY <1>8, <1>9, <1>11, <1>12, <1>13, <2>1, <2>3, Zenon DEF ChunksInStep
<1>16. CASE OneReadLess(id)
  <2>1. Reading' /\ state' # "CloseRequested"
    BY <1>1, <1>2, <1>16, SMT DEF OneReadLess, Reading, Frame
  <2>2. fileSize # 0
    BY <1>2, <1>16, Zenon DEF OneReadLess, IInv, ChunksInStep
  <2>3. \A i \in Ids \ {id} : asked'[i] = asked[i]
    BY <1>5, <1>16, Zenon DEF OneReadLess
  <2>4. ~hasError' =>
          \A k \in 0..(next' - 1) :
             <<k, k>> \in written' \/ (k = next' - 1 /\ endSeen') \/ Underway(k)'
    BY <1>1, <1>14, <2>3, Zenon DEF Underway
  <2> QED
    BY <1>1, <1>8, <1>9, <1>11, <1>12, <1>13, <2>1, <2>2, <2>4, Zenon
       DEF ChunksInStep
<1> QED
  BY <1>3, <1>15, <1>16

(* A step that neither asks for a chunk nor writes one. *)
LEMMA ChunksFramed ==
  ASSUME IInv, [Next]_vars, UNCHANGED <<offsets, wanted, next, fileSize, eofId,
                                        written, endSeen>>,
         \A id \in Ids : asked'[id] = "read" => asked[id] = "read"
  PROVE  NumbersInStep' /\ (Complete => Complete')
<1>1. NumbersInStep /\ eofId \in Ids \cup {NoId}
  BY DEF IInv, TypeOK, ChunksInStep, NumbersInStep
<1>2. \A n, size : ReachesEnd(n, size)' = ReachesEnd(n, size)
  BY Zenon DEF ReachesEnd
<1> QED
  BY <1>1, <1>2, Zenon DEF NumbersInStep, Complete, ReachesEnd

LEMMA ChunksInStepKept == IInv /\ [Next]_vars => ChunksInStep' /\ NothingPastEof'
<1> SUFFICES ASSUME IInv, [Next]_vars PROVE ChunksInStep' /\ NothingPastEof'
  OBVIOUS
<1> DEFINE Same == UNCHANGED <<offsets, wanted, next, fileSize, eofId, written,
                               endSeen>>
<1>0. /\ ChunksInStep /\ NothingPastEof
      /\ asked \in [Ids -> {Nothing, "open", "stat", "read", "close"}]
      /\ JobId \in Ids
  BY FirstId DEF IInv, TypeOK
<1>1. CASE CreateJob \/ HandleGetHandle
  <2>1. /\ Same /\ UNCHANGED <<reports, pastEof>>
        /\ \E a \in {"open", "stat"} : asked' = [asked EXCEPT ![JobId] = a]
        /\ state' # "CloseRequested" /\ ~Reading'
        /\ state # "CloseRequested" /\ ~Reading
    <3>1. CASE CreateJob
      BY <3>1, SMT DEF CreateJob, counts, data, Reading
    <3>2. CASE HandleGetHandle
      BY <3>2, SMT DEF HandleGetHandle, counts, data, Reading
    <3> QED
      BY <1>1, <3>1, <3>2
  <2>2. \A id \in Ids : asked'[id] = "read" => asked[id] = "read"
    BY <1>0, <2>1, SMT
  <2>3. NumbersInStep' /\ (Complete => Complete')
    BY <2>1, <2>2, ChunksFramed
  <2> QED
    BY <1>0, <2>1, <2>3, Zenon DEF ChunksInStep, NumbersInStep, NothingPastEof
<1>2. CASE OpenFails \/ StatFails
  <2>1. /\ Same /\ UNCHANGED pastEof
        /\ \E a \in {Nothing, "close"} : asked' = [asked EXCEPT ![JobId] = a]
        /\ ~endSeen /\ ~Reading'
        /\ state' = "CloseRequested" => hasError'
        /\ channel = "open" /\ channel' = channel
    <3>1. CASE OpenFails
      <4>1. ~endSeen
        BY <1>0, <3>1, SMT DEF OpenFails, ChunksInStep, Reading
      <4> QED
        BY <3>1, <4>1, SMT
           DEF OpenFails, Forget, Answers, counts, data, Reading
    <3>2. CASE StatFails
      <4>1. ~endSeen
        BY <1>0, <3>2, SMT DEF StatFails, ChunksInStep, Reading
      <4>2. state' = "CloseRequested" /\ state' # "Open" /\ hasError' = TRUE
        BY <3>2, SMT DEF StatFails, SendClose
      <4> QED
        BY <3>2, <4>1, <4>2, Zenon
           DEF StatFails, SendClose, Answers, counts, data, Reading
    <3> QED
      BY <1>2, <3>1, <3>2
  <2>2. \A id \in Ids : asked'[id] = "read" => asked[id] = "read"
    BY <1>0, <2>1, SMT DEF Nothing
  <2>3. NumbersInStep'
    BY <2>1, <2>2, ChunksFramed
  <2>4. reports' # <<"ok">>
    <3>1. Report("error") /\ (\/ state = "OpenRequested"
                              \/ state = "Open" /\ statRequested)
          /\ JobId \in jobs
      BY <1>2, Zenon DEF OpenFails, StatFails, Answers
    <3>2. reports = <<>>
      BY <2>1, <3>1, Zenon DEF IInv, InPhase, Opening, AskingSize
    <3> QED
      BY <3>1, <3>2, Appended, OutcomesDiffer, Zenon
  <2> QED
    BY <1>0, <2>1, <2>3, <2>4, Zenon
       DEF ChunksInStep, NumbersInStep, NothingPastEof
<1>3. ASSUME NEW size \in Nat, NEW sizePresent \in BOOLEAN,
             HandleAttrs(size, sizePresent)
      PROVE  ChunksInStep' /\ NothingPastEof'
  <2> DEFINE n == InFlightFor(size)
  <2>1. /\ n \in 1..MaxInFlight /\ (size = 0 => n = 1)
        /\ \A i \in 1..(n - 1) : ~ReachesEnd(i, size)
    BY InFlightLimited
  <2>2. /\ Answers(JobId, "stat") /\ state = "Open" /\ statRequested
        /\ sizePresent \/ size = 0
        /\ statRequested' = FALSE /\ state' = state
        /\ fileSize' = size /\ next' = n /\ inFlightCount' = n
        /\ asked' = [id \in Ids |-> IF id < n THEN "read" ELSE Nothing]
        /\ wanted' = [id \in Ids |-> IF id < n THEN id ELSE 0]
        /\ offsets' = [id \in Ids |-> IF id < n THEN id ELSE 0]
        /\ eofId' = IF ReachesEnd(n, size) THEN n - 1 ELSE NoId
        /\ pastEof' = (\/ ~sizePresent
                       \/ \E i \in 1..(n - 1) : ReachesEnd(i, size))
        /\ UNCHANGED <<channel, written, endSeen, reports>>
    BY <1>3, Zenon DEF HandleAttrs, SpawnReadRequests, data
  <2>3. ~endSeen /\ \A w \in written : w[1] = w[2]
    BY <1>0, <2>2, SMT DEF ChunksInStep, Reading
  <2>4. reports = <<>>
    BY <2>2, Zenon DEF IInv, InPhase, AskingSize, Answers
  <2>5. NothingPastEof'
    BY <2>1, <2>2, Zenon DEF NothingPastEof
  <2> HIDE DEF n
  <2>6. eofId' # NoId => /\ ReachesEnd(next', fileSize')
                         /\ wanted'[eofId'] = next' - 1
    <3> SUFFICES ASSUME eofId' # NoId
                 PROVE  /\ ReachesEnd(next', fileSize')
                        /\ wanted'[eofId'] = next' - 1
      OBVIOUS
    <3>1. ReachesEnd(n, size) /\ eofId' = n - 1
      BY <2>2, Zenon
    <3>2. n - 1 \in Ids /\ n - 1 < n
      BY <2>1, DownloadAssumption, SMT DEF Ids
    <3>3. wanted'[n - 1] = n - 1
      BY <2>2, <3>2, Zenon
    <3> QED
      BY <2>2, <3>1, <3>3, Zenon
  <2>7. ASSUME NEW k \in 0..(next' - 1) PROVE Underway(k)'
    <3>1. k \in Ids /\ k < n
      BY <2>1, <2>2, DownloadAssumption, SMT DEF Ids
    <3> QED
      BY <2>2, <3>1, Zenon DEF Underway
  <2>8. Reading' /\ state' # "CloseRequested"
    BY <2>2, SMT DEF Reading
  <2>9. fileSize' = 0 => inFlightCount' = 1
    BY <2>1, <2>2, Zenon
  <2> QED
    BY <2>2, <2>3, <2>4, <2>5, <2>6, <2>7, <2>8, <2>9, OutcomesDiffer, Zenon
       DEF ChunksInStep
<1>4. ASSUME NEW id \in Ids, ReadStep(id)
      PROVE  ChunksInStep' /\ NothingPastEof'
  <2>1. CASE FinishRead(id)
    BY <1>4, <2>1, ReadEnded
  <2>2. CASE /\ ChunkRead(id) /\ SendReadRequest(id)
             /\ ~(ReachesEnd(next, fileSize) /\ fileSize # 0)
    BY <1>4, <2>2, NextChunk DEF ReadStep
  <2> QED
    BY <1>4, <2>1, <2>2, Zenon DEF ReadStep
<1>5. ASSUME NEW id \in Ids, NEW ok \in BOOLEAN, HandleCloseStatus(id, ok)
      PROVE  ChunksInStep' /\ NothingPastEof'
  <2>1. /\ Same /\ UNCHANGED <<state, pastEof>>
        /\ state = "CloseRequested"
        /\ asked' = [asked EXCEPT ![id] = Nothing]
        /\ hasError => hasError'
    BY <1>5, Zenon DEF HandleCloseStatus, Forget, CloseOutcome, data
  <2>2. \A i \in Ids : asked'[i] = "read" => asked[i] = "read"
    BY <1>0, <2>1, SMT DEF Nothing
  <2>3. NumbersInStep' /\ (Complete => Complete')
    BY <2>1, <2>2, ChunksFramed
  <2>4. ~Reading' /\ (reports' = <<"ok">> => ~hasError)
    BY <1>5, <2>1, CloseReports, SMT DEF Reading
  <2> QED
    BY <1>0, <2>1, <2>3, <2>4, Zenon
       DEF ChunksInStep, NumbersInStep, NothingPastEof
<1>6. CASE \/ CloseChannel \/ HandleChannelClose \/ LoseConnection
           \/ UNCHANGED vars
  <2>1. Same /\ UNCHANGED <<asked, state, hasError, statRequested,
                            inFlightCount, pastEof>>
    BY <1>6, Zenon DEF CloseChannel, HandleChannelClose, LoseConnection, vars,
       counts, data
  <2>2. NumbersInStep' /\ (Complete => Complete')
    BY <2>1, ChunksFramed, Zenon
  <2>3. reports' = <<"ok">> => reports = <<"ok">>
    <3>1. CASE UNCHANGED reports
      BY <3>1, Zenon
    <3>2. CASE HandleChannelClose /\ JobId \in jobs
      <4>1. Report("error") /\ reports \in {<<>>, <<"error">>}
        BY <3>2, Zenon DEF HandleChannelClose, IInv, ReportsInStep
      <4> QED
        BY <4>1, Appended, OutcomesDiffer, Zenon
    <3> QED
      BY <1>6, <3>1, <3>2, Zenon
         DEF CloseChannel, HandleChannelClose, LoseConnection, vars
  <2>4. Underway(0)' = Underway(0) /\ \A k : Underway(k)' = Underway(k)
    BY <2>1, Zenon DEF Underway
  <2> QED
    BY <1>0, <2>1, <2>2, <2>3, <2>4, Zenon
       DEF ChunksInStep, NumbersInStep, NothingPastEof, Reading
<1> QED
  BY <1>1, <1>2, <1>3, <1>4, <1>5, <1>6, Steps, Zenon

-----------------------------------------------------------------------------
(* The theorems                                                            *)

LEMMA RecordsKept ==
  ASSUME IInv, [Next]_vars
  PROVE  written' \subseteq Nat \X Nat /\ reports' \in Seq({"ok", "error"})
<1>1. reports' \in Seq({"ok", "error"})
  <2>1. ReportsInStep'
    BY ReportsInStepKept
  <2>2. \A r \in {<<>>, <<"ok">>, <<"error">>, <<"error", "error">>} :
           r \in Seq({"ok", "error"})
    <3>1. <<>> \in Seq({"ok", "error"}) /\ <<"ok">> \in Seq({"ok", "error"})
      BY SMT
    <3>2. /\ <<"error">> \in Seq({"ok", "error"})
          /\ <<"error", "error">> \in Seq({"ok", "error"})
      BY SMT
    <3> QED
      BY <3>1, <3>2, Zenon
  <2> QED
    BY <2>1, <2>2, Zenon DEF ReportsInStep
<1>2. ASSUME NEW id \in Ids, ReadStep(id) PROVE written' \subseteq Nat \X Nat
  <2>1. offsets[id] \in Nat /\ wanted[id] \in Nat
    BY DEF IInv, TypeOK
  <2>2. written \subseteq Nat \X Nat
    BY DEF IInv, TypeOK
  <2>3. \/ written' = written
        \/ written' = written \cup {<<offsets[id], wanted[id]>>}
    BY <1>2, Zenon DEF ReadStep, ChunkRead, ErrorRead, EndRead, data
  <2> QED
    BY <2>1, <2>2, <2>3, SMT
<1>3. (\E id \in Ids : ReadStep(id)) \/ written' = written
  BY Steps, Zenon DEF CreateJob, HandleGetHandle, OpenFails, StatFails,
     HandleAttrs, HandleCloseStatus, CloseChannel, HandleChannelClose,
     LoseConnection, vars, data
<1> QED
  BY <1>1, <1>2, <1>3, Zenon DEF IInv, TypeOK

LEMMA InitIInv == Init => IInv
<1> SUFFICES ASSUME Init PROVE IInv
  OBVIOUS
<1>1. /\ reports = <<>> /\ <<>> \in Seq({"ok", "error"})
      /\ jobs = {} /\ channel = "open" /\ state = "Inactive"
  BY SMT DEF Init
<1>2. TypeOK
  <2>1. Flags
    BY Zenon DEF Init, Flags
  <2>2. Places
    BY <1>1, FirstId, SMT DEF Init, Places
  <2>3. Amounts
    <3>1. 0 \in Nat /\ 0 \in -1..MaxInFlight
      BY DownloadAssumption, SMT
    <3> QED
      BY <3>1, Zenon DEF Init, Amounts
  <2> QED
    BY <1>1, <2>1, <2>2, <2>3, Zenon DEF TypeOK, Flags, Places, Amounts, Init
<1>3. InPhase
  BY <1>1, SMT DEF Init, InPhase, Reading
<1>4. ReportsInStep
  BY <1>1, OutcomesDiffer, Zenon DEF ReportsInStep
<1>5. ChunksInStep
  BY <1>1, OutcomesDiffer, SMT DEF Init, ChunksInStep, Reading
<1>6. NothingPastEof
  BY Zenon DEF Init, NothingPastEof
<1> QED
  BY <1>2, <1>3, <1>4, <1>5, <1>6 DEF IInv

LEMMA NextIInv == IInv /\ [Next]_vars => IInv'
<1> SUFFICES ASSUME IInv, [Next]_vars PROVE IInv'
  OBVIOUS
<1>1. TypeOK'
  BY FlagsKept, PlacesKept, AmountsKept, RecordsKept, Zenon
     DEF TypeOK, Flags, Places, Amounts
<1> QED
  BY <1>1, InPhaseKept, ReportsInStepKept, ChunksInStepKept DEF IInv

LEMMA Invariant == Spec => []IInv
  BY InitIInv, NextIInv, PTL DEF Spec

(* Every variable keeps its type; requests in flight stay limited. *)
THEOREM TypeCorrect == Spec => []TypeOK
<1>1. IInv => TypeOK
  BY DEF IInv
<1> QED
  BY <1>1, Invariant, PTL

(* The server is never told that an answer it owes is unexpected, and the  *)
(* count of requests in flight is right while the file is read.            *)
THEOREM AnswersExpected == Spec => []EveryAnswerExpected
<1>1. IInv => EveryAnswerExpected
  <2> SUFFICES ASSUME IInv, channel = "open"
               PROVE  /\ jobs = {id \in Ids : asked[id] # Nothing}
                      /\ \A id \in jobs :
                           /\ asked[id] = "open" => state = "OpenRequested"
                           /\ asked[id] = "stat" => state = "Open" /\ statRequested
                           /\ asked[id] = "read" => state = "Open" /\ ~statRequested
                           /\ asked[id] = "close" => state = "CloseRequested"
                      /\ state = "Open" /\ ~statRequested =>
                           inFlightCount = Cardinality(jobs)
    BY Zenon DEF EveryAnswerExpected
  <2>1. /\ jobs \subseteq Ids
        /\ state \in {"Inactive", "OpenRequested", "Open", "CloseRequested"}
    BY DEF IInv, TypeOK
  <2>2. jobs = {id \in Ids : asked[id] # Nothing}
    BY <2>1, Zenon DEF IInv, InPhase
  <2>3. state = "Open" /\ ~statRequested => inFlightCount = Cardinality(jobs)
    BY Zenon DEF IInv, InPhase, Reading, Fetching
  <2>4. ASSUME NEW id \in jobs
        PROVE  /\ asked[id] = "open" => state = "OpenRequested"
               /\ asked[id] = "stat" => state = "Open" /\ statRequested
               /\ asked[id] = "read" => state = "Open" /\ ~statRequested
               /\ asked[id] = "close" => state = "CloseRequested"
    <3>1. CASE state = "OpenRequested"
      <4>1. Opening
        BY <3>1, Zenon DEF IInv, InPhase
      <4>2. id = JobId /\ asked[JobId] = "open"
        BY <4>1, Zenon DEF Opening
      <4> QED
        BY <3>1, <4>2, SMT
    <3>2. CASE state = "Open" /\ statRequested
      <4>1. AskingSize
        BY <3>2, Zenon DEF IInv, InPhase
      <4>2. id = JobId /\ asked[JobId] = "stat"
        BY <4>1, Zenon DEF AskingSize
      <4> QED
        BY <3>2, <4>2, SMT
    <3>3. CASE state = "Open" /\ ~statRequested
      <4>1. asked[id] = "read"
        BY <3>3, Zenon DEF IInv, InPhase, Fetching, Reading
      <4> QED
        BY <3>3, <4>1, SMT
    <3>4. CASE state = "CloseRequested"
      <4>1. asked[id] = "close"
        BY <3>4, Zenon DEF IInv, InPhase, ClosingHandle, Over
      <4> QED
        BY <3>4, <4>1, SMT
    <3>5. state # "Inactive"
      BY Zenon DEF IInv, InPhase
    <3> QED
      BY <2>1, <3>1, <3>2, <3>3, <3>4, <3>5, Zenon
  <2> QED
    BY <2>2, <2>3, <2>4
<1> QED
  BY <1>1, Invariant, PTL

(* The handle is closed by the last request, and never left open. *)
THEOREM HandleSafe == Spec => []HandleClosedLast
<1>1. IInv => HandleClosedLast
  <2> SUFFICES ASSUME IInv, channel = "open"
               PROVE  /\ \A id \in Ids : asked[id] = "close" => jobs = {id}
                      /\ \A id \in Ids :
                           asked[id] \in {"stat", "read", "close"} => handle
                      /\ jobs = {} => ~handle
    BY Zenon DEF HandleClosedLast
  <2>1. /\ \A id \in Ids : id \in jobs <=> asked[id] # Nothing
        /\ state \in {"Inactive", "OpenRequested", "Open", "CloseRequested"}
        /\ {JobId} # {}
    BY Zenon DEF IInv, TypeOK, InPhase
  <2>2. CASE state = "Inactive"
    BY <2>1, <2>2, SMT DEF IInv, InPhase, Nothing
  <2>3. CASE state = "OpenRequested"
    BY <2>1, <2>3, SMT DEF IInv, InPhase, Opening, Nothing
  <2>4. CASE state = "Open" /\ statRequested
    BY <2>1, <2>4, SMT DEF IInv, InPhase, AskingSize, Nothing
  <2>5. CASE Reading
    <3>1. Fetching
      BY <2>5, Zenon DEF IInv, InPhase
    <3> QED
      BY <2>1, <3>1, SMT DEF Fetching, Nothing
  <2>6. CASE state = "CloseRequested"
    <3>1. ClosingHandle \/ Over
      BY <2>6, Zenon DEF IInv, InPhase
    <3> QED
      BY <2>1, <3>1, SMT DEF ClosingHandle, Over, Nothing
  <2> QED
    BY <2>1, <2>2, <2>3, <2>4, <2>5, <2>6, Zenon DEF Reading
<1> QED
  BY <1>1, Invariant, PTL

(* A download is reported successful only when it is complete. *)
THEOREM SuccessComplete == Spec => []OkMeansComplete
<1>1. IInv => OkMeansComplete
  <2> SUFFICES ASSUME IInv, NEW i \in 1..Len(reports), reports[i] = "ok"
               PROVE  /\ ReachesEnd(next, fileSize)
                      /\ \A w \in written : w[1] = w[2]
                      /\ \A k \in 0..(next - 1) :
                            <<k, k>> \in written \/ (k = next - 1 /\ endSeen)
    BY Zenon DEF OkMeansComplete
  <2>1. reports = <<"ok">>
    BY SMT DEF IInv, ReportsInStep
  <2> QED
    BY <2>1, Zenon DEF IInv, ChunksInStep, Complete
<1> QED
  BY <1>1, Invariant, PTL

(* A job is reported once when it is over, and never again after success. *)
THEOREM ReportsSafe == Spec => []ReportedOnce
<1>1. IInv => ReportedOnce
  <2> SUFFICES ASSUME IInv PROVE ReportedOnce
    OBVIOUS
  <2>1. channel = "open" => reports \in {<<>>, <<"ok">>, <<"error">>}
    BY Zenon DEF IInv, ReportsInStep
  <2>2. reports \in {<<>>, <<"ok">>, <<"error">>, <<"error", "error">>}
    BY Zenon DEF IInv, ReportsInStep
  <2>3. channel = "open" /\ state # "Inactive" /\ jobs = {} =>
            reports \in {<<"ok">>, <<"error">>}
    <3> SUFFICES ASSUME channel = "open", state # "Inactive", jobs = {}
                 PROVE  reports \in {<<"ok">>, <<"error">>}
      OBVIOUS
    <3>1. state \in {"OpenRequested", "Open", "CloseRequested"}
      BY DEF IInv, TypeOK
    <3> QED
      BY <3>1, Zenon DEF IInv, InPhase, Opening, AskingSize, Fetching,
         ClosingHandle, Over, Reading
  <2>4. channel = "open" => Len(reports) <= 1
    BY <2>1, SMT
  <2>5. channel = "open" /\ state # "Inactive" /\ jobs = {} => Len(reports) = 1
    BY <2>3, SMT
  <2>6. \A i \in 1..Len(reports) : reports[i] = "ok" => Len(reports) = 1
    BY <2>2, SMT
  <2> QED
    BY <2>4, <2>5, <2>6 DEF ReportedOnce
<1> QED
  BY <1>1, Invariant, PTL

(* spawnReadRequests() and handleReadData() stop where a size above 0 was  *)
(* announced; the assertion in sendReadRequest() is not claimed to hold of *)
(* a file announced as empty or without a size.                            *)
THEOREM ReadsStopAtEnd == Spec => []NothingPastEof
<1>1. IInv => NothingPastEof
  BY DEF IInv
<1> QED
  BY <1>1, Invariant, PTL
=============================================================================
