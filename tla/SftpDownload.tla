---------------------------- MODULE SftpDownload ----------------------------
(***************************************************************************)
(* One download of an SftpChannel: the file is opened, its size is asked   *)
(* for, then several reads are kept in flight until the end, whose answers *)
(* come in any order, and the handle is closed by the last of them. Jobs   *)
(* of a channel share nothing but the numbering of requests; here request  *)
(* 0 has the number of the job and the others are numbered from 1.         *)
(* The server answers each request once, if at all; a read of a file       *)
(* returns a whole chunk (or the rest of the file), its end or a failure.  *)
(***************************************************************************)
EXTENDS Integers, Sequences, FiniteSets

CONSTANTS
  ChunkSize,      \* AbstractSftpPacket::MaxDataSize
  MaxInFlight,    \* AbstractSftpTransfer::MaxInFlightCount
  MaxChunks       \* bound: chunks the server has data for, and announces

ASSUME DownloadAssumption ==
  /\ ChunkSize \in Nat \ {0}
  /\ MaxInFlight \in Nat \ {0}
  /\ MaxChunks \in Nat

VARIABLES
  channel,        \* "open", "closing", "closed"; "lost": the connection ended
  jobs,           \* the requests of this download in m_jobs
  state,          \* state of the operation
  hasError,       \* hasError
  statRequested,  \* statRequested
  fileSize,       \* fileSize
  next,           \* offset, in chunks: offset = next * MaxDataSize
  inFlightCount,  \* inFlightCount
  eofId,          \* eofId
  offsets         \* offsets: the chunk each request is to be written at

VARIABLES         \* the server, and history
  asked,          \* what the server has still to answer on each request
  wanted,         \* the chunk it was asked for by the read on each request
  handle,         \* the server holds an open handle
  written,        \* <<place, chunk>> of every chunk written to the local file
  endSeen,        \* the server reported the end of the file on eofId
  pastEof,        \* a read was sent with eofId set
  reports         \* finished() signals with the number of the job

counts == <<fileSize, next, inFlightCount, eofId, offsets, wanted, pastEof>>
data   == <<written, endSeen>>
vars   == <<channel, jobs, state, hasError, statRequested, counts, asked,
            handle, data, reports>>

Ids   == 0..(MaxInFlight - 1)
JobId == 0
NoId  == -1       \* SftpInvalidJob
Nothing == "nothing"

Init ==
  /\ channel = "open"
  /\ jobs = {} /\ state = "Inactive" /\ hasError = FALSE
  /\ statRequested = FALSE /\ fileSize = 0 /\ next = 0 /\ inFlightCount = 0
  /\ eofId = NoId /\ offsets = [id \in Ids |-> 0]
  /\ asked = [id \in Ids |-> Nothing] /\ wanted = [id \in Ids |-> 0]
  /\ handle = FALSE /\ written = {} /\ endSeen = FALSE /\ pastEof = FALSE
  /\ reports = <<>>

Report(outcome) == reports' = Append(reports, outcome)

-----------------------------------------------------------------------------
(* Starting a transfer, counting and finishing its requests                *)

(* createJob(): only on an initialized channel *)
CreateJob ==
  /\ channel = "open" /\ state = "Inactive"
  /\ state' = "OpenRequested"
  /\ jobs' = {JobId}
  /\ asked' = [asked EXCEPT ![JobId] = "open"]
  /\ UNCHANGED <<channel, hasError, statRequested, counts, handle, data,
                 reports>>

AtMost(m, n) == IF m <= n THEN m ELSE n

(* Variants of InFlightFor: the remainder counts even if there is none; or *)
(* the number is not limited.                                              *)
InFlightForOneMore(size) == AtMost(size \div ChunkSize + 1, MaxInFlight)

InFlightForAll(size) ==
  IF size = 0 THEN 1
  ELSE size \div ChunkSize + (IF size % ChunkSize = 0 THEN 0 ELSE 1)

(* calculateInFlightCount() *)
InFlightFor(size) ==
  IF size = 0 THEN 1
  ELSE AtMost(size \div ChunkSize + (IF size % ChunkSize = 0 THEN 0 ELSE 1),
              MaxInFlight)

(* offset >= fileSize, once n chunks have been asked for *)
ReachesEnd(n, size) == n * ChunkSize >= size

(* A request of this download whose answer the server sends now. Of any    *)
(* other number lookupJob() says "Invalid request id in SFTP packet."      *)
Answers(id, type) ==
  channel = "open" /\ id \in Ids /\ asked[id] = type /\ id \in jobs

(* sendTransferCloseHandle() *)
SendClose(id) ==
  /\ state' = "CloseRequested"
  /\ asked' = [asked EXCEPT ![id] = "close"]
  /\ UNCHANGED jobs

Forget(id) ==
  /\ jobs' = jobs \ {id}
  /\ asked' = [asked EXCEPT ![id] = Nothing]

(* Variants of FinishRequest: after an error the handle is closed at once; *)
(* or requests that are done are still counted.                            *)
FinishRequestAtOnce(id) ==
  IF inFlightCount = 1 \/ hasError
    THEN SendClose(id) /\ UNCHANGED inFlightCount
    ELSE Forget(id) /\ inFlightCount' = inFlightCount - 1 /\ UNCHANGED state

FinishRequestUncounted(id) ==
  IF inFlightCount = 1
    THEN SendClose(id) /\ UNCHANGED inFlightCount
    ELSE Forget(id) /\ UNCHANGED <<inFlightCount, state>>

(* finishTransferRequest(): the last request is the one to close the handle *)
FinishRequest(id) ==
  IF inFlightCount = 1
    THEN SendClose(id) /\ UNCHANGED inFlightCount
    ELSE Forget(id) /\ inFlightCount' = inFlightCount - 1 /\ UNCHANGED state

-----------------------------------------------------------------------------
(* Answers to the requests that open the file and ask for its size         *)

(* handleHandle(), handleGetHandle() *)
HandleGetHandle ==
  /\ Answers(JobId, "open") /\ state = "OpenRequested"
  /\ state' = "Open" /\ statRequested' = TRUE
  /\ asked' = [asked EXCEPT ![JobId] = "stat"]
  /\ handle' = TRUE
  /\ UNCHANGED <<channel, jobs, hasError, counts, data, reports>>

(* handleGetStatus(): the file cannot be opened *)
OpenFails ==
  /\ Answers(JobId, "open") /\ state = "OpenRequested"
  /\ Report("error")
  /\ Forget(JobId)
  /\ UNCHANGED <<channel, state, hasError, statRequested, counts, handle,
                 data>>

(* handleGetStatus(): no size; nothing is counted yet *)
StatFails ==
  /\ Answers(JobId, "stat") /\ state = "Open" /\ statRequested
  /\ Report("error") /\ hasError' = TRUE
  /\ SendClose(JobId)
  /\ UNCHANGED <<channel, statRequested, counts, handle, data>>

(* spawnReadRequests(): request i reads chunk i *)
SpawnReadRequests(size) ==
  LET n == InFlightFor(size)
  IN  /\ inFlightCount' = n /\ next' = n
      /\ jobs' = 0..(n - 1)
      /\ asked' = [id \in Ids |-> IF id < n THEN "read" ELSE Nothing]
      /\ wanted' = [id \in Ids |-> IF id < n THEN id ELSE 0]
      /\ offsets' = [id \in Ids |-> IF id < n THEN id ELSE 0]
      /\ eofId' = IF ReachesEnd(n, size) THEN n - 1 ELSE NoId

(* handleAttrs(): a server that does not tell the size is taken to tell 0, *)
(* and the first read is then sent with eofId set.                         *)
HandleAttrs(size, sizePresent) ==
  /\ Answers(JobId, "stat") /\ state = "Open" /\ statRequested
  /\ sizePresent \/ size = 0
  /\ fileSize' = size /\ statRequested' = FALSE
  /\ SpawnReadRequests(size)
  /\ pastEof' = (\/ ~sizePresent
                 \/ \E i \in 1..(InFlightFor(size) - 1) : ReachesEnd(i, size))
  /\ UNCHANGED <<channel, state, hasError, handle, data, reports>>

-----------------------------------------------------------------------------
(* Answers to reads                                                        *)

(* sendReadRequest(), on the number of a read that was answered *)
SendReadRequest(id) ==
  /\ pastEof' = (pastEof \/ eofId # NoId)
  /\ asked' = asked
  /\ wanted' = [wanted EXCEPT ![id] = next]
  /\ offsets' = [offsets EXCEPT ![id] = next]
  /\ next' = next + 1
  /\ eofId' = IF ReachesEnd(next + 1, fileSize) THEN id ELSE eofId
  /\ UNCHANGED <<jobs, state, inFlightCount, fileSize>>

FinishRead(id) ==
  /\ FinishRequest(id)
  /\ UNCHANGED <<fileSize, next, eofId, offsets, wanted, pastEof>>

(* handleReadData(): a chunk, and nothing went wrong so far *)
HandleReadData(id) ==
  /\ Answers(id, "read") /\ wanted[id] < MaxChunks /\ ~hasError
  /\ written' = written \cup {<<offsets[id], wanted[id]>>}
  /\ IF ReachesEnd(next, fileSize) /\ fileSize # 0
       THEN FinishRead(id)
       ELSE SendReadRequest(id)
  /\ UNCHANGED <<channel, hasError, statRequested, handle, endSeen, reports>>

(* handleReadData(): the chunk cannot be written to the local file *)
LocalWriteFails(id) ==
  /\ Answers(id, "read") /\ wanted[id] < MaxChunks /\ ~hasError
  /\ Report("error") /\ hasError' = TRUE
  /\ FinishRead(id)
  /\ UNCHANGED <<channel, statRequested, handle, data>>

(* handleReadData(): a chunk that is no longer of use *)
DropReadData(id) ==
  /\ Answers(id, "read") /\ wanted[id] < MaxChunks /\ hasError
  /\ FinishRead(id)
  /\ UNCHANGED <<channel, hasError, statRequested, handle, data, reports>>

(* Variant of ReadFailed: the end of the file is no error on any request. *)
ReadFailedUnlessEof(id, status) == status # "eof"

(* Only the request that reaches the announced end may find the end. *)
ReadFailed(id, status) == status # "eof" \/ id # eofId

(* handleGetStatus(): the end of the file, or a failure *)
HandleReadStatus(id, status) ==
  /\ Answers(id, "read") /\ state = "Open" /\ ~statRequested
  /\ IF ReadFailed(id, status) /\ ~hasError
       THEN Report("error") /\ hasError' = TRUE
       ELSE UNCHANGED <<reports, hasError>>
  /\ endSeen' = (endSeen \/ (status = "eof" /\ id = eofId))
  /\ FinishRead(id)
  /\ UNCHANGED <<channel, statRequested, handle, written>>

(* Variant of CloseOutcome: an error that was reported is not remembered. *)
CloseOutcomeAlways(ok) ==
  /\ Report(IF ok THEN "ok" ELSE "error")
  /\ hasError' = (hasError \/ ~ok)

CloseOutcome(ok) ==
  IF hasError THEN UNCHANGED <<reports, hasError>>
  ELSE /\ Report(IF ok THEN "ok" ELSE "error")
       /\ hasError' = ~ok

(* handleGetStatus(): the answer to the request that closes the handle *)
HandleCloseStatus(id, ok) ==
  /\ Answers(id, "close") /\ state = "CloseRequested"
  /\ CloseOutcome(ok)
  /\ Forget(id) /\ inFlightCount' = inFlightCount - 1
  /\ handle' = FALSE
  /\ UNCHANGED <<channel, state, statRequested, fileSize, next, eofId,
                 offsets, wanted, pastEof, data>>

-----------------------------------------------------------------------------
(* The end of the channel. Once it is closing no answer is looked at.      *)

(* closeChannel(), called by the user or because the SFTP server exited *)
CloseChannel ==
  /\ channel = "open" /\ channel' = "closing"
  /\ UNCHANGED <<jobs, state, hasError, statRequested, counts, asked, handle,
                 data, reports>>

(* handleChannelClose(), closeHook(): reports every request by its number. *)
(* Those other than JobId mean nothing to the user.                        *)
HandleChannelClose ==
  /\ channel \in {"open", "closing"} /\ channel' = "closed"
  /\ IF JobId \in jobs THEN Report("error") ELSE UNCHANGED reports
  /\ jobs' = {}
  /\ UNCHANGED <<state, hasError, statRequested, counts, asked, handle, data>>

(* closeConnection(), closeAllChannels(): the channel stays closing, since *)
(* the answer of the server does not come.                                 *)
LoseConnection ==
  /\ channel \in {"open", "closing"} /\ channel' = "lost"
  /\ UNCHANGED <<jobs, state, hasError, statRequested, counts, asked, handle,
                 data, reports>>

-----------------------------------------------------------------------------
Answer ==
  \/ HandleGetHandle \/ OpenFails \/ StatFails
  \/ \E size \in 0..(MaxChunks * ChunkSize), sizePresent \in BOOLEAN :
       HandleAttrs(size, sizePresent)
  \/ \E id \in Ids :
       \/ HandleReadData(id) \/ LocalWriteFails(id) \/ DropReadData(id)
       \/ \E status \in {"eof", "failure"} : HandleReadStatus(id, status)
       \/ \E ok \in BOOLEAN : HandleCloseStatus(id, ok)

Next ==
  \/ CreateJob \/ Answer
  \/ CloseChannel \/ HandleChannelClose \/ LoseConnection

(* The server answers every request for as long as the channel is open. *)
Spec == Init /\ [][Next]_vars /\ WF_vars(Answer)

-----------------------------------------------------------------------------
(* Correctness                                                             *)

(* Every variable keeps its type: never more requests than MaxInFlight are *)
(* counted, and never fewer than the -1 that a failed stat leaves.         *)
TypeOK ==
  /\ channel \in {"open", "closing", "closed", "lost"}
  /\ jobs \subseteq Ids
  /\ state \in {"Inactive", "OpenRequested", "Open", "CloseRequested"}
  /\ hasError \in BOOLEAN /\ statRequested \in BOOLEAN
  /\ fileSize \in Nat /\ next \in Nat
  /\ inFlightCount \in -1..MaxInFlight
  /\ eofId \in Ids \cup {NoId}
  /\ offsets \in [Ids -> Nat] /\ wanted \in [Ids -> Nat]
  /\ asked \in [Ids -> {Nothing, "open", "stat", "read", "close"}]
  /\ handle \in BOOLEAN /\ endSeen \in BOOLEAN /\ pastEof \in BOOLEAN
  /\ written \subseteq Nat \X Nat
  /\ reports \in Seq({"ok", "error"})

(* No answer to a request is ever unexpected: m_jobs holds exactly the     *)
(* requests the server has to answer, the operation is in the state that   *)
(* the answer is looked at in, and while reads are in flight the count     *)
(* that decides who closes the handle is their number.                     *)
EveryAnswerExpected ==
  channel = "open" =>
    /\ jobs = {id \in Ids : asked[id] # Nothing}
    /\ \A id \in jobs :
         /\ asked[id] = "open" => state = "OpenRequested"
         /\ asked[id] = "stat" => state = "Open" /\ statRequested
         /\ asked[id] = "read" => state = "Open" /\ ~statRequested
         /\ asked[id] = "close" => state = "CloseRequested"
    /\ state = "Open" /\ ~statRequested => inFlightCount = Cardinality(jobs)

(* The handle is closed by the last request: nothing else is outstanding   *)
(* then, reads are only sent on an open handle, and when the transfer is   *)
(* over the server keeps no handle.                                        *)
HandleClosedLast ==
  channel = "open" =>
    /\ \A id \in Ids : asked[id] = "close" => jobs = {id}
    /\ \A id \in Ids : asked[id] \in {"stat", "read", "close"} => handle
    /\ jobs = {} => ~handle

(* "error.isEmpty <=> finished successfully": a download is reported       *)
(* successful only if everything was asked for up to the announced size    *)
(* and every chunk was written at its place, except that the last one may  *)
(* be where the server found the end.                                      *)
OkMeansComplete ==
  (\E i \in 1..Len(reports) : reports[i] = "ok") =>
    /\ ReachesEnd(next, fileSize)
    /\ \A w \in written : w[1] = w[2]
    /\ \A k \in 0..(next - 1) : \/ <<k, k>> \in written
                                \/ k = next - 1 /\ endSeen

(* While its channel is open a job is reported at most once, and it has    *)
(* been when none of its requests is left; a success is never followed by  *)
(* anything, even when the channel is closed.                              *)
ReportedOnce ==
  /\ channel = "open" => Len(reports) <= 1
  /\ channel = "open" /\ state # "Inactive" /\ jobs = {} => Len(reports) = 1
  /\ \A i \in 1..Len(reports) : reports[i] = "ok" => Len(reports) = 1

(* Of a file announced with a size above 0 nothing is asked past that size *)
(* (the file may hold more): the assertion in sendReadRequest() holds. Of  *)
(* one announced as empty, or without a size, chunk after chunk is asked   *)
(* for until the server reports the end, and the assertion fails: at the   *)
(* second read, or at the first if no size was announced.                  *)
NothingPastEof == fileSize # 0 => ~pastEof

(* A download on a channel that stays open ends with a report to its user. *)
DownloadResolves ==
  state = "OpenRequested" ~> (reports # <<>> \/ channel # "open")

(* What the documentation of the class says of a job: "If an error occurs  *)
(* later, the finished() signal is emitted for the respective job with a   *)
(* non-empty error string." closeHook() tells the user of every request,   *)
(* but the one with the number of the job may be over by then.             *)
ErrorReported ==
  channel = "closed" /\ state # "Inactive" => reports # <<>>
=============================================================================
