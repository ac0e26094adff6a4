--------------------------- MODULE Scrcpy_proofs ---------------------------
(***************************************************************************)
(* The scrcpy page, for every number of connections, servers, packets,     *)
(* configurations, keys, displays and encoders: what is shown and what     *)
(* there is agree (SessionSound), and a file begins with a keyframe and    *)
(* has the last configuration (RecordingDecodable).  The inductive         *)
(* invariant, ScrcpyInv, has a part for each part of the page; each part   *)
(* is kept by itself, but that a recorder is made anew only where no       *)
(* recording is on (SessionInv).                                           *)
(* A recording replays what is kept with a fold; the first section says    *)
(* what such a fold leads to, by an induction on the number of packets.    *)
(***************************************************************************)
EXTENDS Scrcpy, FiniteSetTheorems, SequenceTheorems, TLAPS

-----------------------------------------------------------------------------
(* A recording that starts                                                 *)

\* Counting: a set that holds 0, and the successor of each of its numbers
\* below n, holds the numbers up to n.
LEMMA Counting ==
  ASSUME NEW n \in Nat, NEW S, 0 \in S,
         \A k \in 0 .. n - 1 : k \in S => k + 1 \in S
  PROVE  \A k \in 0 .. n : k \in S
<1> DEFINE T == (0 .. n) \ S
           I(k) == 0 .. k
           Initial == {I(k) : k \in T}
<1>1. SUFFICES ASSUME T # {} PROVE FALSE
  OBVIOUS
<1>2. \A k \in T : k \in Nat /\ k # 0 /\ k - 1 \in 0 .. n - 1 /\ k - 1 \in Nat /\ k - 1 + 1 = k
  BY SMT
<1>3. \A k \in T : I(k) \in FiniteSubsetsOf(Nat)
  <2>1. ASSUME NEW k \in T PROVE I(k) \in FiniteSubsetsOf(Nat)
    <3>1. I(k) \subseteq Nat
      BY <1>2, SMT
    <3>2. IsFiniteSet(I(k))
      BY <1>2, FS_Interval, SMT
    <3> QED
      BY <3>1, <3>2 DEF FiniteSubsetsOf
  <2> QED
    BY <2>1
<1>4. PICK x \in Initial : \A y \in Initial : ~ (<<y, x>> \in StrictSubsetOrdering(Nat))
  <2>1. Initial \subseteq FiniteSubsetsOf(Nat) /\ Initial # {}
    BY <1>1, <1>3
  <2> HIDE DEF Initial
  <2> QED
    BY <2>1, FS_StrictSubsetOrderingWellFounded, WFMin, Zenon
<1>5. PICK k \in T : x = I(k)
  OBVIOUS
<1>6. k - 1 \in T
  <2>1. SUFFICES ASSUME k - 1 \in S PROVE FALSE
    BY <1>2, SMT
  <2> QED
    BY <1>2, <2>1, SMT
<1>7. <<I(k - 1), I(k)>> \in StrictSubsetOrdering(Nat)
  <2>1. I(k - 1) \subseteq I(k) /\ I(k) \subseteq Nat /\ I(k - 1) # I(k)
    <3>1. k \in I(k) /\ k \notin I(k - 1)
      BY <1>2, SMT
    <3>2. I(k - 1) \subseteq I(k) /\ I(k) \subseteq Nat
      BY <1>2, SMT
    <3> QED
      BY <3>1, <3>2
  <2> HIDE DEF I
  <2> QED
    BY <2>1 DEF StrictSubsetOrdering
<1> QED
  BY <1>4, <1>5, <1>6, <1>7

\* What the fold over the first k packets of q computes for each set of them.
IsFold(g, k, base, q) ==
  g = [s \in SUBSET (1 .. k) |->
        IF s = {} THEN base ELSE AddChunk(g[s \ {Max(s)}], q[Max(s)])]

\* There is such a function, however many packets there are.
LEMMA FoldExists ==
  ASSUME NEW base, NEW q, NEW n \in Nat
  PROVE  \E g : IsFold(g, n, base, q)
<1> DEFINE S == {k \in 0 .. n : \E g : IsFold(g, k, base, q)}
<1>1. 0 \in S
  <2>1. 1 .. 0 = {} /\ 0 \in 0 .. n
    BY SMT
  <2>2. IsFold([s \in SUBSET (1 .. 0) |-> base], 0, base, q)
    BY <2>1 DEF IsFold
  <2> QED
    BY <2>1, <2>2
<1>2. ASSUME NEW k \in 0 .. n - 1, k \in S
      PROVE  k + 1 \in S
  <2>1. PICK g : IsFold(g, k, base, q)
    BY <1>2
  <2> DEFINE N == k + 1
             h == [s \in SUBSET (1 .. N) |->
                    IF N \in s THEN AddChunk(g[s \ {N}], q[N]) ELSE g[s]]
  <2>2. /\ N \in 0 .. n /\ N \in Nat /\ N \in 1 .. N /\ N \notin 1 .. k
        /\ 1 .. k \subseteq 1 .. N /\ 1 .. N = (1 .. k) \cup {N}
    BY SMT
  <2>3. ASSUME NEW s \in SUBSET (1 .. N)
        PROVE  h[s] = IF s = {} THEN base ELSE AddChunk(h[s \ {Max(s)}], q[Max(s)])
    <3>1. CASE N \in s
      <4>1. Max(s) = N
        <5>1. \A y \in s : N >= y
          BY SMT
        <5>2. \A x \in s : (\A y \in s : x >= y) => x = N
          BY <3>1, SMT
        <5> QED
          BY <3>1, <5>1, <5>2, Zenon DEF Max
      <4>2. s \ {N} \in SUBSET (1 .. N) /\ N \notin s \ {N}
        OBVIOUS
      <4>3. h[s \ {N}] = g[s \ {N}] /\ h[s] = AddChunk(g[s \ {N}], q[N])
        BY <3>1, <4>2
      <4> QED
        BY <3>1, <4>1, <4>3
    <3>2. CASE N \notin s
      <4>1. s \in SUBSET (1 .. k) /\ s \ {Max(s)} \in SUBSET (1 .. k)
        BY <2>2, <3>2
      <4>2. g[s] = IF s = {} THEN base ELSE AddChunk(g[s \ {Max(s)}], q[Max(s)])
        <5> HIDE DEF N, h
        <5> QED
          BY <2>1, <4>1, Zenon DEF IsFold
      <4>3. h[s] = g[s] /\ h[s \ {Max(s)}] = g[s \ {Max(s)}]
        BY <2>2, <3>2, <4>1
      <4> QED
        BY <4>2, <4>3
    <3> QED
      BY <3>1, <3>2
  <2>4. IsFold(h, N, base, q)
    <3>1. h = [s \in SUBSET (1 .. N) |-> h[s]]
      OBVIOUS
    <3> HIDE DEF h, N
    <3> QED
      BY <2>3, <3>1, Zenon DEF IsFold
  <2> QED
    BY <2>2, <2>4
<1>3. n \in 0 .. n
  BY SMT
<1> HIDE DEF S
<1>4. n \in S
  BY <1>1, <1>2, <1>3, Counting
<1> QED
  BY <1>4 DEF S

\* What holds of the number of packets and the value of a fold when nothing
\* is replayed yet, and is kept by each packet, holds at the end.
LEMMA FoldLeads ==
  ASSUME NEW base, NEW q \in Seq(Packets), NEW P, <<0, base>> \in P,
         \A k \in 0 .. Len(q) - 1 : \A x : <<k, x>> \in P => <<k + 1, AddChunk(x, q[k + 1])>> \in P
  PROVE  <<Len(q), FoldLeft(AddChunk, base, q)>> \in P
<1> DEFINE n == Len(q)
           g == CHOOSE iter : IsFold(iter, n, base, q)
           S == {k \in 0 .. n : <<k, g[1 .. k]>> \in P}
<1>1. n \in Nat /\ DOMAIN q = 1 .. n /\ n \in 0 .. n
  BY SMT
<1>2. IsFold(g, n, base, q)
  BY <1>1, FoldExists, Zenon
<1>3. ASSUME NEW s \in SUBSET (1 .. n)
      PROVE  g[s] = IF s = {} THEN base ELSE AddChunk(g[s \ {Max(s)}], q[Max(s)])
  <2> HIDE DEF g, n
  <2> QED
    BY <1>2, Zenon DEF IsFold
<1>4. FoldLeft(AddChunk, base, q) = g[1 .. n]
  BY <1>1, Zenon DEF FoldLeft, MapThenFoldSet, IsFold
<1> HIDE DEF g
<1>5. 0 \in S
  <2>1. 1 .. 0 = {} /\ 0 \in 0 .. n /\ 1 .. 0 \in SUBSET (1 .. n)
    BY <1>1, SMT
  <2> QED
    BY <1>3, <2>1
<1>6. ASSUME NEW k \in 0 .. n - 1, k \in S
      PROVE  k + 1 \in S
  <2> DEFINE N == k + 1
             s == 1 .. N
  <2>0. n \in Nat /\ k \in 0 .. n - 1
    BY <1>1
  <2>4. <<N, AddChunk(g[1 .. k], q[N])>> \in P
    BY <1>6
  <2> HIDE DEF n
  <2>1. N \in 0 .. n /\ N \in 1 .. n /\ N \in s /\ s \in SUBSET (1 .. n) /\ s \ {N} = 1 .. k
    <3>1. N \in 0 .. n /\ N \in 1 .. n
      BY <2>0, SMT
    <3>2. N \in s /\ s \in SUBSET (1 .. n)
      BY <2>0, SMT
    <3>3. s \ {N} = 1 .. k
      BY <2>0, SMT
    <3> QED
      BY <3>1, <3>2, <3>3
  <2>2. Max(s) = N
    <3>1. \A y \in s : N >= y
      BY <2>0, SMT
    <3>2. \A x \in s : (\A y \in s : x >= y) => x = N
      <4>1. \A x \in s : x \in Nat /\ (x >= N => x = N)
        BY <2>0, SMT
      <4> QED
        BY <2>1, <4>1
    <3> HIDE DEF s, N
    <3> QED
      BY <2>1, <3>1, <3>2, Zenon DEF Max
  <2> HIDE DEF s, N
  <2>3. g[s] = AddChunk(g[1 .. k], q[N])
    BY <1>3, <2>1, <2>2
  <2> QED
    BY <2>1, <2>3, <2>4 DEF N, s
<1> HIDE DEF S
<1>7. n \in S
  BY <1>1, <1>5, <1>6, Counting
<1> QED
  BY <1>4, <1>7 DEF S

\* A fold is the last of the values that the packets lead to one by one.
LEMMA FoldSteps ==
  ASSUME NEW base, NEW q \in Seq(Packets), NEW h,
         h[0] = base,
         \A i \in 1 .. Len(q) : h[i] = AddChunk(h[i - 1], q[i])
  PROVE  FoldLeft(AddChunk, base, q) = h[Len(q)]
<1> DEFINE n == Len(q)
           P == {<<k, h[k]>> : k \in 0 .. n}
<1>1. n \in Nat /\ 0 \in 0 .. n
  BY SMT
<1>2. <<0, base>> \in P
  BY <1>1
<1>3. ASSUME NEW k \in 0 .. n - 1, NEW x, <<k, x>> \in P
      PROVE  <<k + 1, AddChunk(x, q[k + 1])>> \in P
  <2>1. x = h[k]
    BY <1>3
  <2>2. k + 1 \in 1 .. n /\ k + 1 \in 0 .. n /\ (k + 1) - 1 = k
    BY <1>1, SMT
  <2>3. h[k + 1] = AddChunk(h[k], q[k + 1])
    BY <2>2
  <2> QED
    BY <2>1, <2>2, <2>3
<1> HIDE DEF P
<1>4. <<n, FoldLeft(AddChunk, base, q)>> \in P
  BY <1>2, <1>3, FoldLeads
<1> QED
  BY <1>4 DEF P

\* A fold stays where every packet stays.
LEMMA FoldStays ==
  ASSUME NEW q \in Seq(Packets), NEW S, NEW base \in S,
         \A x \in S : \A p \in Packets : AddChunk(x, p) \in S
  PROVE  FoldLeft(AddChunk, base, q) \in S
<1> DEFINE P == Nat \X S
<1>1. <<0, base>> \in P
  OBVIOUS
<1>2. ASSUME NEW k \in 0 .. Len(q) - 1, NEW x, <<k, x>> \in P
      PROVE  <<k + 1, AddChunk(x, q[k + 1])>> \in P
  <2>1. x \in S
    BY <1>2
  <2>2. k + 1 \in Nat /\ q[k + 1] \in Packets
    BY SMT
  <2> QED
    BY <2>1, <2>2
<1> HIDE DEF P
<1>3. <<Len(q), FoldLeft(AddChunk, base, q)>> \in P
  BY <1>1, <1>2, FoldLeads
<1> QED
  BY <1>3 DEF P

Muxers == [on : BOOLEAN, first : {"none"} \cup Packets, config : 0 .. MaxConfigs]
Recorders ==
  [metadata : BOOLEAN, audioCodec : BOOLEAN, muxer : Muxers, description : 0 .. MaxConfigs,
   written : BOOLEAN, begun : BOOLEAN, buffer : Seq(Packets), mixed : BOOLEAN]

\* A muxer is given by its fields.
Muxer(t, f, c) == [on |-> t, first |-> f, config |-> c]

\* One that is on.
Active(f, c) == Muxer(TRUE, f, c)

AllAudio(b) == \A i \in 1 .. Len(b) : b[i] \in Audio
FromKey(b) == b # <<>> /\ b[1] = "key"

\* A recorder that has replayed what it kept: from the keyframe on, or none.
Started(r) ==
  IF FromKey(r.buffer)
  THEN [r EXCEPT !.muxer = Active("key", r.description),
                 !.written = TRUE, !.begun = TRUE]
  ELSE [r EXCEPT !.muxer = NewMuxer]

LEMMA MuxerFirst == \A t, f, c, g : [Muxer(t, f, c) EXCEPT !.first = g] = Muxer(t, g, c)
BY SMT DEF Muxer

LEMMA MuxerConfig == \A t, f, c, d : [Muxer(t, f, c) EXCEPT !.config = d] = Muxer(t, f, d)
BY SMT DEF Muxer

LEMMA MuxerOn == \A t, f, c, u : [Muxer(t, f, c) EXCEPT !.on = u] = Muxer(u, f, c)
BY SMT DEF Muxer

LEMMA ActiveFirst == \A f, c, g : [Active(f, c) EXCEPT !.first = g] = Active(g, c)
BY MuxerFirst DEF Active

LEMMA ActiveConfig == \A f, c, d : [Active(f, c) EXCEPT !.config = d] = Active(f, d)
BY MuxerConfig DEF Active

LEMMA ActiveNew == NewMuxer = Active("none", 0)
BY MuxerOn DEF NewMuxer, NoMuxer, Muxer, Active

LEMMA ActiveParts ==
  /\ \A f, c : Active(f, c).first = f
  /\ \A f, c : Active(f, c).config = c
  /\ \A f, c : Active(f, c).on
BY SMT DEF Active, Muxer

LEMMA Replayed ==
  ASSUME NEW r \in Recorders, ~r.written,
         FromKey(r.buffer) \/ (AllAudio(r.buffer) /\ ~r.begun)
  PROVE  StartRecorder(r) = Started(r)
<1> DEFINE q == r.buffer
           n == Len(q)
           base == [r EXCEPT !.muxer = NewMuxer]
           h == [i \in 0 .. n |-> IF FromKey(q) /\ i > 0 THEN Started(r) ELSE base]
<1>1. q \in Seq(Packets) /\ n \in Nat /\ 0 \in 0 .. n /\ n \in 0 .. n
  BY SMT DEF Recorders
<1>2. \A i \in 1 .. n : i \in Nat /\ i > 0 /\ i - 1 \in 0 .. n /\ i \in 0 .. n /\ q[i] \in Packets
  BY <1>1, SMT
<1>3. h[0] = base
  BY <1>1
<1>4. ASSUME FromKey(q), NEW p \in Packets
      PROVE  AddChunk(Started(r), p) = Started(r)
  <2> DEFINE x == Started(r)
             m == Active("key", r.description)
  <2>1. x \in Recorders /\ x.begun = TRUE /\ x.written = TRUE /\ x.muxer = m
    <3>1. x = [r EXCEPT !.muxer = m, !.written = TRUE, !.begun = TRUE]
      BY <1>4, Zenon DEF Started
    <3>2. m \in Muxers
      BY SMT DEF Active, Muxer, Muxers, Recorders, Packets
    <3> HIDE DEF x, m
    <3> QED
      BY <3>1, <3>2, Zenon DEF Recorders
  <2>2. /\ Muxed(m, p) = m
        /\ [m EXCEPT !.config = m.config] = m
    <3>1. m.first = "key" /\ m = [m EXCEPT !.first = "key"]
      BY ActiveParts, ActiveFirst
    <3>2. m = [m EXCEPT !.config = m.config]
      BY ActiveParts, ActiveConfig
    <3> HIDE DEF m
    <3> QED
      BY <3>1, <3>2, SMT DEF Muxed
  <2> HIDE DEF x, m
  <2>3. AddAudioChunk(x, p) = x
    <3>1. [x EXCEPT !.muxer = Muxed(x.muxer, p)] = x
      BY <2>1, <2>2, Zenon DEF Recorders
    <3> QED
      BY <3>1, Zenon DEF AddAudioChunk
  <2>4. AddVideoChunk(x, p) = x
    <3>1. AddVideoChunk(x, p) = [x EXCEPT !.begun = TRUE, !.muxer = m, !.written = TRUE]
      BY <2>1, <2>2, Zenon DEF AddVideoChunk
    <3>2. [x EXCEPT !.begun = TRUE, !.muxer = m, !.written = TRUE] = x
      BY <2>1, Zenon DEF Recorders
    <3> QED
      BY <3>1, <3>2
  <2> QED
    BY <2>3, <2>4 DEF AddChunk, x
<1>5. ASSUME FromKey(q)
      PROVE  AddChunk(base, "key") = Started(r)
  <2> DEFINE m == Active("key", r.description)
  <2>1. base.muxer = NewMuxer /\ ~base.written /\ base.description = r.description
    BY Zenon DEF Recorders
  <2>2. [Muxed(NewMuxer, "key") EXCEPT !.config = r.description] = m
    <3>1. NewMuxer = Active("none", 0)
      BY ActiveNew
    <3>2. Muxed(NewMuxer, "key") = Active("key", 0)
      BY <3>1, ActiveParts, ActiveFirst DEF Muxed
    <3> QED
      BY <3>2, ActiveConfig
  <2>3. AddVideoChunk(base, "key") = [base EXCEPT !.begun = TRUE, !.muxer = m, !.written = TRUE]
    <3> HIDE DEF base, m
    <3> QED
      BY <2>1, <2>2, Zenon DEF AddVideoChunk
  <2>4. [base EXCEPT !.begun = TRUE, !.muxer = m, !.written = TRUE] = Started(r)
    <3>1. Started(r) = [r EXCEPT !.muxer = m, !.written = TRUE, !.begun = TRUE]
      BY <1>5, Zenon DEF Started
    <3> HIDE DEF m
    <3> QED
      BY <3>1, Zenon DEF Recorders
  <2>5. "key" \notin Audio
    BY DEF Audio
  <2> HIDE DEF base
  <2> QED
    BY <2>3, <2>4, <2>5, Zenon DEF AddChunk
<1>6. ASSUME ~FromKey(q), NEW p \in Audio
      PROVE  AddChunk(base, p) = base
  BY <1>6, SMT DEF AddChunk, AddAudioChunk, Recorders
<1>7. ASSUME NEW i \in 1 .. n
      PROVE  h[i] = AddChunk(h[i - 1], q[i])
  <2>1. CASE FromKey(q) /\ i = 1
    <3>1. h[i] = Started(r) /\ h[i - 1] = base /\ q[i] = "key"
      BY <1>2, <2>1, SMT DEF FromKey
    <3> QED
      BY <1>5, <2>1, <3>1
  <2>2. CASE FromKey(q) /\ i # 1
    <3>1. h[i] = Started(r) /\ h[i - 1] = Started(r)
      BY <1>2, <2>2, SMT
    <3> QED
      BY <1>2, <1>4, <2>2, <3>1
  <2>3. CASE ~FromKey(q)
    <3>1. h[i] = base /\ h[i - 1] = base /\ q[i] \in Audio
      BY <1>2, <2>3 DEF AllAudio
    <3> QED
      BY <1>6, <2>3, <3>1
  <2> QED
    BY <2>1, <2>2, <2>3
<1>8. h[n] = Started(r)
  <2>1. CASE FromKey(q)
    <3>1. n > 0
      BY <1>1, <2>1, SMT DEF FromKey
    <3> QED
      BY <1>1, <2>1, <3>1
  <2>2. CASE ~FromKey(q)
    BY <1>1, <2>2 DEF Started
  <2> QED
    BY <2>1, <2>2
<1> HIDE DEF h, base, q
<1>9. FoldLeft(AddChunk, base, q) = h[Len(q)]
  BY <1>1, <1>3, <1>7, FoldSteps
<1> QED
  BY <1>8, <1>9 DEF StartRecorder, base, q

-----------------------------------------------------------------------------
(* The session                                                             *)

\* Where start() waits before it enters a session.
Starting == {"fetch", "push", "launch", "save", "screen"}

SessionTyped ==
  /\ stage \in Stages /\ target \in 0 .. MaxConnections
  /\ connecting \in BOOLEAN /\ running \in BOOLEAN
  /\ client \in 0 .. MaxServers /\ decoder \in 0 .. MaxServers
  /\ audioPlayer \in 0 .. MaxServers
  /\ servers \in [Servers -> [state : {"new", "alive", "exited"}, conn : 0 .. MaxConnections]]
  /\ exitWatched \subseteq Servers /\ stops \subseteq Servers
  /\ video \in [Servers -> {"off", "waiting", "configuration", "key", "any"}]
  /\ audio \in [Servers -> {"off", "waiting", "on"}]
  /\ recorderOf \in 0 .. MaxServers

\* A server is launched before its settings are saved.
ServerThere == stage \in {"save", "screen"} => Launched # {}

\* A session that runs ends with its server; one that is about to run does too,
\* unless the server exited already and turning the screen off must fail.
ExitSeen ==
  /\ running => client \in exitWatched
  /\ stage = "screen" /\ servers[Current].state = "alive" => Current \in exitWatched

SessionInv ==
  /\ SessionTyped
  /\ OneStart
  /\ PictureAlive
  /\ RecordingOwned
  /\ stage \in Starting => ~running
  /\ ServerThere
  /\ ExitSeen

\* The server that was launched last.
LEMMA LastLaunched == Launched # {} => Current \in Launched
<1> DEFINE n == MaxServers
           S == {k \in 0 .. n : \A s \in Launched : s <= n - k}
<1>1. SUFFICES ASSUME Launched # {} PROVE \E s \in Launched : \A t \in Launched : t <= s
  BY DEF Current
<1>2. n \in Nat /\ Launched \subseteq 1 .. n
  BY MaxServersAssumption DEF Launched, Servers
<1> DEFINE T == Launched
<1> HIDE DEF T
<1>3. SUFFICES ASSUME \A s \in T : \E t \in T : ~(t <= s) PROVE FALSE
  BY DEF T
<1>4. T # {} /\ T \subseteq 1 .. n
  BY <1>1, <1>2 DEF T
<1>5. 0 \in S
  BY <1>2, <1>4, SMT DEF T
<1>6. ASSUME NEW k \in 0 .. n - 1, k \in S
      PROVE  k + 1 \in S
  <2>1. \A s \in T : s <= n - k
    BY <1>6 DEF T
  <2>2. n - k \notin T
    BY <1>3, <2>1
  <2>3. \A s \in T : s <= n - (k + 1)
    BY <1>2, <1>4, <2>1, <2>2, SMT
  <2> QED
    BY <1>2, <2>3, SMT DEF T
<1>7. n \in 0 .. n
  BY <1>2, SMT
<1> HIDE DEF S
<1>8. n \in S
  BY <1>2, <1>5, <1>6, <1>7, Counting
<1>9. \A s \in T : s <= n - n
  BY <1>8 DEF S, T
<1>10. PICK s : s \in T
  BY <1>4
<1>11. s \in 1 .. n /\ s <= n - n
  BY <1>4, <1>9, <1>10
<1> HIDE DEF n
<1> QED
  BY <1>2, <1>11, SMT

LEMMA CurrentServer == Launched # {} => Current \in Servers
BY LastLaunched DEF Launched

\* dispose() ends the session that the page shows.
LEMMA DisposeEnds ==
  ASSUME MirrorDispose
  PROVE  client' = 0 /\ running' = FALSE /\ recording' = FALSE /\ decoder' = 0 /\ audioPlayer' = 0
BY DEF MirrorDispose, RecordDispose, RecordStop, recordVars

\* A step that leaves the session alone, but for a recording that stops.
LEMMA SessionAlone ==
  ASSUME SessionInv, UNCHANGED sessionVars, recording' => recording \/ running
  PROVE  SessionInv'
BY DEF SessionInv, SessionTyped, OneStart, PictureAlive, RecordingOwned, ServerThere, ExitSeen,
   Current, Launched, sessionVars

LEMMA StartKeepsSession ==
  ASSUME SessionInv, Start \/ StartFails
  PROVE  SessionInv'
<1>1. CASE Start
  BY <1>1 DEF Start, startRest, recordVars, showVars, SessionInv, SessionTyped,
     OneStart, PictureAlive, RecordingOwned, ServerThere,
     ExitSeen, Current, Launched, Starting, Stages
<1>2. CASE StartFails
  BY <1>2 DEF StartFails, startRest, recordVars, showVars, SessionInv, SessionTyped,
     OneStart, PictureAlive, RecordingOwned,
     ServerThere, ExitSeen, Current, Launched, Starting, Stages
<1> QED
  BY <1>1, <1>2

LEMMA AdvanceKeepsSession ==
  ASSUME SessionInv, SlotTypeOK, ServerFetched \/ ServerPushed
  PROVE  SessionInv'
<1>1. CASE ServerFetched
  BY <1>1 DEF ServerFetched, startRest, recordVars, showVars, SessionInv,
     SessionTyped, OneStart, PictureAlive,
     RecordingOwned, ServerThere, ExitSeen, Current, Launched, Starting, Stages, SlotTypeOK
<1>2. CASE ServerPushed
  BY <1>2 DEF ServerPushed, startRest, recordVars, showVars, SessionInv,
     SessionTyped, OneStart, PictureAlive,
     RecordingOwned, ServerThere, ExitSeen, Current, Launched, Starting, Stages, SlotTypeOK
<1> QED
  BY <1>1, <1>2

LEMMA LaunchKeepsSession ==
  ASSUME SessionInv, SlotTypeOK, ServerLaunched
  PROVE  SessionInv'
<1>1. PICK s \in Servers :
        /\ servers[s].state = "new"
        /\ servers' = [servers EXCEPT ![s] = [state |-> "alive", conn |-> target]]
  BY DEF ServerLaunched, Fresh
<1>2. /\ stage = "launch" /\ stage' = "save" /\ target' = adb /\ ~running
      /\ UNCHANGED <<connecting, running, client, exitWatched, stops, decoder, audioPlayer, video,
                     audio, recorderOf, recording>>
  BY DEF ServerLaunched, startRest, recordVars, SessionInv, Starting
<1>3. servers'[s].state = "alive"
  BY <1>1 DEF SessionInv, SessionTyped
<1>4. SessionTyped'
  BY <1>1, <1>2 DEF SessionInv, SessionTyped, Stages, SlotTypeOK
<1>5. ServerThere'
  BY <1>1, <1>3 DEF ServerThere, Launched
<1> QED
  BY <1>2, <1>4, <1>5, MaxServersAssumption DEF SessionInv, OneStart, PictureAlive,
     RecordingOwned,
     ExitSeen

LEMMA EnterStage ==
  ASSUME EnterSession, SlotTypeOK, Current \in Servers, connecting, connecting \in BOOLEAN,
         target \in 0 .. MaxConnections
  PROVE  /\ client' = Current /\ running' = TRUE /\ client' # 0
         /\ stage' \in {"register", "idle"} /\ target' \in 0 .. MaxConnections
         /\ connecting' \in BOOLEAN /\ (connecting' <=> stage' # "idle")
<1>1. client' = Current /\ running' = TRUE
  BY DEF EnterSession
<1>2. Current # 0
  BY SMT DEF Servers
<1>3. CASE adb # 0 /\ stage' = "register" /\ target' = adb /\ UNCHANGED <<connecting, keyboardVars>>
  BY <1>1, <1>2, <1>3, Zenon DEF SlotTypeOK
<1>4. CASE stage' = "idle" /\ connecting' = FALSE /\ Attached("scrcpy") /\ UNCHANGED target
  BY <1>1, <1>2, <1>4, Zenon
<1> QED
  BY <1>3, <1>4 DEF EnterSession

LEMMA SaveKeepsSession ==
  ASSUME SessionInv, SlotTypeOK, SettingsSaved
  PROVE  SessionInv'
<1>1. /\ stage = "save" /\ ~running /\ client = 0 /\ ~recording /\ Launched # {}
      /\ Current \in Servers /\ connecting
  BY CurrentServer DEF SettingsSaved, SessionInv, Starting, PictureAlive,
     RecordingOwned, ServerThere,
     OneStart
<1>2. /\ servers' = servers /\ stops' = stops /\ Current' = Current /\ Launched' = Launched
      /\ recorderOf' = Current /\ ~recording'
      /\ video' = [video EXCEPT ![Current] = "waiting"]
      /\ audio' = [audio EXCEPT ![Current] = "waiting"]
  BY <1>1 DEF SettingsSaved, Current, Launched, SessionInv, RecordingOwned
<1>3. /\ video' \in [Servers -> {"off", "waiting", "configuration", "key", "any"}]
      /\ audio' \in [Servers -> {"off", "waiting", "on"}]
      /\ recorderOf' \in 0 .. MaxServers
  BY <1>1, <1>2, MaxServersAssumption DEF SessionInv, SessionTyped, Servers
<1>4. CASE servers[Current].state = "alive"
  <2>1. exitWatched' = exitWatched \cup {Current} /\ UNCHANGED <<decoder, audioPlayer>>
    BY <1>4 DEF SettingsSaved
  <2>2. CASE EnterSession
    <3>1. /\ client' = Current /\ running' = TRUE /\ client' # 0
          /\ stage' \in {"register", "idle"} /\ target' \in 0 .. MaxConnections
          /\ connecting' \in BOOLEAN /\ (connecting' <=> stage' # "idle")
      BY <1>1, <2>2, EnterStage DEF SessionInv, SessionTyped
    <3>2. SessionTyped'
      BY <1>1, <1>2, <1>3, <2>1, <3>1 DEF SessionInv, SessionTyped, Servers, Stages
    <3> QED
      BY <1>1, <1>2, <1>4, <2>1, <3>1, <3>2 DEF SessionInv, OneStart, PictureAlive,
         RecordingOwned, ServerThere, ExitSeen, Starting
  <2>3. CASE stage' = "screen" /\ UNCHANGED <<client, running, target, connecting, keyboardVars>>
    BY <1>1, <1>2, <1>3, <1>4, <2>1, <2>3 DEF SessionInv, SessionTyped, OneStart, PictureAlive,
       RecordingOwned, ServerThere, ExitSeen, Starting, Stages
  <2> QED
    BY <1>4, <2>2, <2>3 DEF SettingsSaved
<1>5. CASE servers[Current].state # "alive"
  <2>1. /\ decoder' = 0 /\ audioPlayer' = 0 /\ client' = 0 /\ running' = FALSE
        /\ exitWatched' = exitWatched /\ target' \in 0 .. MaxConnections
        /\ connecting' \in BOOLEAN /\ (connecting' <=> stage' # "idle")
        /\ stage' \in {"register", "idle", "screen"}
    BY <1>1, <1>5 DEF SettingsSaved, SlotTypeOK, SessionInv, SessionTyped
  <2>2. SessionTyped'
    BY <1>1, <1>2, <1>3, <2>1, MaxServersAssumption DEF SessionInv, SessionTyped, Stages
  <2> QED
    BY <1>1, <1>2, <1>5, <2>1, <2>2 DEF SessionInv, OneStart, PictureAlive, RecordingOwned,
       ServerThere, ExitSeen, Starting
<1> QED
  BY <1>4, <1>5

LEMMA ScreenOffKeepsSession ==
  ASSUME SessionInv, SlotTypeOK, ScreenOff
  PROVE  SessionInv'
<1>1. /\ stage = "screen" /\ ~running /\ ~recording /\ Launched # {} /\ Current \in Servers
      /\ connecting /\ servers[Current].state = "alive" /\ Current \in exitWatched
  BY CurrentServer DEF ScreenOff, SessionInv, Starting, RecordingOwned, ServerThere, ExitSeen,
     OneStart
<1>2. /\ UNCHANGED <<servers, exitWatched, stops, decoder, audioPlayer, video, audio, recorderOf>>
      /\ Current' = Current /\ Launched' = Launched /\ recording' = recording
  BY DEF ScreenOff, Current, Launched, recordVars
<1>3. /\ client' = Current /\ running' = TRUE /\ client' # 0
      /\ stage' \in {"register", "idle"} /\ target' \in 0 .. MaxConnections
      /\ connecting' \in BOOLEAN /\ (connecting' <=> stage' # "idle")
  BY <1>1, EnterStage DEF ScreenOff, SessionInv, SessionTyped
<1>4. SessionTyped'
  BY <1>1, <1>2, <1>3 DEF SessionInv, SessionTyped, Servers, Stages
<1> QED
  BY <1>1, <1>2, <1>3, <1>4 DEF SessionInv, OneStart, PictureAlive, RecordingOwned,
     ServerThere,
     ExitSeen, Starting

LEMMA RegisterKeepsSession ==
  ASSUME SessionInv, KeyboardRegistered
  PROVE  SessionInv'
BY DEF KeyboardRegistered, recordVars, SessionInv, SessionTyped, OneStart, PictureAlive,
   RecordingOwned, ServerThere, ExitSeen, Current, Launched, Starting, Stages

LEMMA StreamsKeepSession ==
  ASSUME SessionInv, NEW s \in Servers, VideoStarts(s) \/ AudioStarts(s) \/ VideoPacket(s)
  PROVE  SessionInv'
<1>1. UNCHANGED <<stage, target, connecting, running, client, servers, exitWatched, stops,
                  recorderOf, recording>>
  BY DEF VideoStarts, AudioStarts, VideoPacket, streamRest
<1>2. s \in 0 .. MaxServers
  BY MaxServersAssumption DEF Servers
<1>3. decoder' \in {decoder, s} /\ audioPlayer' \in {audioPlayer, s}
  BY DEF VideoStarts, AudioStarts, VideoPacket
<1>4. video' \in [Servers -> {"off", "waiting", "configuration", "key", "any"}]
  BY DEF VideoStarts, AudioStarts, VideoPacket, SessionInv, SessionTyped
<1>5. audio' \in [Servers -> {"off", "waiting", "on"}]
  BY DEF VideoStarts, AudioStarts, VideoPacket, SessionInv, SessionTyped
<1>6. SessionTyped'
  BY <1>1, <1>2, <1>3, <1>4, <1>5 DEF SessionInv, SessionTyped
<1> QED
  BY <1>1, <1>6 DEF SessionInv, OneStart, PictureAlive, RecordingOwned, ServerThere,
     ExitSeen, Current, Launched, Starting

LEMMA StopKeepsSession ==
  ASSUME SessionInv, Stop \/ DeviceStep
  PROVE  SessionInv'
<1>1. CASE Stop
  <2>1. client \in Servers
    BY <1>1, MaxServersAssumption DEF Stop, SessionInv, SessionTyped, PictureAlive, Servers
  <2> QED
    BY <1>1, <2>1 DEF Stop, recordVars, SessionInv, SessionTyped, OneStart, PictureAlive,
       RecordingOwned, ServerThere, ExitSeen, Current, Launched, Starting
<1>2. CASE DeviceStep
  <2>1. UNCHANGED <<stage, target, connecting, servers, exitWatched, stops, video, audio, recorderOf>>
    BY <1>2 DEF DeviceStep, disposeRest
  <2>2. CASE adb # 0 /\ adb' = 0
    <3>1. client' = 0 /\ running' = FALSE /\ recording' = FALSE /\ decoder' = 0 /\ audioPlayer' = 0
      BY <1>2, <2>2, DisposeEnds DEF DeviceStep
    <3>2. SessionTyped'
      <4>1. 0 \in 0 .. MaxServers
        BY MaxServersAssumption, SMT
      <4> QED
        BY <2>1, <3>1, <4>1, Zenon DEF SessionInv, SessionTyped
    <3> QED
      BY <2>1, <3>1, <3>2 DEF SessionInv, OneStart, PictureAlive, RecordingOwned, ServerThere,
         ExitSeen, Current, Launched, Starting
  <2>3. CASE ~(adb # 0 /\ adb' = 0)
    <3>1. UNCHANGED <<decoder, audioPlayer, client, running, recording>>
      BY <1>2, <2>3 DEF DeviceStep, recordVars
    <3> QED
      BY <2>1, <3>1 DEF SessionInv, SessionTyped, OneStart, PictureAlive,
         RecordingOwned, ServerThere, ExitSeen, Current, Launched, Starting
  <2> QED
    BY <2>2, <2>3
<1> QED
  BY <1>1, <1>2

LEMMA EndKeepsSession ==
  ASSUME SessionInv, NEW s \in Servers, Stopped(s) \/ Exit(s)
  PROVE  SessionInv'
<1>1. CASE Stopped(s)
  BY <1>1, DisposeEnds, MaxServersAssumption DEF Stopped, disposeRest, SessionInv,
     SessionTyped,
     OneStart, PictureAlive, RecordingOwned, ServerThere, ExitSeen, Current, Launched, Starting
<1>2. CASE Exit(s)
  <2>1. /\ servers[s].state = "alive"
        /\ servers' = [servers EXCEPT ![s].state = "exited"]
        /\ exitWatched' = exitWatched \ {s}
        /\ UNCHANGED <<stage, target, connecting, stops, video, audio, recorderOf>>
    BY <1>2 DEF Exit, disposeRest
  <2>2. /\ servers' \in [Servers -> [state : {"new", "alive", "exited"}, conn : 0 .. MaxConnections]]
        /\ \A t \in Servers : t # s => servers'[t] = servers[t]
        /\ servers'[s].state = "exited"
    BY <2>1 DEF SessionInv, SessionTyped
  <2>3. Launched' = Launched /\ Current' = Current
    BY <2>1, <2>2 DEF Launched, Current
  <2>4. CASE s \in exitWatched
    <3>1. client' = 0 /\ running' = FALSE /\ recording' = FALSE /\ decoder' = 0 /\ audioPlayer' = 0
      BY <1>2, <2>4, DisposeEnds DEF Exit
    <3>2. ExitSeen'
      <4>1. SUFFICES ASSUME stage = "screen", servers'[Current].state = "alive"
                     PROVE  Current \in exitWatched'
        BY <2>1, <2>3, <3>1 DEF ExitSeen
      <4>2. Current \in Servers
        BY <4>1, CurrentServer DEF SessionInv, ServerThere
      <4> QED
        BY <2>1, <2>2, <4>1, <4>2 DEF SessionInv, ExitSeen
    <3>3. SessionTyped'
      <4>1. 0 \in 0 .. MaxServers
        BY MaxServersAssumption, SMT
      <4> QED
        BY <2>1, <2>2, <3>1, <4>1, Zenon DEF SessionInv, SessionTyped
    <3> QED
      BY <2>1, <2>3, <3>1, <3>2, <3>3 DEF SessionInv, OneStart, PictureAlive, RecordingOwned,
         ServerThere, Starting
  <2>5. CASE s \notin exitWatched
    <3>1. UNCHANGED <<decoder, audioPlayer, client, running, recording>>
      BY <1>2, <2>5 DEF Exit, recordVars
    <3>2. ExitSeen'
      <4>1. ASSUME stage = "screen", servers'[Current].state = "alive"
            PROVE  Current \in exitWatched'
        <5>1. Current \in Servers
          BY <4>1, CurrentServer DEF SessionInv, ServerThere
        <5> QED
          BY <2>1, <2>2, <4>1, <5>1 DEF SessionInv, ExitSeen
      <4>2. running => client \in exitWatched'
        BY <2>1, <2>5 DEF SessionInv, ExitSeen
      <4> QED
        BY <2>1, <2>3, <3>1, <4>1, <4>2 DEF ExitSeen
    <3>3. PictureAlive'
      <4>1. running => client \in Servers /\ client # s
        BY <2>5 DEF SessionInv, SessionTyped, ExitSeen
      <4> QED
        BY <2>2, <3>1, <4>1 DEF SessionInv, PictureAlive
    <3> QED
      BY <2>1, <2>2, <2>3, <3>1, <3>2, <3>3 DEF SessionInv, SessionTyped, OneStart,
         RecordingOwned, ServerThere, Starting
  <2> QED
    BY <2>4, <2>5
<1> QED
  BY <1>1, <1>2

-----------------------------------------------------------------------------
(* The recorder                                                            *)

\* What the recorder r keeps when the video stream may deliver v next: audio
\* only, and nothing was recorded yet, or the packets since a keyframe, which
\* came after a configuration.
Buffered(r, v) ==
  /\ v \in {"key", "any"} => r.description # 0
  /\ \/ FromKey(r.buffer) /\ r.description # 0
     \/ AllAudio(r.buffer) /\ ~r.begun
  /\ v = "any" => FromKey(r.buffer)

\* What there is of a file.
Filed(r, v) ==
  /\ ~r.muxer.on => ~r.written
  /\ r.muxer.on =>
       /\ r.muxer.first \in {"none", "key"}
       /\ r.muxer.first = "none" => ~r.begun
       /\ r.muxer.first = "key" => r.muxer.config # 0
       /\ r.written => r.muxer.config = r.description
       /\ v = "any" => r.muxer.first = "key"

RecorderGood(r, v) == r \in Recorders /\ Buffered(r, v) /\ Filed(r, v)

LEMMA NewIsGood == RecorderGood(NewRecorder, "waiting") /\ ~NewRecorder.muxer.on
<1>1. NoMuxer \in Muxers /\ ~NoMuxer.on
  BY RecorderAssumption DEF NoMuxer, Muxers
<1>2. NewRecorder.buffer = <<>> /\ NewRecorder.description = 0 /\ ~NewRecorder.begun
      /\ ~NewRecorder.written /\ NewRecorder.muxer = NoMuxer
  BY DEF NewRecorder
<1>3. NewRecorder \in Recorders
  <2>1. <<>> \in Seq(Packets) /\ 0 \in 0 .. MaxConfigs
    BY RecorderAssumption
  <2> QED
    BY <1>1, <2>1, Zenon DEF NewRecorder, Recorders
<1>4. AllAudio(<<>>)
  BY DEF AllAudio
<1> QED
  BY <1>1, <1>2, <1>3, <1>4 DEF RecorderGood, Buffered, Filed

\* A muxer that was given a chunk p, and the configuration c for it.
LEMMA MuxedParts ==
  ASSUME NEW m \in Muxers, NEW p \in Packets, NEW c \in 0 .. MaxConfigs
  PROVE  /\ Muxed(m, p) \in Muxers
         /\ Muxed(m, p).on = m.on
         /\ Muxed(m, p).config = m.config
         /\ Muxed(m, p).first = IF m.first = "none" THEN p ELSE m.first
         /\ [Muxed(m, p) EXCEPT !.config = c] \in Muxers
         /\ [Muxed(m, p) EXCEPT !.config = c].on = m.on
         /\ [Muxed(m, p) EXCEPT !.config = c].config = c
         /\ [Muxed(m, p) EXCEPT !.config = c].first = IF m.first = "none" THEN p ELSE m.first
<1> DEFINE f == IF m.first = "none" THEN p ELSE m.first
           x == Muxed(m, p)
<1>1. f \in {"none"} \cup Packets
  BY Zenon DEF Muxers
<1>2. x = [m EXCEPT !.first = f]
  BY DEF Muxed
<1> HIDE DEF f, x
<1>3. x \in Muxers /\ x.on = m.on /\ x.config = m.config /\ x.first = f
  BY <1>1, <1>2, Zenon DEF Muxers
<1>4. /\ [x EXCEPT !.config = c] \in Muxers
      /\ [x EXCEPT !.config = c].on = x.on
      /\ [x EXCEPT !.config = c].config = c
      /\ [x EXCEPT !.config = c].first = x.first
  BY <1>3, Zenon DEF Muxers
<1> QED
  BY <1>3, <1>4 DEF f, x

LEMMA StartIsGood ==
  ASSUME NEW r, NEW v, RecorderGood(r, v), ~r.muxer.on
  PROVE  RecorderGood(StartRecorder(r), v) /\ StartRecorder(r).muxer.on
<1> DEFINE x == StartRecorder(r)
<1>1. x = Started(r)
  BY Replayed DEF RecorderGood, Buffered, Filed
<1>2. CASE FromKey(r.buffer)
  <2> DEFINE m == Active("key", r.description)
  <2>1. m \in Muxers /\ m.on /\ m.first = "key" /\ m.config = r.description
    BY SMT DEF Active, Muxer, Muxers, Packets, RecorderGood, Recorders
  <2>2. x = [r EXCEPT !.muxer = m, !.written = TRUE, !.begun = TRUE]
    BY <1>1, <1>2, Zenon DEF Started
  <2> HIDE DEF m, x
  <2>3. x \in Recorders
    BY <2>1, <2>2, Zenon DEF RecorderGood, Recorders
  <2>4. x.muxer = m /\ x.description = r.description /\ x.buffer = r.buffer /\ x.written
    BY <2>2, Zenon DEF RecorderGood, Recorders
  <2>5. r.description # 0
    <3>1. "key" \notin Audio
      BY DEF Audio
    <3> QED
      BY <1>2, <3>1 DEF RecorderGood, Buffered, FromKey, AllAudio, Recorders
  <2> QED
    BY <1>2, <2>1, <2>3, <2>4, <2>5 DEF RecorderGood, Buffered, Filed, x
<1>3. CASE ~FromKey(r.buffer)
  <2>1. NewMuxer \in Muxers /\ NewMuxer.on /\ NewMuxer.first = "none"
    <3>1. Active("none", 0) \in Muxers
      BY RecorderAssumption, SMT DEF Active, Muxer, Muxers
    <3> QED
      BY <3>1, ActiveNew, ActiveParts
  <2>2. x = [r EXCEPT !.muxer = NewMuxer]
    BY <1>1, <1>3 DEF Started
  <2> HIDE DEF x
  <2>3. x \in Recorders
    BY <2>1, <2>2, Zenon DEF RecorderGood, Recorders
  <2>4. x.muxer = NewMuxer /\ x.description = r.description /\ x.buffer = r.buffer
        /\ x.written = r.written /\ x.begun = r.begun
    BY <2>2, Zenon DEF RecorderGood, Recorders
  <2> QED
    BY <1>3, <2>1, <2>3, <2>4 DEF RecorderGood, Buffered, Filed, x
<1> QED
  BY <1>2, <1>3

LEMMA StopIsGood ==
  ASSUME NEW r, NEW v, RecorderGood(r, v)
  PROVE  RecorderGood(StopRecorder(r), v) /\ ~StopRecorder(r).muxer.on
<1> DEFINE x == StopRecorder(r)
<1>1. CASE ~r.muxer.on
  BY <1>1 DEF StopRecorder
<1>2. CASE r.muxer.on
  <2>1. NoMuxer \in Muxers /\ ~NoMuxer.on
    BY RecorderAssumption DEF NoMuxer, Muxers
  <2>2. x = [r EXCEPT !.muxer = NoMuxer, !.written = FALSE]
    BY <1>2, Zenon DEF StopRecorder
  <2> HIDE DEF x
  <2>3. x \in Recorders
    BY <2>1, <2>2, Zenon DEF RecorderGood, Recorders
  <2>4. x.muxer = NoMuxer /\ x.description = r.description /\ x.buffer = r.buffer
        /\ ~x.written /\ x.begun = r.begun
    BY <2>2, Zenon DEF RecorderGood, Recorders
  <2> QED
    BY <2>1, <2>3, <2>4 DEF RecorderGood, Buffered, Filed, x
<1> QED
  BY <1>1, <1>2

\* Fields that say nothing of what is kept or of the file.
LEMMA NamedIsGood ==
  ASSUME NEW r, NEW v, RecorderGood(r, v)
  PROVE  /\ RecorderGood([r EXCEPT !.audioCodec = TRUE], v)
         /\ [r EXCEPT !.audioCodec = TRUE].muxer.on = r.muxer.on
         /\ v = "waiting" => RecorderGood([r EXCEPT !.metadata = TRUE], "configuration")
         /\ [r EXCEPT !.metadata = TRUE].muxer.on = r.muxer.on
<1> DEFINE x == [r EXCEPT !.audioCodec = TRUE]
           y == [r EXCEPT !.metadata = TRUE]
<1>1. /\ x \in Recorders /\ x.muxer = r.muxer /\ x.description = r.description
      /\ x.buffer = r.buffer /\ x.written = r.written /\ x.begun = r.begun
  BY Zenon DEF RecorderGood, Recorders
<1>2. /\ y \in Recorders /\ y.muxer = r.muxer /\ y.description = r.description
      /\ y.buffer = r.buffer /\ y.written = r.written /\ y.begun = r.begun
  BY Zenon DEF RecorderGood, Recorders
<1> HIDE DEF x, y
<1>3. RecorderGood(x, v)
  BY <1>1 DEF RecorderGood, Buffered, Filed
<1>4. v = "waiting" => RecorderGood(y, "configuration")
  BY <1>2 DEF RecorderGood, Buffered, Filed
<1> QED
  BY <1>1, <1>2, <1>3, <1>4 DEF x, y

LEMMA ConfigurationIsGood ==
  ASSUME NEW r, NEW v \in {"configuration", "any"}, RecorderGood(r, v), r.description < MaxConfigs
  PROVE  /\ RecorderGood(AddConfiguration(r, r.description + 1), "key")
         /\ AddConfiguration(r, r.description + 1).muxer.on = r.muxer.on
<1> DEFINE d == r.description + 1
           x == AddConfiguration(r, d)
<1>1. d \in 0 .. MaxConfigs /\ d # 0
  BY RecorderAssumption, SMT DEF RecorderGood, Recorders
<1>2. x = [r EXCEPT !.description = d, !.written = FALSE]
  BY DEF AddConfiguration
<1> HIDE DEF d, x
<1>3. /\ x \in Recorders /\ x.muxer = r.muxer /\ x.description = d
      /\ x.buffer = r.buffer /\ ~x.written /\ x.begun = r.begun
  BY <1>1, <1>2, Zenon DEF RecorderGood, Recorders
<1>4. RecorderGood(x, "key")
  BY <1>1, <1>3 DEF RecorderGood, Buffered, Filed
<1> QED
  BY <1>3, <1>4 DEF d, x

\* A packet that is kept after the others.
LEMMA BufferParts ==
  ASSUME NEW b \in Seq(Packets), NEW p \in Packets
  PROVE  /\ Append(b, p) \in Seq(Packets)
         /\ FromKey(b) => FromKey(Append(b, p))
         /\ AllAudio(b) /\ p \in Audio => AllAudio(Append(b, p))
         /\ FromKey(Append(<<>>, "key")) /\ Append(<<>>, "key") \in Seq(Packets)
<1>1. Append(b, p) \in Seq(Packets) /\ (FromKey(b) => FromKey(Append(b, p)))
  BY SMT DEF FromKey
<1>2. AllAudio(b) /\ p \in Audio => AllAudio(Append(b, p))
  BY SMT DEF AllAudio
<1>3. FromKey(Append(<<>>, "key")) /\ Append(<<>>, "key") \in Seq(Packets)
  <2>1. <<>> \in Seq(Packets) /\ "key" \in Packets
    BY DEF Packets
  <2> QED
    BY <2>1, SMT DEF FromKey
<1> QED
  BY <1>1, <1>2, <1>3

LEMMA VideoIsGood ==
  ASSUME NEW r, NEW v, RecorderGood(r, v), NEW p \in {"key", "delta"},
         p = "key" => v \in {"key", "any"}, p = "delta" => v = "any"
  PROVE  /\ RecorderGood(AddVideoPacket(r, p), "any")
         /\ AddVideoPacket(r, p).muxer.on = r.muxer.on
<1> DEFINE b == Append(IF p = "key" THEN <<>> ELSE r.buffer, p)
           k == [r EXCEPT !.buffer = b]
           x == AddVideoPacket(r, p)
<1>1. p \in Packets /\ r.buffer \in Seq(Packets) /\ r.muxer \in Muxers
      /\ r.description \in 0 .. MaxConfigs /\ r.description # 0 /\ r.written \in BOOLEAN
      /\ r.muxer.config \in 0 .. MaxConfigs
  BY DEF RecorderGood, Buffered, Recorders, Muxers, Packets
<1>2. b \in Seq(Packets) /\ FromKey(b)
  BY <1>1, BufferParts DEF RecorderGood, Buffered
<1>3. x = IF r.muxer.on THEN AddVideoChunk(k, p) ELSE k
  BY Zenon DEF AddVideoPacket
<1> HIDE DEF b, x
<1>4. /\ k \in Recorders /\ k.muxer = r.muxer /\ k.description = r.description
      /\ k.buffer = b /\ k.written = r.written /\ k.begun = r.begun
  BY <1>2, Zenon DEF RecorderGood, Recorders
<1> HIDE DEF k
<1>5. CASE ~r.muxer.on
  BY <1>1, <1>2, <1>3, <1>4, <1>5 DEF RecorderGood, Buffered, Filed, x
<1>6. CASE r.muxer.on
  <2> DEFINE c == IF r.written THEN r.muxer.config ELSE r.description
             m == [Muxed(r.muxer, p) EXCEPT !.config = c]
  <2>1. c \in 0 .. MaxConfigs /\ c = r.description
    BY <1>1, <1>6 DEF RecorderGood, Filed
  <2>2. Muxed(r.muxer, p).config = r.muxer.config
    BY <1>1, <2>1, MuxedParts
  <2> HIDE DEF c
  <2>3. m \in Muxers /\ m.on = r.muxer.on /\ m.config = c
        /\ m.first = IF r.muxer.first = "none" THEN p ELSE r.muxer.first
    BY <1>1, <2>1, MuxedParts
  <2>4. x = [k EXCEPT !.begun = TRUE, !.muxer = m, !.written = TRUE]
    BY <1>3, <1>4, <1>6, <2>2, Zenon DEF AddVideoChunk, c
  <2> HIDE DEF m
  <2>5. /\ x \in Recorders /\ x.muxer = m /\ x.description = r.description
        /\ x.buffer = b /\ x.written /\ x.begun
    BY <1>4, <2>3, <2>4, Zenon DEF Recorders
  <2>6. m.first = "key"
    BY <1>6, <2>3 DEF RecorderGood, Filed
  <2>7. Filed(x, "any")
    BY <1>1, <1>6, <2>1, <2>3, <2>5, <2>6 DEF Filed
  <2>8. Buffered(x, "any")
    BY <1>1, <1>2, <2>5 DEF Buffered
  <2> QED
    BY <2>3, <2>5, <2>7, <2>8 DEF RecorderGood, x
<1> QED
  BY <1>5, <1>6

LEMMA AudioIsGood ==
  ASSUME NEW r, NEW v, RecorderGood(r, v), NEW p \in Audio
  PROVE  /\ RecorderGood(AddAudioPacket(r, p), v)
         /\ AddAudioPacket(r, p).muxer.on = r.muxer.on
<1> DEFINE b == Append(r.buffer, p)
           k == [r EXCEPT !.buffer = b]
           x == AddAudioPacket(r, p)
<1>1. p \in Packets /\ r.buffer \in Seq(Packets) /\ r.muxer \in Muxers
  BY DEF RecorderGood, Recorders, Packets
<1>2. /\ b \in Seq(Packets)
      /\ FromKey(r.buffer) => FromKey(b)
      /\ AllAudio(r.buffer) => AllAudio(b)
  BY <1>1, BufferParts
<1>3. x = AddAudioChunk(k, p)
  BY Zenon DEF AddAudioPacket
<1> HIDE DEF b, x
<1>4. /\ k \in Recorders /\ k.muxer = r.muxer /\ k.description = r.description
      /\ k.buffer = b /\ k.written = r.written /\ k.begun = r.begun
  BY <1>2, Zenon DEF RecorderGood, Recorders
<1> HIDE DEF k
<1>5. CASE x = k
  BY <1>2, <1>4, <1>5 DEF RecorderGood, Buffered, Filed, x
<1>6. CASE r.begun /\ r.muxer.on /\ x = [k EXCEPT !.muxer = Muxed(k.muxer, p)]
  <2> DEFINE m == Muxed(r.muxer, p)
  <2>1. r.muxer.config \in 0 .. MaxConfigs
    BY <1>1 DEF Muxers
  <2>2. r.muxer.first = "key"
    BY <1>6 DEF RecorderGood, Filed
  <2>3. m \in Muxers /\ m.on = r.muxer.on /\ m.config = r.muxer.config /\ m.first = "key"
    BY <1>1, <2>1, <2>2, MuxedParts
  <2>4. x = [k EXCEPT !.muxer = m]
    BY <1>4, <1>6
  <2> HIDE DEF m
  <2>5. /\ x \in Recorders /\ x.muxer = m /\ x.description = r.description
        /\ x.buffer = b /\ x.written = r.written /\ x.begun = r.begun
    BY <1>4, <2>3, <2>4, Zenon DEF Recorders
  <2> QED
    BY <1>2, <1>6, <2>2, <2>3, <2>5 DEF RecorderGood, Buffered, Filed, x
<1> QED
  BY <1>3, <1>4, <1>5, <1>6, Zenon DEF AddAudioChunk

LEMMA OffIsGood ==
  ASSUME NEW r, NEW v, RecorderGood(r, v)
  PROVE  RecorderGood(r, "off")
BY DEF RecorderGood, Buffered, Filed

\* What holds of a recorder whoever reached it: what it has written of a file
\* is read with the last configuration.
Whole(r) == r \in Recorders /\ (r.written => r.muxer.on /\ r.muxer.config = r.description)

\* A recorder y is as whole as r, with the same file and the same past.
WholeAs(y, r) == Whole(y) /\ y.muxer.on = r.muxer.on /\ y.mixed = r.mixed

LEMMA NamedIsWhole ==
  ASSUME NEW r, Whole(r)
  PROVE  WholeAs([r EXCEPT !.audioCodec = TRUE], r) /\ WholeAs([r EXCEPT !.metadata = TRUE], r)
<1> DEFINE x == [r EXCEPT !.audioCodec = TRUE]
           y == [r EXCEPT !.metadata = TRUE]
<1>1. x \in Recorders /\ x.muxer = r.muxer /\ x.description = r.description
      /\ x.written = r.written /\ x.mixed = r.mixed
  BY Zenon DEF Whole, Recorders
<1>2. y \in Recorders /\ y.muxer = r.muxer /\ y.description = r.description
      /\ y.written = r.written /\ y.mixed = r.mixed
  BY Zenon DEF Whole, Recorders
<1> HIDE DEF x, y
<1>3. WholeAs(x, r)
  BY <1>1 DEF Whole, WholeAs
<1>4. WholeAs(y, r)
  BY <1>2 DEF Whole, WholeAs
<1> QED
  BY <1>3, <1>4 DEF x, y

LEMMA ConfigurationIsWhole ==
  ASSUME NEW r, Whole(r), r.description < MaxConfigs
  PROVE  WholeAs(AddConfiguration(r, r.description + 1), r)
<1> DEFINE d == r.description + 1
           x == AddConfiguration(r, d)
<1>1. d \in 0 .. MaxConfigs
  BY RecorderAssumption, SMT DEF Whole, Recorders
<1>2. x = [r EXCEPT !.description = d, !.written = FALSE]
  BY DEF AddConfiguration
<1> HIDE DEF d, x
<1>3. x \in Recorders /\ x.muxer = r.muxer /\ ~x.written /\ x.mixed = r.mixed
  BY <1>1, <1>2, Zenon DEF Whole, Recorders
<1> QED
  BY <1>3 DEF Whole, WholeAs, d, x

LEMMA ChunkIsWhole ==
  ASSUME NEW r, Whole(r), r.muxer.on, NEW p \in Packets
  PROVE  WholeAs(AddVideoChunk(r, p), r) /\ WholeAs(AddAudioChunk(r, p), r)
<1> DEFINE c == IF r.written THEN r.muxer.config ELSE r.description
           a == Muxed(r.muxer, p)
           m == [a EXCEPT !.config = c]
           x == AddVideoChunk(r, p)
           y == AddAudioChunk(r, p)
<1>1. r \in Recorders /\ r.muxer \in Muxers /\ r.description \in 0 .. MaxConfigs
      /\ r.muxer.config \in 0 .. MaxConfigs
  BY DEF Whole, Recorders, Muxers
<1>2. c = r.description /\ c \in 0 .. MaxConfigs
  BY <1>1 DEF Whole
<1>3. a.config = r.muxer.config /\ a \in Muxers /\ a.on
  BY <1>1, MuxedParts
<1>4. x = [r EXCEPT !.begun = TRUE, !.muxer = m, !.written = TRUE]
  <2> HIDE DEF a
  <2> QED
    BY <1>3, Zenon DEF AddVideoChunk, a
<1>5. y = r \/ y = [r EXCEPT !.muxer = a]
  BY Zenon DEF AddAudioChunk
<1> HIDE DEF c
<1>6. m \in Muxers /\ m.on /\ m.config = c
  BY <1>1, <1>2, MuxedParts
<1> HIDE DEF a, m, x, y
<1>7. x \in Recorders /\ x.muxer = m /\ x.description = r.description /\ x.mixed = r.mixed
  BY <1>1, <1>4, <1>6, Zenon DEF Recorders
<1>8. WholeAs(x, r)
  BY <1>2, <1>6, <1>7 DEF Whole, WholeAs
<1>9. WholeAs(y, r)
  <2>1. CASE y = r
    BY <2>1 DEF WholeAs
  <2>2. CASE y = [r EXCEPT !.muxer = a]
    <3>1. y \in Recorders /\ y.muxer = a /\ y.description = r.description
          /\ y.written = r.written /\ y.mixed = r.mixed
      BY <1>1, <1>3, <2>2, Zenon DEF Recorders
    <3> QED
      BY <1>3, <3>1 DEF Whole, WholeAs
  <2> QED
    BY <1>5, <2>1, <2>2
<1> QED
  BY <1>8, <1>9 DEF x, y

LEMMA PacketIsWhole ==
  ASSUME NEW r, Whole(r), NEW p \in Packets
  PROVE  WholeAs(AddVideoPacket(r, p), r) /\ WholeAs(AddAudioPacket(r, p), r)
<1> DEFINE b == Append(IF p = "key" THEN <<>> ELSE r.buffer, p)
           k == [r EXCEPT !.buffer = b]
           d == Append(r.buffer, p)
           l == [r EXCEPT !.buffer = d]
<1>1. b \in Seq(Packets) /\ d \in Seq(Packets)
  <2>1. r.buffer \in Seq(Packets) /\ <<>> \in Seq(Packets)
    BY DEF Whole, Recorders
  <2> QED
    BY <2>1
<1>2. AddVideoPacket(r, p) = IF r.muxer.on THEN AddVideoChunk(k, p) ELSE k
  BY Zenon DEF AddVideoPacket
<1>3. AddAudioPacket(r, p) = AddAudioChunk(l, p)
  BY Zenon DEF AddAudioPacket
<1> HIDE DEF b, d
<1>4. k \in Recorders /\ k.muxer = r.muxer /\ k.description = r.description
      /\ k.written = r.written /\ k.mixed = r.mixed
  BY <1>1, Zenon DEF Whole, Recorders
<1>5. l \in Recorders /\ l.muxer = r.muxer /\ l.description = r.description
      /\ l.written = r.written /\ l.mixed = r.mixed
  BY <1>1, Zenon DEF Whole, Recorders
<1> HIDE DEF k, l
<1>6. WholeAs(k, r) /\ WholeAs(l, r)
  BY <1>4, <1>5 DEF Whole, WholeAs
<1>7. CASE r.muxer.on
  <2>1. WholeAs(AddVideoChunk(k, p), k) /\ WholeAs(AddAudioChunk(l, p), l)
    BY <1>6, <1>7, ChunkIsWhole DEF WholeAs
  <2>2. WholeAs(AddVideoChunk(k, p), r) /\ WholeAs(AddAudioChunk(l, p), r)
    BY <1>6, <2>1 DEF WholeAs
  <2> QED
    BY <1>2, <1>3, <1>7, <2>2
<1>8. CASE ~r.muxer.on
  <2>1. AddAudioChunk(l, p) = l
    BY <1>5, <1>8 DEF AddAudioChunk
  <2> QED
    BY <1>2, <1>3, <1>6, <1>8, <2>1
<1> QED
  BY <1>7, <1>8

LEMMA StartIsWhole ==
  ASSUME NEW r, Whole(r), ~r.muxer.on
  PROVE  Whole(StartRecorder(r)) /\ StartRecorder(r).muxer.on /\ StartRecorder(r).mixed = r.mixed
<1> DEFINE S == {x \in Recorders : Whole(x) /\ x.muxer.on /\ x.mixed = r.mixed}
           base == [r EXCEPT !.muxer = NewMuxer]
<1>1. base \in S
  <2>1. NewMuxer \in Muxers /\ NewMuxer.on
    <3>1. Active("none", 0) \in Muxers
      BY RecorderAssumption, SMT DEF Active, Muxer, Muxers
    <3> QED
      BY <3>1, ActiveNew, ActiveParts
  <2>2. base \in Recorders /\ base.muxer = NewMuxer /\ base.written = r.written
        /\ base.mixed = r.mixed
    BY <2>1, Zenon DEF Whole, Recorders
  <2> HIDE DEF base
  <2> QED
    BY <2>1, <2>2 DEF Whole
<1>2. ASSUME NEW x \in S, NEW p \in Packets
      PROVE  AddChunk(x, p) \in S
  BY <1>2, ChunkIsWhole DEF AddChunk, WholeAs, Whole
<1>3. r.buffer \in Seq(Packets)
  BY DEF Whole, Recorders
<1> HIDE DEF S
<1>4. FoldLeft(AddChunk, base, r.buffer) \in S
  BY <1>1, <1>2, <1>3, FoldStays
<1> QED
  BY <1>4 DEF StartRecorder, S

LEMMA StopIsWhole ==
  ASSUME NEW r, Whole(r)
  PROVE  Whole(StopRecorder(r)) /\ ~StopRecorder(r).muxer.on /\ StopRecorder(r).mixed = r.mixed
<1> DEFINE x == StopRecorder(r)
<1>1. CASE ~r.muxer.on
  BY <1>1 DEF StopRecorder
<1>2. CASE r.muxer.on
  <2>1. NoMuxer \in Muxers /\ ~NoMuxer.on
    BY RecorderAssumption DEF NoMuxer, Muxers
  <2>2. x = [r EXCEPT !.muxer = NoMuxer, !.written = FALSE]
    BY <1>2, Zenon DEF StopRecorder
  <2> HIDE DEF x
  <2>3. x \in Recorders /\ x.muxer = NoMuxer /\ ~x.written /\ x.mixed = r.mixed
    BY <2>1, <2>2, Zenon DEF Whole, Recorders
  <2> QED
    BY <2>1, <2>3 DEF Whole, x
<1> QED
  BY <1>1, <1>2

Clocks == [hours : 0 .. MaxHours, minutes : 0 .. Sixty - 1, seconds : 0 .. Sixty - 1]

\* The video stream of the server that the recorder was made for.
Own == IF recorderOf = 0 THEN "off" ELSE video[recorderOf]

RecorderInv ==
  /\ Whole(recorder)
  /\ ~recorder.mixed => RecorderGood(recorder, Own)
  /\ recording \in BOOLEAN /\ clock \in Clocks
  /\ RecordingShown

LEMMA ZeroIsClock == ZeroClock \in Clocks
BY RecorderAssumption DEF ZeroClock, Clocks

LEMMA DisposeKeepsRecorder ==
  ASSUME RecorderInv, RecordDispose \/ UNCHANGED recordVars, UNCHANGED <<video, recorderOf>>
  PROVE  RecorderInv'
<1>1. Own' = Own
  BY DEF Own
<1>2. CASE RecordStop
  BY <1>1, <1>2, StopIsGood, StopIsWhole, ZeroIsClock DEF RecordStop, RecorderInv, RecordingShown
<1>3. CASE UNCHANGED recordVars
  BY <1>1, <1>3 DEF recordVars, RecorderInv, RecordingShown
<1> QED
  BY <1>2, <1>3 DEF RecordDispose

LEMMA SaveKeepsRecorder ==
  ASSUME RecorderInv, SessionInv, SettingsSaved
  PROVE  RecorderInv'
<1>1. ~recording /\ clock = ZeroClock
  BY DEF SettingsSaved, SessionInv, Starting, RecordingOwned, RecorderInv, RecordingShown
<1>2. recorder' = NewRecorder /\ ~recording' /\ clock' = ZeroClock /\ recording' \in BOOLEAN
  BY <1>1 DEF SettingsSaved, RecorderInv
<1>3. Own' = "waiting"
  <2>1. Current \in Servers /\ Current # 0
    BY CurrentServer DEF SettingsSaved, SessionInv, ServerThere, Servers
  <2>2. recorderOf' = Current /\ video' = [video EXCEPT ![Current] = "waiting"]
    BY DEF SettingsSaved
  <2>3. DOMAIN video = Servers
    BY DEF SessionInv, SessionTyped
  <2> QED
    BY <2>1, <2>2, <2>3 DEF Own
<1>4. Whole(NewRecorder) /\ ~NewRecorder.written
  BY NewIsGood DEF RecorderGood, Filed, Whole
<1> QED
  BY <1>2, <1>3, <1>4, NewIsGood, ZeroIsClock DEF RecorderInv, RecordingShown

\* The recorder when something of the server s reaches it.
LEMMA ReachedParts ==
  ASSUME RecorderInv, NEW s \in Servers
  PROVE  /\ Whole(Reached(s))
         /\ Reached(s).muxer = recorder.muxer /\ Reached(s).description = recorder.description
         /\ ~Reached(s).mixed => s = recorderOf /\ RecorderGood(Reached(s), video[s])
<1> DEFINE r == Reached(s)
           m == recorder.mixed \/ s # recorderOf
<1>1. recorder \in Recorders /\ m \in BOOLEAN
  BY DEF RecorderInv, Whole, Recorders
<1>2. r = [recorder EXCEPT !.mixed = m]
  BY DEF Reached
<1> HIDE DEF m, r
<1>3. /\ r \in Recorders /\ r.muxer = recorder.muxer /\ r.description = recorder.description
      /\ r.written = recorder.written /\ r.mixed = m
  BY <1>1, <1>2, Zenon DEF Recorders
<1>4. ASSUME ~m PROVE s = recorderOf /\ RecorderGood(r, video[s])
  <2>1. s = recorderOf /\ ~recorder.mixed /\ s # 0
    BY <1>4 DEF m, Servers
  <2>2. r = recorder
    <3>1. recorder.mixed = m
      BY <1>1, <1>4, <2>1 DEF Recorders
    <3> QED
      BY <1>1, <1>2, <3>1, Zenon DEF Recorders
  <2> QED
    BY <2>1, <2>2 DEF RecorderInv, Own
<1> QED
  BY <1>3, <1>4 DEF RecorderInv, Whole, r

LEMMA StreamsKeepRecorder ==
  ASSUME RecorderInv, SessionTyped, NEW s \in Servers, NEW p \in Audio,
         VideoStarts(s) \/ AudioStarts(s) \/ VideoPacket(s) \/ AudioPacket(s, p)
  PROVE  RecorderInv'
<1> DEFINE r == Reached(s)
           v == video[s]
           y == recorder'
           w == video'[s]
<1>1. UNCHANGED <<recording, clock, recorderOf>>
  BY DEF VideoStarts, AudioStarts, VideoPacket, AudioPacket, streamRest
<1>2. Whole(r) /\ r.muxer = recorder.muxer /\ r.description = recorder.description
      /\ (~r.mixed => s = recorderOf /\ RecorderGood(r, v))
  BY ReachedParts
<1>3. DOMAIN video = Servers /\ s # 0
  BY DEF SessionTyped, Servers
\* The recorder as it is, and the stream as it is or over.
<1>4. CASE recorder' = recorder /\ (video' = video \/ video' = [video EXCEPT ![s] = "off"])
  <2>1. recorderOf # 0 => video'[recorderOf] \in {video[recorderOf], "off"}
    BY <1>3, <1>4, MaxServersAssumption DEF SessionTyped, Servers
  <2>2. Own' = Own \/ Own' = "off"
    BY <1>1, <2>1 DEF Own
  <2> QED
    BY <1>1, <1>4, <2>2, OffIsGood DEF RecorderInv, RecordingShown
\* What is to be shown of it otherwise.
<1>5. ASSUME WholeAs(y, r), ~r.mixed => RecorderGood(y, w)
       PROVE  RecorderInv'
  <2>1. ~r.mixed => Own' = w
    BY <1>1, <1>2, <1>3 DEF Own
  <2> HIDE DEF r
  <2> QED
    BY <1>1, <1>2, <1>5, <2>1 DEF RecorderInv, RecordingShown, WholeAs
<1>6. CASE VideoStarts(s)
  <2>1. v = "waiting" /\ y = [r EXCEPT !.metadata = TRUE] /\ w = "configuration"
    BY <1>3, <1>6 DEF VideoStarts
  <2>2. WholeAs(y, r) /\ (~r.mixed => RecorderGood(y, w))
    <3> HIDE DEF r, v, y, w
    <3> QED
      BY <1>2, <2>1, NamedIsGood, NamedIsWhole
  <2> QED
    BY <1>5, <2>2
<1>7. CASE AudioStarts(s) /\ y = [r EXCEPT !.audioCodec = TRUE]
  <2>1. w = v
    BY <1>7 DEF AudioStarts
  <2>2. WholeAs(y, r) /\ (~r.mixed => RecorderGood(y, w))
    <3> HIDE DEF r, v, y, w
    <3> QED
      BY <1>2, <1>7, <2>1, NamedIsGood, NamedIsWhole
  <2> QED
    BY <1>5, <2>2
<1>8. CASE /\ v \in {"configuration", "any"} /\ recorder.description < MaxConfigs
           /\ y = AddConfiguration(r, recorder.description + 1)
           /\ video' = [video EXCEPT ![s] = "key"]
  <2>1. w = "key"
    BY <1>3, <1>8
  <2>2. WholeAs(y, r) /\ (~r.mixed => RecorderGood(y, w))
    <3> HIDE DEF r, v, y, w
    <3> QED
      BY <1>2, <1>8, <2>1, ConfigurationIsGood, ConfigurationIsWhole
  <2> QED
    BY <1>5, <2>2
<1>9. CASE /\ v \in {"key", "any"} /\ y = AddVideoPacket(r, "key")
           /\ video' = [video EXCEPT ![s] = "any"]
  <2>1. w = "any" /\ "key" \in Packets
    BY <1>3, <1>9 DEF Packets
  <2>2. WholeAs(y, r) /\ (~r.mixed => RecorderGood(y, w))
    <3> HIDE DEF r, v, y, w
    <3> QED
      BY <1>2, <1>9, <2>1, VideoIsGood, PacketIsWhole
  <2> QED
    BY <1>5, <2>2
<1>10. CASE v = "any" /\ y = AddVideoPacket(r, "delta") /\ video' = video
  <2>1. w = v /\ "delta" \in Packets
    BY <1>10 DEF Packets
  <2>2. WholeAs(y, r) /\ (~r.mixed => RecorderGood(y, w))
    <3> HIDE DEF r, v, y, w
    <3> QED
      BY <1>2, <1>10, <2>1, VideoIsGood, PacketIsWhole
  <2> QED
    BY <1>5, <2>2
<1>11. CASE AudioPacket(s, p)
  <2>1. w = v /\ y = AddAudioPacket(r, p) /\ p \in Packets
    BY <1>11 DEF AudioPacket, Packets
  <2>2. WholeAs(y, r) /\ (~r.mixed => RecorderGood(y, w))
    <3> HIDE DEF r, v, y, w
    <3> QED
      BY <1>2, <2>1, AudioIsGood, PacketIsWhole
  <2> QED
    BY <1>5, <2>2
<1>12. CASE VideoPacket(s)
  BY <1>4, <1>8, <1>9, <1>10, <1>12 DEF VideoPacket
<1>13. CASE AudioStarts(s)
  BY <1>4, <1>7, <1>13 DEF AudioStarts
<1> QED
  BY <1>6, <1>11, <1>12, <1>13

LEMMA ButtonKeepsRecorder ==
  ASSUME RecorderInv, RecordButton
  PROVE  RecorderInv'
<1>1. video' = video /\ recorderOf' = recorderOf /\ Own' = Own
  BY DEF RecordButton, sessionVars, Own
<1>2. CASE RecordStart
  BY <1>1, <1>2, StartIsGood, StartIsWhole DEF RecordStart, RecorderInv, RecordingShown
<1>3. CASE RecordStop
  BY <1>1, <1>3, DisposeKeepsRecorder DEF RecordDispose
<1> QED
  BY <1>2, <1>3 DEF RecordButton

LEMMA TickKeepsRecorder ==
  ASSUME RecorderInv, Tick, UNCHANGED <<video, recorderOf>>
  PROVE  RecorderInv'
<1> DEFINE s == clock.seconds + 1
           m == clock.minutes + (IF s >= Sixty THEN 1 ELSE 0)
           c == [seconds |-> IF s >= Sixty THEN 0 ELSE s,
                 minutes |-> IF m >= Sixty THEN 0 ELSE m,
                 hours |-> clock.hours + (IF m >= Sixty THEN 1 ELSE 0)]
<1>1. clock' = c /\ recorder' = recorder /\ recording' = recording /\ recording
      /\ (clock.hours < MaxHours \/ m < Sixty)
  BY DEF Tick
<1>2. /\ clock.seconds \in 0 .. Sixty - 1 /\ clock.minutes \in 0 .. Sixty - 1
      /\ clock.hours \in 0 .. MaxHours /\ Sixty \in Nat \ {0} /\ MaxHours \in Nat
  BY RecorderAssumption DEF RecorderInv, Clocks
<1>3. c \in Clocks
  <2>1. s \in Nat /\ m \in Nat /\ s <= Sixty /\ m <= Sixty
    BY <1>2, SMT
  <2> HIDE DEF s, m
  <2>2. /\ (IF s >= Sixty THEN 0 ELSE s) \in 0 .. Sixty - 1
        /\ (IF m >= Sixty THEN 0 ELSE m) \in 0 .. Sixty - 1
        /\ clock.hours + (IF m >= Sixty THEN 1 ELSE 0) \in 0 .. MaxHours
    BY <1>1, <1>2, <2>1, SMT
  <2> QED
    BY <2>2, Zenon DEF Clocks
<1> HIDE DEF c
<1>4. Own' = Own
  BY DEF Own
<1> QED
  BY <1>1, <1>3, <1>4 DEF RecorderInv, RecordingShown

-----------------------------------------------------------------------------
(* The keyboard                                                            *)

\* The modifiers that the keyboard holds are among its keys.
KeyboardInv ==
  /\ KeyboardTypeOK
  /\ keyboard.modifiers = keyboard.keys \cap Modifiers
  /\ KeysMatch

LEMMA AttachedIsGood ==
  ASSUME KeyboardInv, Detached \/ Attached("scrcpy") \/ Attached("aoa")
  PROVE  KeyboardInv'
<1>1. PICK kind \in {"none", "scrcpy", "aoa"}, locks \in SUBSET Locks :
        keyboard' = [kind |-> kind, keys |-> {}, modifiers |-> {}, locks |-> locks]
  <2>1. CASE Detached
    BY <2>1 DEF Detached, NoKeyboard
  <2>2. CASE Attached("scrcpy")
    <3>1. keyboard' = [kind |-> "scrcpy", keys |-> {}, modifiers |-> {}, locks |-> {"NumLock"}]
      BY <2>2 DEF Attached, NewKeyboard, NoKeyboard
    <3> QED
      BY <3>1 DEF Locks
  <2>3. CASE Attached("aoa")
    <3>1. keyboard' = [kind |-> "aoa", keys |-> {}, modifiers |-> {}, locks |-> {}]
      BY <2>3 DEF Attached, NewKeyboard, NoKeyboard
    <3> QED
      BY <3>1 DEF Locks
  <2> QED
    BY <2>1, <2>2, <2>3
<1>2. /\ device \in [keys : SUBSET Keys, meta : SUBSET Keys] /\ left \subseteq Keys
      /\ keyboard.keys \subseteq Keys /\ device.keys = keyboard.keys \cup left
  BY DEF KeyboardInv, KeyboardTypeOK, KeysMatch
<1>3. device' = [keys |-> left', meta |-> {}] /\ left' \subseteq Keys
  <2>1. CASE device' = [device EXCEPT !.meta = {}] /\ left' = left \cup keyboard.keys
    <3>1. device' = [keys |-> device.keys, meta |-> {}]
      BY <1>2, <2>1
    <3> QED
      BY <1>2, <2>1, <3>1
  <2>2. CASE /\ Detached /\ keyboard.kind = "aoa" /\ left' = left
             /\ device' = [keys |-> device.keys \ GoingUp(keyboard.keys), meta |-> {}]
    <3>1. GoingUp(keyboard.keys) = keyboard.keys \ left
      BY <2>2 DEF GoingUp
    <3>2. device.keys \ (keyboard.keys \ left) = left
      BY <1>2
    <3> QED
      BY <1>2, <2>2, <3>1, <3>2
  <2> QED
    BY <2>1, <2>2 DEF Detached, Attached
<1> QED
  BY <1>1, <1>3 DEF KeyboardInv, KeyboardTypeOK, KeysMatch

LEMMA KeysKept ==
  ASSUME KeyboardInv, NEW key \in Keys, Down(key) \/ Up(key) \/ Reset
  PROVE  KeyboardInv'
<1> DEFINE keys == keyboard.keys
           mods == keyboard.modifiers
           locks == keyboard.locks
           kind == keyboard.kind
<1>1. /\ kind \in {"none", "scrcpy", "aoa"} /\ kind # "none"
      /\ keys \in SUBSET Keys /\ mods \in SUBSET Modifiers /\ locks \in SUBSET Locks
      /\ mods = keys \cap Modifiers /\ device.keys = keys \cup left /\ left \in SUBSET Keys
      /\ device.meta \cap Modifiers = keys \cap Modifiers /\ device.meta \in SUBSET Keys
  BY DEF KeyboardInv, KeyboardTypeOK, KeysMatch, Down, Up, Reset
<1>2. Modifiers \subseteq Keys /\ Locks \subseteq Keys /\ Modifiers \cap Locks = {}
  BY KeyboardAssumption DEF Keys
\* What is to be shown of the keys, the modifiers and the locks afterwards.
<1>3. SUFFICES \E k \in SUBSET Keys, l \in SUBSET Locks, meta \in SUBSET Keys, o \in SUBSET Keys :
        /\ keyboard' = [kind |-> kind, keys |-> k, modifiers |-> k \cap Modifiers, locks |-> l]
        /\ device' = [keys |-> k \cup o, meta |-> meta] /\ left' = o
        /\ meta \cap Modifiers = k \cap Modifiers
  <2>1. PICK k \in SUBSET Keys, l \in SUBSET Locks, meta \in SUBSET Keys, o \in SUBSET Keys :
        /\ keyboard' = [kind |-> kind, keys |-> k, modifiers |-> k \cap Modifiers, locks |-> l]
        /\ device' = [keys |-> k \cup o, meta |-> meta] /\ left' = o
        /\ meta \cap Modifiers = k \cap Modifiers
    BY <1>3
  <2> HIDE DEF kind
  <2> QED
    BY <1>1, <2>1 DEF KeyboardInv, KeyboardTypeOK, KeysMatch
<1>4. keyboard = [kind |-> kind, keys |-> keys, modifiers |-> mods, locks |-> locks]
  BY DEF KeyboardInv, KeyboardTypeOK
<1>5. CASE Down(key)
  <2> DEFINE k == keys \cup {key}
             l == IF kind = "scrcpy" /\ key \in Locks
                  THEN (locks \ {key}) \cup ({key} \ locks) ELSE locks
             meta == (k \cap Modifiers) \cup l
  <2>1. k \in SUBSET Keys /\ l \in SUBSET Locks /\ meta \in SUBSET Keys
        /\ meta \cap Modifiers = k \cap Modifiers
    BY <1>1, <1>2
  <2>2. mods \cup ({key} \cap Modifiers) = k \cap Modifiers
    BY <1>1
  <2>3. keyboard' = [kind |-> kind, keys |-> k, modifiers |-> k \cap Modifiers, locks |-> l]
    <3>1. keyboard' = [keyboard EXCEPT !.keys = k, !.modifiers = mods \cup ({key} \cap Modifiers),
                                       !.locks = l]
      BY <1>5 DEF Down
    <3> HIDE DEF k, l, kind, keys, mods, locks
    <3> QED
      BY <1>4, <2>2, <3>1
  <2>4. device' = [keys |-> k \cup left, meta |-> meta] /\ left' = left
    <3>1. device' = [keys |-> device.keys \cup {key}, meta |-> keyboard'.modifiers \cup keyboard'.locks]
      BY <1>5 DEF Down, MetaState
    <3>2. device.keys \cup {key} = k \cup left
      BY <1>1
    <3>3. left' = left
      BY <1>5 DEF Down
    <3> HIDE DEF l, kind, keys, mods, locks, k
    <3> QED
      BY <2>3, <3>1, <3>2, <3>3
  <2> HIDE DEF k, l, meta, kind
  <2> QED
    BY <1>1, <2>1, <2>3, <2>4
<1>6. CASE Up(key)
  <2> DEFINE k == keys \ {key}
             meta == (k \cap Modifiers) \cup locks
             up == GoingUp({key})
             o == left \ up
  <2>1. k \in SUBSET Keys /\ locks \in SUBSET Locks /\ meta \in SUBSET Keys
        /\ meta \cap Modifiers = k \cap Modifiers
    BY <1>1, <1>2
  <2>2. mods \ {key} = k \cap Modifiers
    BY <1>1
  <2>3. keyboard' = [kind |-> kind, keys |-> k, modifiers |-> k \cap Modifiers, locks |-> locks]
    <3>1. keyboard' = [keyboard EXCEPT !.keys = k, !.modifiers = mods \ {key}]
      BY <1>6 DEF Up, Released
    <3> HIDE DEF k, kind, keys, mods, locks
    <3> QED
      BY <1>4, <2>2, <3>1
  <2>4. device' = [keys |-> k \cup o, meta |-> meta] /\ left' = o /\ o \in SUBSET Keys
    <3>1. device' = [keys |-> device.keys \ up, meta |-> keyboard'.modifiers \cup keyboard'.locks]
      BY <1>6 DEF Up, MetaState
    <3>2. up \subseteq {key} /\ {key} \ left \subseteq up
      BY DEF GoingUp
    <3> HIDE DEF up
    <3>3. device.keys \ up = k \cup o
      BY <1>1, <3>2
    <3>4. left' = o /\ o \in SUBSET Keys
      BY <1>1, <1>6 DEF Up, up
    <3> HIDE DEF kind, keys, mods, locks, k, o
    <3> QED
      BY <2>3, <3>1, <3>3, <3>4
  <2> HIDE DEF k, meta, kind, o, up
  <2> QED
    BY <2>1, <2>3, <2>4
<1>7. CASE Reset
  <2>1. keyboard' = [kind |-> kind, keys |-> {}, modifiers |-> {}, locks |-> locks]
    <3>1. keyboard' = [keyboard EXCEPT !.keys = {}, !.modifiers = {}]
      BY <1>7 DEF Reset
    <3> HIDE DEF kind, keys, mods, locks
    <3> QED
      BY <1>4, <3>1
  <2>2. {} \cap Modifiers = {} /\ {} \in SUBSET Keys
    OBVIOUS
  <2>3. CASE kind = "aoa" \/ keys # {}
    <3> DEFINE up == GoingUp(keys)
               o == left \ up
    <3>1. device' = [keys |-> {} \cup o, meta |-> locks] /\ left' = o /\ o \in SUBSET Keys
      <4>1. device' = [keys |-> device.keys \ up, meta |-> keyboard'.modifiers \cup keyboard'.locks]
            /\ left' = o
        BY <1>7, <2>3 DEF Reset, MetaState
      <4>2. up \subseteq keys /\ keys \ left \subseteq up
        BY DEF GoingUp
      <4> HIDE DEF up
      <4>3. device.keys \ up = {} \cup o /\ o \in SUBSET Keys
        BY <1>1, <4>2
      <4> HIDE DEF kind, keys, mods, locks, o
      <4> QED
        BY <2>1, <4>1, <4>3
    <3>2. locks \in SUBSET Keys /\ locks \cap Modifiers = {}
      BY <1>1, <1>2
    <3> HIDE DEF kind, keys, locks, o, up
    <3> QED
      BY <1>1, <2>1, <2>2, <3>1, <3>2
  <2>4. CASE kind # "aoa" /\ keys = {}
    <3>1. device' = device /\ left' = left
      BY <1>7, <2>4 DEF Reset
    <3>2. device = [keys |-> {} \cup left, meta |-> device.meta] /\ device.meta \cap Modifiers = {}
      BY <1>1, <2>4 DEF KeyboardInv, KeyboardTypeOK
    <3> HIDE DEF kind, keys, locks
    <3> QED
      BY <1>1, <2>1, <2>2, <3>1, <3>2
  <2> QED
    BY <2>3, <2>4
<1> QED
  BY <1>5, <1>6, <1>7

-----------------------------------------------------------------------------
(* The sound                                                               *)

\* The player is that of the codec, and a decoder that is not configured is
\* that of AAC before its configuration came.
PlaybackInv ==
  /\ PlaybackTypeOK
  /\ SoundPlayable
  /\ playback.codec = "none" => playback = NoPlayback
  /\ playback.codec # "none" => playback.player = PlayerOf[playback.codec]
  /\ playback.codec = "raw" => playback.decoder \in {"none", "closed"}
  /\ playback.codec = "opus" => playback.decoder \notin {"none", "unconfigured"}
  /\ playback.codec = "aac" => playback.decoder # "none"
  /\ playback.codec = "aac" /\ playback.began => playback.decoder # "unconfigured"

Playbacks ==
  [codec : {"none"} \cup AudioCodecs,
   decoder : {"none", "unconfigured", "configured", "errored", "closed"},
   player : {"none"} \cup Formats, fed : {"none"} \cup Formats,
   began : BOOLEAN, decoding : 0 .. MaxDecoding, refused : BOOLEAN]

\* A playback p of codec c whose player is that of c: what is left to show.
Sounds(p, c) ==
  /\ p \in Playbacks /\ p.codec = c /\ p.player = PlayerOf[c]
  /\ ~p.refused /\ p.fed \in {"none", PlayerOf[c]}
  /\ c = "raw" => p.decoder \in {"none", "closed"}
  /\ c = "opus" => p.decoder \notin {"none", "unconfigured"}
  /\ c = "aac" => p.decoder # "none" /\ (p.began => p.decoder # "unconfigured")

LEMMA SoundsIsGood ==
  ASSUME NEW p, NEW c \in AudioCodecs, Sounds(p, c), playback' = p
  PROVE  PlaybackInv'
BY DEF Sounds, Playbacks, PlaybackInv, PlaybackTypeOK, SoundPlayable, AudioCodecs, PlayerOf

LEMMA GoodSounds ==
  ASSUME PlaybackInv, NEW c \in AudioCodecs, playback.codec = c
  PROVE  Sounds(playback, c)
BY DEF Sounds, Playbacks, PlaybackInv, PlaybackTypeOK, SoundPlayable, AudioCodecs

LEMMA PlayerParts ==
  /\ PlayerOf["raw"] = "int16" /\ PlayerOf["opus"] = "f32" /\ PlayerOf["aac"] = "f32-planar"
  /\ OutputOf["opus"] = "f32" /\ OutputOf["aac"] = "f32-planar"
  /\ StartedDecoder["raw"] = "none" /\ StartedDecoder["opus"] = "configured"
  /\ StartedDecoder["aac"] = "unconfigured"
BY DEF PlayerOf, OutputOf, StartedDecoder

LEMMA PlaybackStartsGood ==
  ASSUME PlaybackInv, NEW c \in AudioCodecs, PlaybackStarts(c)
  PROVE  PlaybackInv'
<1> DEFINE d == StartedDecoder[c]
           f == PlayerOf[c]
           p == [codec |-> c, decoder |-> d, player |-> f, fed |-> "none",
                 began |-> FALSE, decoding |-> 0, refused |-> FALSE]
<1>1. /\ d \in {"none", "unconfigured", "configured"} /\ f \in Formats
      /\ c = "raw" => d = "none"
      /\ c = "opus" => d = "configured"
      /\ c = "aac" => d = "unconfigured"
  BY PlayerParts DEF AudioCodecs, Formats
<1> HIDE DEF d, f
<1>2. playback' = p
  <2>1. playback' = [NoPlayback EXCEPT !.codec = c, !.decoder = d, !.player = f]
    BY DEF PlaybackStarts, d, f
  <2> QED
    BY <2>1, Zenon DEF NoPlayback
<1>3. 0 \in 0 .. MaxDecoding
  BY MaxDecodingAssumption
<1>4. p \in Playbacks
  BY <1>1, <1>3, Zenon DEF Playbacks
<1>5. /\ p.codec = c /\ p.player = f /\ ~p.refused /\ p.fed = "none" /\ p.decoder = d
      /\ ~p.began
  BY Zenon
<1> HIDE DEF p
<1>6. Sounds(p, c)
  BY <1>1, <1>4, <1>5 DEF Sounds, f
<1> QED
  BY <1>2, <1>6, SoundsIsGood

LEMMA PlaybackKept ==
  ASSUME PlaybackInv, PlaybackStep \/ Flush
  PROVE  PlaybackInv'
<1> DEFINE p == playback
           q == Received
<1>1. p \in Playbacks
  BY DEF PlaybackInv, PlaybackTypeOK, Playbacks
<1>2. q = [p EXCEPT !.began = TRUE]
  BY DEF Received
<1> HIDE DEF q
<1>3. /\ q \in Playbacks /\ q.codec = p.codec /\ q.decoder = p.decoder /\ q.player = p.player
      /\ q.fed = p.fed /\ q.began /\ q.decoding = p.decoding /\ q.refused = p.refused
  BY <1>1, <1>2, Zenon DEF Playbacks
<1>4. CASE RawTransform
  <2> DEFINE x == [q EXCEPT !.fed = "int16"]
  <2>1. p.codec = "raw" /\ playback' = x
    BY <1>4 DEF RawTransform, Playing, q
  <2>2. Sounds(p, "raw")
    BY <2>1, GoodSounds DEF AudioCodecs
  <2>3. /\ x \in Playbacks /\ x.codec = q.codec /\ x.decoder = q.decoder /\ x.player = q.player
        /\ x.fed = "int16" /\ x.refused = q.refused
    BY <1>3, Zenon DEF Playbacks, Formats
  <2> HIDE DEF x, p
  <2>4. Sounds(x, "raw")
    BY <1>3, <2>2, <2>3, PlayerParts DEF Sounds
  <2> QED
    BY <2>1, <2>4, SoundsIsGood DEF AudioCodecs
\* A packet that a decoder takes.
<1>5. ASSUME NEW c \in {"opus", "aac"}, Sounds(p, c), p.decoder = "configured",
             p.decoding < MaxDecoding, playback' = Decode(q, "data")
      PROVE  PlaybackInv'
  <2> DEFINE n == q.decoding + 1
             x == [q EXCEPT !.decoding = n, !.refused = q.refused]
  <2>1. n \in 0 .. MaxDecoding
    BY <1>1, <1>3, <1>5, MaxDecodingAssumption DEF Playbacks
  <2>2. playback' = x
    <3>1. Decode(q, "data") = [q EXCEPT !.decoding = q.decoding + 1, !.refused = q.refused \/ FALSE]
      BY <1>3, <1>5 DEF Decode
    <3>2. (q.refused \/ FALSE) = q.refused
      BY <1>3 DEF Playbacks
    <3> QED
      BY <1>5, <3>1, <3>2
  <2> HIDE DEF n
  <2>3. /\ x \in Playbacks /\ x.codec = q.codec /\ x.decoder = q.decoder /\ x.player = q.player
        /\ x.fed = q.fed /\ x.refused = q.refused
    <3>1. q.refused \in BOOLEAN
      BY <1>3 DEF Playbacks
    <3> QED
      BY <1>3, <2>1, <3>1, Zenon DEF Playbacks
  <2> HIDE DEF x, p
  <2>4. Sounds(x, c)
    BY <1>3, <1>5, <2>3 DEF Sounds
  <2> QED
    BY <2>2, <2>4, SoundsIsGood DEF AudioCodecs
<1>6. ASSUME NEW packet \in {"configuration", "data", ""}, AacTransform(packet)
      PROVE  PlaybackInv'
  <2>1. /\ p.codec = "aac" /\ p.decoder \notin {"errored", "closed"} /\ packet # ""
        /\ p.decoding < MaxDecoding /\ (packet = "configuration" <=> ~p.began)
    BY <1>6 DEF AacTransform, Playing, InTurn
  <2>2. Sounds(p, "aac")
    BY <2>1, GoodSounds DEF AudioCodecs
  <2>3. CASE packet = "configuration"
    <3> DEFINE x == [q EXCEPT !.decoder = "configured"]
    <3>1. playback' = x
      BY <1>6, <2>3 DEF AacTransform, q
    <3>2. /\ x \in Playbacks /\ x.codec = q.codec /\ x.decoder = "configured"
          /\ x.player = q.player /\ x.fed = q.fed /\ x.refused = q.refused
      BY <1>3, Zenon DEF Playbacks
    <3> HIDE DEF x, p
    <3>3. Sounds(x, "aac")
      BY <1>3, <2>2, <3>2 DEF Sounds
    <3> QED
      BY <3>1, <3>3, SoundsIsGood DEF AudioCodecs
  <2>4. CASE packet = "data"
    <3>1. p.decoder = "configured"
      BY <1>1, <2>1, <2>2, <2>4 DEF Sounds, Playbacks
    <3>2. playback' = Decode(q, "data")
      BY <1>6, <2>4 DEF AacTransform, q
    <3> QED
      BY <1>5, <2>1, <2>2, <3>1, <3>2
  <2> QED
    BY <2>1, <2>3, <2>4
<1>7. ASSUME NEW packet \in {"configuration", "data", ""}, OpusTransform(packet)
      PROVE  PlaybackInv'
  <2>1. p.codec = "opus" /\ p.decoder \notin {"errored", "closed"} /\ p.decoding < MaxDecoding
    BY <1>7 DEF OpusTransform, Playing
  <2>2. Sounds(p, "opus")
    BY <2>1, GoodSounds DEF AudioCodecs
  <2>3. CASE packet = "data"
    <3>1. p.decoder = "configured"
      BY <1>1, <2>1, <2>2 DEF Sounds, Playbacks
    <3>2. playback' = Decode(q, "data")
      BY <1>7, <2>3 DEF OpusTransform, q
    <3> QED
      BY <1>5, <2>1, <2>2, <3>1, <3>2
  <2>4. CASE packet # "data"
    <3>1. playback' = q
      BY <1>7, <2>4 DEF OpusTransform, q
    <3> HIDE DEF p
    <3>2. Sounds(q, "opus")
      BY <1>3, <2>2 DEF Sounds
    <3> QED
      BY <3>1, <3>2, SoundsIsGood DEF AudioCodecs
  <2> QED
    BY <2>3, <2>4
<1>8. CASE Output
  <2>1. p.decoder = "configured" /\ p.decoding > 0
    BY <1>8 DEF Output
  <2>2. PICK c \in {"opus", "aac"} : p.codec = c
    BY <2>1 DEF PlaybackInv, PlaybackTypeOK, AudioCodecs, NoPlayback
  <2>3. Sounds(p, c)
    BY <2>2, GoodSounds DEF AudioCodecs
  <2> DEFINE n == p.decoding - 1
             f == OutputOf[c]
             x == [p EXCEPT !.decoding = n, !.fed = f]
  <2>4. n \in 0 .. MaxDecoding
    BY <1>1, <2>1, MaxDecodingAssumption DEF Playbacks
  <2>5. f = PlayerOf[c] /\ f \in Formats
    BY PlayerParts DEF Formats
  <2>6. playback' = x
    BY <1>8, <2>2 DEF Output
  <2> HIDE DEF n, f
  <2>7. /\ x \in Playbacks /\ x.codec = p.codec /\ x.decoder = p.decoder /\ x.player = p.player
        /\ x.fed = f /\ x.refused = p.refused /\ x.began = p.began
    BY <1>1, <2>4, <2>5, Zenon DEF Playbacks
  <2> HIDE DEF x, p
  <2>8. Sounds(x, c)
    BY <2>3, <2>5, <2>7 DEF Sounds
  <2> QED
    BY <2>6, <2>8, SoundsIsGood DEF AudioCodecs
<1>9. CASE DecoderError
  <2>1. p.decoder = "configured"
    BY <1>9 DEF DecoderError
  <2>2. PICK c \in {"opus", "aac"} : p.codec = c
    BY <2>1 DEF PlaybackInv, PlaybackTypeOK, AudioCodecs, NoPlayback
  <2>3. Sounds(p, c)
    BY <2>2, GoodSounds DEF AudioCodecs
  <2> DEFINE x == [p EXCEPT !.decoder = "errored", !.decoding = 0]
  <2>4. playback' = x /\ 0 \in 0 .. MaxDecoding
    BY <1>9, MaxDecodingAssumption DEF DecoderError
  <2>5. /\ x \in Playbacks /\ x.codec = p.codec /\ x.decoder = "errored" /\ x.player = p.player
        /\ x.fed = p.fed /\ x.refused = p.refused
    BY <1>1, <2>4, Zenon DEF Playbacks
  <2> HIDE DEF x, p
  <2>6. Sounds(x, c)
    BY <2>3, <2>5 DEF Sounds
  <2> QED
    BY <2>4, <2>6, SoundsIsGood DEF AudioCodecs
<1>10. CASE Flush
  <2>1. p.codec \in AudioCodecs
    BY <1>1, <1>10 DEF Flush, Playbacks
  <2> DEFINE c == p.codec
             d == IF p.decoder = "unconfigured" THEN "errored" ELSE "closed"
             x == [p EXCEPT !.decoder = d]
  <2>2. Sounds(p, c)
    BY <2>1, GoodSounds
  <2>3. playback' = x
    BY <1>10 DEF Flush
  <2>4. d \in {"errored", "closed"} /\ (c = "raw" => d = "closed")
    BY <2>2 DEF Sounds
  <2> HIDE DEF d
  <2>5. /\ x \in Playbacks /\ x.codec = c /\ x.decoder = d /\ x.player = p.player
        /\ x.fed = p.fed /\ x.refused = p.refused
    BY <1>1, <2>4, Zenon DEF Playbacks
  <2> HIDE DEF x, p, c
  <2>6. Sounds(x, c)
    BY <2>2, <2>4, <2>5 DEF Sounds
  <2> QED
    BY <2>1, <2>3, <2>6, SoundsIsGood DEF c, p
<1> QED
  BY <1>4, <1>6, <1>7, <1>8, <1>9, <1>10 DEF PlaybackStep

-----------------------------------------------------------------------------
(* The settings                                                            *)

Types == {"video", "audio"}
NoDisplay == -1
DecoderLists == {<<"tinyh264">>, <<"webcodecs", "tinyh264">>}
Names == {e[3] : e \in Encoders} \cup {""}

Shapes ==
  [loads : SUBSET Connections, refresh : {"none", "fetch", "push", "displays", "encoders"},
   wanted : {"displays", "encoders"}, displays : SUBSET Displays, encoders : SUBSET Encoders,
   displayId : Displays \cup {NoDisplay}, codec : [Types -> Codecs], encoder : [Types -> Names],
   decoders : DecoderLists, decoder : {"tinyh264", "webcodecs"}]

\* Each encoder chosen is one of the encoders, for the codec chosen.
Offers(encoders, codec, chosen) ==
  \A t \in Types :
    chosen[t] # "" => \E e \in encoders : e[1] = t /\ e[2] = codec[t] /\ e[3] = chosen[t]

EncoderOffered(s) == Offers(s.encoders, s.codec, s.encoder)

DecoderOffered(s) == \E i \in 1 .. Len(s.decoders) : s.decoders[i] = s.decoder

SettingsGood(s) == s \in Shapes /\ EncoderOffered(s) /\ DecoderOffered(s)

\* What a step that leaves the encoders and the decoders alone changes is good.
LEMMA ValidatedIsGood ==
  ASSUME NEW s \in Shapes
  PROVE  /\ Setup!Validated(s) \in Shapes
         /\ EncoderOffered(Setup!Validated(s))
         /\ Setup!Validated(s).decoders = s.decoders
         /\ Setup!Validated(s).decoder = s.decoder
<1> DEFINE Ok(t) == \E e \in s.encoders : e[1] = t /\ e[2] = s.codec[t] /\ e[3] = s.encoder[t]
           f == [t \in Types |-> IF Ok(t) THEN s.encoder[t] ELSE ""]
           x == Setup!Validated(s)
<1>1. x = [s EXCEPT !.encoder = f]
  <2>1. \A t \in Types :
          (\E e \in Setup!Choices(s, t) : e[3] = s.encoder[t]) <=> Ok(t)
    BY Zenon DEF Setup!Choices
  <2> QED
    BY <2>1, Zenon DEF Setup!Validated, Setup!Types, Types, Setup!Choices
<1>2. f \in [Types -> Names]
  <2>1. s.encoder \in [Types -> Names]
    BY DEF Shapes
  <2> QED
    BY <2>1, Zenon DEF Names
<1>3. \A t \in Types : f[t] # "" => f[t] = s.encoder[t] /\ Ok(t)
  BY Zenon
<1> HIDE DEF f, x
<1>4. /\ x \in Shapes /\ x.encoder = f /\ x.encoders = s.encoders /\ x.codec = s.codec
      /\ x.decoders = s.decoders /\ x.decoder = s.decoder
  BY <1>1, <1>2, Zenon DEF Shapes
<1>5. Offers(s.encoders, s.codec, f)
  BY <1>3, Zenon DEF Offers
<1>6. EncoderOffered(x)
  BY <1>4, <1>5, Zenon DEF EncoderOffered
<1> QED
  BY <1>4, <1>6 DEF x

LEMMA FirstIsOffered ==
  ASSUME NEW s \in Shapes
  PROVE  /\ Setup!FirstDecoder(s) \in Shapes
         /\ DecoderOffered(Setup!FirstDecoder(s))
         /\ EncoderOffered(s) => EncoderOffered(Setup!FirstDecoder(s))
<1> DEFINE d == s.decoders[1]
           x == Setup!FirstDecoder(s)
<1>1. s.decoders \in DecoderLists
  BY DEF Shapes
<1>2. d \in {"tinyh264", "webcodecs"} /\ 1 \in 1 .. Len(s.decoders)
  BY <1>1, SMT DEF DecoderLists
<1>3. x = [s EXCEPT !.decoder = d]
  BY DEF Setup!FirstDecoder
<1> HIDE DEF d, x
<1>4. /\ x \in Shapes /\ x.decoder = d /\ x.decoders = s.decoders /\ x.encoder = s.encoder
      /\ x.encoders = s.encoders /\ x.codec = s.codec
  BY <1>2, <1>3, Zenon DEF Shapes
<1>5. DecoderOffered(x)
  BY <1>2, <1>4, Zenon DEF DecoderOffered, d
<1>6. EncoderOffered(s) => EncoderOffered(x)
  BY <1>4, Zenon DEF EncoderOffered
<1> QED
  BY <1>4, <1>5, <1>6 DEF x

\* The settings are good: they have their shape, and what they name is offered.
SettingsInv == SettingsGood(settings)

LEMMA SettingsInvOffers == SettingsInv => Setup!SettingsTypeOK /\ Setup!SettingsOffered
<1> SUFFICES ASSUME SettingsInv
             PROVE  Setup!SettingsTypeOK /\ Setup!SettingsOffered
  OBVIOUS
<1>1. Setup!Types = Types /\ Setup!NoDisplay = NoDisplay /\ Setup!Connections = Connections
      /\ Setup!Names \cup {""} = Names
  BY DEF Setup!Types, Types, Setup!NoDisplay, NoDisplay, Setup!Connections, Connections,
     Setup!Names, Names
<1>2. Setup!SettingsTypeOK
  BY <1>1, Zenon DEF SettingsInv, SettingsGood, Shapes, Setup!SettingsTypeOK, DecoderLists
<1>3. Setup!SettingsOffered
  BY <1>1, Zenon DEF SettingsInv, SettingsGood, EncoderOffered, Offers, DecoderOffered,
     Setup!SettingsOffered, Setup!Choices
<1> QED
  BY <1>2, <1>3

LEMMA SettingsFromInit == Setup!SettingsInit => SettingsInv
<1> SUFFICES ASSUME Setup!SettingsInit PROVE SettingsInv
  OBVIOUS
<1>1. PICK codec \in Codecs :
        settings = [loads |-> {}, refresh |-> "none", wanted |-> "displays", displays |-> {},
                    encoders |-> {}, displayId |-> NoDisplay, codec |-> [t \in Types |-> codec],
                    encoder |-> [t \in Types |-> ""], decoders |-> <<"tinyh264">>,
                    decoder |-> "tinyh264"]
  BY Zenon DEF Setup!SettingsInit, Setup!NoDisplay, NoDisplay, Setup!Types, Types
<1>2. [t \in Types |-> codec] \in [Types -> Codecs] /\ [t \in Types |-> ""] \in [Types -> Names]
      /\ <<"tinyh264">> \in DecoderLists
  BY Zenon DEF Names, DecoderLists
<1>3. settings \in Shapes
  BY <1>1, <1>2, Zenon DEF Shapes
<1>4. EncoderOffered(settings)
  BY <1>1, Zenon DEF EncoderOffered, Offers
<1>5. DecoderOffered(settings)
  <2>1. 1 \in 1 .. Len(<<"tinyh264">>) /\ <<"tinyh264">>[1] = "tinyh264"
    BY SMT
  <2>2. settings.decoders = <<"tinyh264">> /\ settings.decoder = "tinyh264"
    BY <1>1, Zenon
  <2> QED
    BY <2>1, <2>2, Zenon DEF DecoderOffered
<1> QED
  BY <1>3, <1>4, <1>5 DEF SettingsInv, SettingsGood

\* Settings whose choices and lists of encoders and decoders are as before.
LEMMA SameChoices ==
  ASSUME SettingsInv, NEW x \in Shapes,
         x.encoders = settings.encoders, x.codec = settings.codec, x.encoder = settings.encoder,
         x.decoders = settings.decoders, x.decoder = settings.decoder
  PROVE  SettingsGood(x)
BY Zenon DEF SettingsInv, SettingsGood, EncoderOffered, DecoderOffered

\* Settings whose choices are validated, of a decoder that is offered.
LEMMA SameDecoder ==
  ASSUME SettingsInv, NEW x \in Shapes,
         x.decoders = settings.decoders, x.decoder = settings.decoder
  PROVE  SettingsGood(Setup!Validated(x))
BY ValidatedIsGood, Zenon DEF SettingsInv, SettingsGood, DecoderOffered

LEMMA DeviceKeepsSettings ==
  ASSUME SettingsInv, Setup!SettingsDeviceStep, adb' \in 0 .. MaxConnections
  PROVE  SettingsInv'
<1>1. CASE settings' = settings
  BY <1>1 DEF SettingsInv
<1>2. CASE adb' # 0 /\ settings' # settings
  <2> DEFINE l == settings.loads \cup {adb'}
             x == [settings EXCEPT !.loads = l, !.encoders = {}, !.displays = {},
                                   !.displayId = NoDisplay]
  <2>1. settings' = Setup!Validated(x)
    BY <1>2 DEF Setup!SettingsDeviceStep, Setup!NoDisplay, NoDisplay
  <2>2. l \in SUBSET Connections
    <3>1. adb' \in Connections
      BY <1>2 DEF Connections
    <3> QED
      BY <3>1 DEF SettingsInv, SettingsGood, Shapes
  <2> HIDE DEF l
  <2>3. x \in Shapes /\ x.decoders = settings.decoders /\ x.decoder = settings.decoder
    BY <2>2, Zenon DEF SettingsInv, SettingsGood, Shapes
  <2> HIDE DEF x
  <2> QED
    BY <2>1, <2>3, SameDecoder DEF SettingsInv
<1> QED
  BY <1>1, <1>2 DEF Setup!SettingsDeviceStep

LEMMA LoadKeepsSettings ==
  ASSUME SettingsInv, NEW c \in Connections,
         Setup!SettingsMissing(c) \/ \E file \in Setup!AnyFile : Setup!SettingsLoaded(c, file)
  PROVE  SettingsInv'
<1> DEFINE l == settings.loads \ {c}
<1>1. l \in SUBSET Connections
  BY DEF SettingsInv, SettingsGood, Shapes
<1>2. CASE Setup!SettingsMissing(c)
  <2> DEFINE x == [settings EXCEPT !.loads = l]
  <2>1. settings' = x
    BY <1>2 DEF Setup!SettingsMissing
  <2> HIDE DEF l
  <2>2. /\ x \in Shapes /\ x.decoders = settings.decoders /\ x.decoder = settings.decoder
        /\ x.encoders = settings.encoders /\ x.codec = settings.codec /\ x.encoder = settings.encoder
    BY <1>1, Zenon DEF SettingsInv, SettingsGood, Shapes
  <2> HIDE DEF x
  <2> QED
    BY <2>1, <2>2, SameChoices DEF SettingsInv
<1>3. ASSUME NEW file \in Setup!AnyFile, Setup!SettingsLoaded(c, file)
      PROVE  SettingsInv'
  <2> DEFINE d == file.displayId
             e == file.encoder
             k == file.codec
             x == [settings EXCEPT !.loads = l, !.displayId = d, !.encoder = e, !.codec = k]
  <2>1. settings' = Setup!FirstDecoder(Setup!Validated(x))
    BY <1>3 DEF Setup!SettingsLoaded
  <2>2. d \in Displays /\ e \in [Types -> Names] /\ k \in [Types -> Codecs]
    BY <1>3, Zenon DEF Setup!AnyFile, Setup!Types, Types, Setup!Names, Names
  <2> HIDE DEF d, e, k, l
  <2>3. x \in Shapes
    BY <1>1, <2>2, Zenon DEF SettingsInv, SettingsGood, Shapes
  <2> HIDE DEF x
  <2>4. Setup!Validated(x) \in Shapes /\ EncoderOffered(Setup!Validated(x))
    BY <2>3, ValidatedIsGood
  <2> QED
    BY <2>1, <2>4, FirstIsOffered, Zenon DEF SettingsInv, SettingsGood
<1> QED
  BY <1>2, <1>3

LEMMA DecodersKeepSettings ==
  ASSUME SettingsInv, Setup!AddDecoder
  PROVE  SettingsInv'
<1> DEFINE d == <<"webcodecs">> \o settings.decoders
           x == [settings EXCEPT !.decoders = d]
<1>1. settings' = Setup!FirstDecoder(x)
  BY DEF Setup!AddDecoder
<1>2. d \in DecoderLists
  <2>1. settings.decoders \in DecoderLists /\ Len(settings.decoders) = 1
    BY DEF Setup!AddDecoder, SettingsInv, SettingsGood, Shapes
  <2>2. settings.decoders = <<"tinyh264">>
    BY <2>1, SMT DEF DecoderLists
  <2>3. <<"webcodecs">> \o <<"tinyh264">> = <<"webcodecs", "tinyh264">>
    <3> DEFINE S == {"webcodecs", "tinyh264"}
               u == <<"webcodecs">>
               v == <<"tinyh264">>
               w == <<"webcodecs", "tinyh264">>
    <3>1. u \in Seq(S) /\ Len(u) = 1 /\ u[1] = "webcodecs"
      OBVIOUS
    <3>2. v \in Seq(S) /\ Len(v) = 1 /\ v[1] = "tinyh264"
      OBVIOUS
    <3>3. w \in Seq(S) /\ Len(w) = 2 /\ w[1] = "webcodecs" /\ w[2] = "tinyh264"
      OBVIOUS
    <3> HIDE DEF S, u, v, w
    <3>4. u \o v \in Seq(S) /\ Len(u \o v) = 2 /\ (u \o v)[1] = u[1] /\ (u \o v)[2] = v[1]
      <4>1. /\ u \o v \in Seq(S) /\ Len(u \o v) = 1 + 1
            /\ \A i \in 1 .. 1 + 1 : (u \o v)[i] = IF i <= 1 THEN u[i] ELSE v[i - 1]
        BY <3>1, <3>2, ConcatProperties
      <4> QED
        BY <4>1, SMT
    <3>5. \A i \in 1 .. Len(w) : (u \o v)[i] = w[i]
      BY <3>1, <3>2, <3>3, <3>4, SMT
    <3>6. u \o v = w
      BY <3>3, <3>4, <3>5, SeqEqual
    <3> QED
      BY <3>6 DEF u, v, w
  <2> QED
    BY <2>2, <2>3 DEF DecoderLists
<1> HIDE DEF d
<1>3. /\ x \in Shapes /\ x.encoders = settings.encoders /\ x.codec = settings.codec
      /\ x.encoder = settings.encoder
  BY <1>2, Zenon DEF SettingsInv, SettingsGood, Shapes
<1> HIDE DEF x
<1>4. EncoderOffered(x)
  BY <1>3, Zenon DEF SettingsInv, SettingsGood, EncoderOffered
<1> QED
  BY <1>1, <1>3, <1>4, FirstIsOffered, Zenon DEF SettingsInv, SettingsGood

LEMMA RefreshKeepsSettings ==
  ASSUME SettingsInv,
         \/ \E what \in {"displays", "encoders"} : Setup!Refresh(what)
         \/ Setup!RefreshGoesOn \/ Setup!RefreshFails
  PROVE  SettingsInv'
<1>1. SUFFICES ASSUME NEW f \in {"none", "fetch", "push", "displays", "encoders"},
                      NEW w \in {"displays", "encoders"},
                      settings' = [settings EXCEPT !.refresh = f, !.wanted = w]
               PROVE  SettingsInv'
  <2>1. /\ settings.wanted \in {"displays", "encoders"}
        /\ \A f : [settings EXCEPT !.refresh = f]
                  = [settings EXCEPT !.refresh = f, !.wanted = settings.wanted]
    BY Zenon DEF SettingsInv, SettingsGood, Shapes
  <2>2. ASSUME NEW what \in {"displays", "encoders"}, Setup!Refresh(what)
        PROVE  SettingsInv'
    BY <1>1, <2>2 DEF Setup!Refresh
  <2>3. CASE Setup!RefreshGoesOn
    <3>1. PICK f \in {"push", "displays", "encoders"} : settings' = [settings EXCEPT !.refresh = f]
      BY <2>1, <2>3 DEF Setup!RefreshGoesOn
    <3> QED
      BY <1>1, <2>1, <3>1
  <2>4. CASE Setup!RefreshFails
    <3>1. settings' = [settings EXCEPT !.refresh = "none"]
      BY <2>4 DEF Setup!RefreshFails
    <3> QED
      BY <1>1, <2>1, <3>1
  <2> QED
    BY <2>2, <2>3, <2>4
<1> DEFINE x == [settings EXCEPT !.refresh = f, !.wanted = w]
<1>2. /\ x \in Shapes /\ x.decoders = settings.decoders /\ x.decoder = settings.decoder
      /\ x.encoders = settings.encoders /\ x.codec = settings.codec /\ x.encoder = settings.encoder
  BY Zenon DEF SettingsInv, SettingsGood, Shapes
<1> HIDE DEF x
<1> QED
  BY <1>1, <1>2, SameChoices DEF SettingsInv, x

LEMMA AnswerKeepsSettings ==
  ASSUME SettingsInv, Setup!Refreshed
  PROVE  SettingsInv'
<1>1. ASSUME NEW answer \in SUBSET Displays, NEW id \in Displays \cup {NoDisplay},
             settings' = [settings EXCEPT !.refresh = "none", !.displays = answer, !.displayId = id]
      PROVE  SettingsInv'
  <2> DEFINE x == [settings EXCEPT !.refresh = "none", !.displays = answer, !.displayId = id]
  <2>1. /\ x \in Shapes /\ x.decoders = settings.decoders /\ x.decoder = settings.decoder
        /\ x.encoders = settings.encoders /\ x.codec = settings.codec /\ x.encoder = settings.encoder
    BY Zenon DEF SettingsInv, SettingsGood, Shapes
  <2> HIDE DEF x
  <2> QED
    BY <1>1, <2>1, SameChoices DEF SettingsInv, x
<1>2. ASSUME NEW answer \in SUBSET Encoders,
             settings' = Setup!Validated([settings EXCEPT !.refresh = "none", !.encoders = answer])
      PROVE  SettingsInv'
  <2> DEFINE x == [settings EXCEPT !.refresh = "none", !.encoders = answer]
  <2>1. /\ x \in Shapes /\ x.decoders = settings.decoders /\ x.decoder = settings.decoder
    BY Zenon DEF SettingsInv, SettingsGood, Shapes
  <2> HIDE DEF x
  <2> QED
    BY <1>2, <2>1, SameDecoder DEF SettingsInv, x
<1>3. CASE \E answer \in SUBSET Displays :
             \E id \in IF settings.displayId \in answer \ {0} THEN {settings.displayId}
                       ELSE IF answer = {} THEN {NoDisplay} ELSE answer :
               settings' = [settings EXCEPT !.refresh = "none", !.displays = answer, !.displayId = id]
  BY <1>1, <1>3
<1> QED
  BY <1>2, <1>3 DEF Setup!Refreshed, Setup!NoDisplay, NoDisplay

LEMMA ChoiceKeepsSettings ==
  ASSUME SettingsInv, Setup!ChangeSetting
  PROVE  SettingsInv'
<1>0. settings \in Shapes
  BY DEF SettingsInv, SettingsGood
<1>1. ASSUME NEW d \in settings.displays, settings' = [settings EXCEPT !.displayId = d]
      PROVE  SettingsInv'
  <2> DEFINE x == [settings EXCEPT !.displayId = d]
  <2>1. d \in Displays
    BY <1>0 DEF Shapes
  <2>2. /\ x \in Shapes /\ x.decoders = settings.decoders /\ x.decoder = settings.decoder
        /\ x.encoders = settings.encoders /\ x.codec = settings.codec /\ x.encoder = settings.encoder
    BY <1>0, <2>1, Zenon DEF Shapes
  <2> HIDE DEF x
  <2> QED
    BY <1>1, <2>2, SameChoices DEF SettingsInv, x
<1>2. ASSUME NEW t \in Types, NEW codec \in Codecs,
             settings' = Setup!Validated([settings EXCEPT !.codec[t] = codec])
      PROVE  SettingsInv'
  <2> DEFINE c == [settings.codec EXCEPT ![t] = codec]
             x == [settings EXCEPT !.codec = c]
  <2>1. c \in [Types -> Codecs]
    <3>1. settings.codec \in [Types -> Codecs]
      BY <1>0 DEF Shapes
    <3> QED
      BY <3>1, Zenon
  <2>2. settings' = Setup!Validated(x)
    BY <1>2
  <2> HIDE DEF c
  <2>3. /\ x \in Shapes /\ x.decoders = settings.decoders /\ x.decoder = settings.decoder
    BY <1>0, <2>1, Zenon DEF Shapes
  <2> HIDE DEF x
  <2> QED
    BY <2>2, <2>3, SameDecoder DEF SettingsInv
<1>3. ASSUME NEW t \in Types, NEW e \in settings.encoders,
             settings' = Setup!Validated([settings EXCEPT !.encoder[t] = e[3]])
      PROVE  SettingsInv'
  <2> DEFINE n == e[3]
             c == [settings.encoder EXCEPT ![t] = n]
             x == [settings EXCEPT !.encoder = c]
  <2>1. n \in Names
    <3>1. e \in Encoders
      BY <1>0 DEF Shapes
    <3> QED
      BY <3>1, Zenon DEF Names
  <2>2. settings' = Setup!Validated(x)
    BY <1>3
  <2> HIDE DEF n
  <2>3. c \in [Types -> Names]
    <3>1. settings.encoder \in [Types -> Names]
      BY <1>0 DEF Shapes
    <3> QED
      BY <2>1, <3>1, Zenon
  <2> HIDE DEF c
  <2>4. /\ x \in Shapes /\ x.decoders = settings.decoders /\ x.decoder = settings.decoder
    BY <1>0, <2>3, Zenon DEF Shapes
  <2> HIDE DEF x
  <2> QED
    BY <2>2, <2>4, SameDecoder DEF SettingsInv
<1>4. ASSUME NEW i \in 1 .. Len(settings.decoders),
             settings' = [settings EXCEPT !.decoder = settings.decoders[i]]
      PROVE  SettingsInv'
  <2> DEFINE d == settings.decoders[i]
             x == [settings EXCEPT !.decoder = d]
  <2>1. d \in {"tinyh264", "webcodecs"}
    <3>1. settings.decoders \in DecoderLists
      BY <1>0 DEF Shapes
    <3>2. CASE settings.decoders = <<"tinyh264">>
      BY <3>2, SMT
    <3>3. CASE settings.decoders = <<"webcodecs", "tinyh264">>
      <4>1. i = 1 \/ i = 2
        BY <3>3, SMT
      <4> QED
        BY <3>3, <4>1, SMT
    <3> QED
      BY <3>1, <3>2, <3>3 DEF DecoderLists
  <2> HIDE DEF d
  <2>2. /\ x \in Shapes /\ x.decoders = settings.decoders /\ x.decoder = d
        /\ x.encoders = settings.encoders /\ x.codec = settings.codec /\ x.encoder = settings.encoder
    BY <1>0, <2>1, Zenon DEF Shapes
  <2> HIDE DEF x
  <2>3. DecoderOffered(x) /\ EncoderOffered(x)
    BY <2>2, Zenon DEF SettingsInv, SettingsGood, DecoderOffered, EncoderOffered, d
  <2> QED
    BY <1>4, <2>2, <2>3 DEF SettingsInv, SettingsGood, x, d
<1> QED
  BY <1>1, <1>2, <1>3, <1>4, Zenon DEF Setup!ChangeSetting, Setup!Types, Types

LEMMA SettingsKept ==
  ASSUME SettingsInv, Setup!SettingsStep, adb' \in 0 .. MaxConnections
  PROVE  SettingsInv'
BY DeviceKeepsSettings, LoadKeepsSettings, DecodersKeepSettings, RefreshKeepsSettings,
   AnswerKeepsSettings, ChoiceKeepsSettings
   DEF Setup!SettingsStep, Setup!Connections, Connections

-----------------------------------------------------------------------------
(* The slot, the dialog, the download and what the page shows              *)

Helds == {"touch", "Back", "AndroidHome", "AndroidAppSwitch", "VolumeUp"}

ShowTyped == isFullScreen \in BOOLEAN /\ rotation \in 0 .. 3 /\ held \subseteq Helds

SharedTyped == SlotTypeOK /\ GlobalTypeOK /\ FetchTypeOK

LEMMA SlotKept ==
  ASSUME SlotTypeOK, GlobalTypeOK, SessionStep
  PROVE  SlotTypeOK' /\ GlobalTypeOK'
<1>1. CASE HideErrorDialog
  BY <1>1 DEF HideErrorDialog, SlotTypeOK, GlobalTypeOK, slotVars
<1>2. ASSUME NEW c \in Connections, SlotStep(c), UNCHANGED errorDialogVisible
      PROVE  SlotTypeOK' /\ GlobalTypeOK'
  BY <1>2, MaxConnectionsAssumption DEF SlotStep, Attach, Lose, Clear, SlotTypeOK,
     GlobalTypeOK,
     Connections
<1> QED
  BY <1>1, <1>2 DEF SessionStep

LEMMA SetupSlotKept ==
  ASSUME SlotTypeOK, GlobalTypeOK, Setup!SessionStep
  PROVE  SlotTypeOK' /\ GlobalTypeOK'
<1>1. CASE Setup!HideErrorDialog
  BY <1>1 DEF Setup!HideErrorDialog, SlotTypeOK, GlobalTypeOK, Setup!slotVars
<1>2. ASSUME NEW c \in Connections, Setup!SlotStep(c), UNCHANGED errorDialogVisible
      PROVE  SlotTypeOK' /\ GlobalTypeOK'
  BY <1>2, MaxConnectionsAssumption DEF Setup!SlotStep, Setup!Attach, Setup!Lose, Setup!Clear,
     SlotTypeOK, GlobalTypeOK, Connections
<1> QED
  BY <1>1, <1>2 DEF Setup!SessionStep, Setup!Connections, Connections

\* A step of the sessions sees the slot, the dialog and the download change.
SharedStep ==
  /\ \/ SessionStep \/ UNCHANGED globalVars
     \/ ShowErrorDialog /\ UNCHANGED slotVars
  /\ FetchServer \/ Fetched \/ FetchFailed \/ UNCHANGED cachedValue

LEMMA SharedKept ==
  ASSUME SharedTyped, SharedStep
  PROVE  SharedTyped'
<1>1. SlotTypeOK' /\ GlobalTypeOK'
  <2>1. CASE SessionStep
    BY <2>1, SlotKept DEF SharedTyped
  <2>2. CASE UNCHANGED globalVars
    BY <2>2 DEF SharedTyped, globalVars, SlotTypeOK, GlobalTypeOK
  <2>3. CASE ShowErrorDialog /\ UNCHANGED slotVars
    BY <2>3 DEF SharedTyped, ShowErrorDialog, slotVars, SlotTypeOK, GlobalTypeOK
  <2> QED
    BY <2>1, <2>2, <2>3 DEF SharedStep
<1>2. FetchTypeOK'
  BY DEF SharedStep, SharedTyped, FetchTypeOK, FetchServer, Fetched, FetchFailed
<1> QED
  BY <1>1, <1>2 DEF SharedTyped

LEMMA SessionsShare ==
  ASSUME SessionActions
  PROVE  SharedStep
<1>1. CASE DeviceStep
  BY <1>1 DEF DeviceStep, SharedStep
<1>2. CASE Start \/ StartFails \/ ServerFetched \/ ServerPushed \/ ServerLaunched
  BY <1>2 DEF Start, StartFails, ServerFetched, ServerPushed, ServerLaunched, SharedStep
<1>3. CASE SettingsSaved \/ ScreenOff \/ KeyboardRegistered
  BY <1>3 DEF SettingsSaved, ScreenOff, KeyboardRegistered, SharedStep
<1>4. CASE RecordButton
  BY <1>4 DEF RecordButton, SharedStep
<1>5. CASE Stop \/ \E s \in Servers : Stopped(s) \/ Exit(s)
  BY <1>5 DEF Stop, Stopped, Exit, SharedStep
<1> QED
  BY <1>1, <1>2, <1>3, <1>4, <1>5 DEF SessionActions

LEMMA SettingsShare ==
  ASSUME SharedTyped, Setup!SettingsStep
  PROVE  SharedTyped'
<1>1. SlotTypeOK' /\ GlobalTypeOK'
  <2>1. CASE Setup!SessionStep
    BY <2>1, SetupSlotKept DEF SharedTyped
  <2>2. CASE UNCHANGED Setup!globalVars
    BY <2>2 DEF SharedTyped, Setup!globalVars, SlotTypeOK, GlobalTypeOK
  <2>3. CASE Setup!ShowErrorDialog /\ UNCHANGED Setup!slotVars
    BY <2>3 DEF SharedTyped, Setup!ShowErrorDialog, Setup!slotVars, SlotTypeOK, GlobalTypeOK
  <2>4. \/ Setup!SessionStep \/ UNCHANGED Setup!globalVars
        \/ Setup!ShowErrorDialog /\ UNCHANGED Setup!slotVars
    BY DEF Setup!SettingsStep, Setup!SettingsDeviceStep, Setup!AddDecoder,
       Setup!SettingsMissing,
       Setup!SettingsLoaded, Setup!Refresh, Setup!RefreshGoesOn, Setup!Refreshed,
       Setup!RefreshFails, Setup!ChangeSetting
  <2> QED
    BY <2>1, <2>2, <2>3, <2>4
<1>2. FetchTypeOK'
  <2>1. Setup!FetchServer \/ Setup!Fetched \/ Setup!FetchFailed \/ UNCHANGED cachedValue
    BY DEF Setup!SettingsStep, Setup!SettingsDeviceStep, Setup!AddDecoder,
       Setup!SettingsMissing,
       Setup!SettingsLoaded, Setup!Refresh, Setup!RefreshGoesOn, Setup!Refreshed,
       Setup!RefreshFails, Setup!ChangeSetting
  <2> QED
    BY <2>1 DEF SharedTyped, FetchTypeOK, Setup!FetchServer, Setup!Fetched, Setup!FetchFailed
<1> QED
  BY <1>1, <1>2 DEF SharedTyped

LEMMA ShowKept ==
  ASSUME ShowTyped, SessionActions \/ InputActions
  PROVE  ShowTyped'
<1>1. CASE UNCHANGED showVars
  BY <1>1 DEF ShowTyped, showVars
<1>2. CASE MirrorDispose /\ UNCHANGED <<rotation, held>>
  BY <1>2 DEF MirrorDispose, ShowTyped
<1>3. CASE SettingsSaved
  BY <1>3 DEF SettingsSaved, ShowTyped
<1>4. CASE FullScreenButton \/ LeaveFullScreen
  BY <1>4 DEF FullScreenButton, LeaveFullScreen, ShowTyped
<1>5. CASE RotateVideoLeft \/ RotateVideoRight
  BY <1>5 DEF RotateVideoLeft, RotateVideoRight, ShowTyped
<1>6. ASSUME NEW what \in Helds, Press(what) \/ Release(what)
      PROVE  ShowTyped'
  BY <1>6 DEF Press, Release, ShowTyped, inputRest
<1>7. CASE SessionActions
  <2>1. CASE DeviceStep
    BY <1>1, <1>2, <2>1 DEF DeviceStep, disposeRest, showVars
  <2>2. CASE \E s \in Servers : Stopped(s) \/ Exit(s)
    BY <1>1, <1>2, <2>2 DEF Stopped, Exit, disposeRest, showVars
  <2>3. CASE \/ Start \/ StartFails \/ ServerFetched \/ ServerPushed \/ ServerLaunched
             \/ ScreenOff \/ KeyboardRegistered
    BY <1>1, <2>3 DEF Start, StartFails, ServerFetched, ServerPushed,
       ServerLaunched, ScreenOff,
       KeyboardRegistered, startRest
  <2>4. CASE RecordButton \/ Stop
    BY <1>1, <2>4 DEF RecordButton, Stop
  <2> QED
    BY <1>3, <1>7, <2>1, <2>2, <2>3, <2>4 DEF SessionActions
<1>8. CASE InputActions
  <2>1. CASE (\E key \in Keys : KeyEvent(key)) \/ Blur
    BY <1>1, <2>1 DEF KeyEvent, Blur, inputRest, showVars
  <2> QED
    BY <1>4, <1>5, <1>6, <1>8, <2>1 DEF InputActions, Helds
<1> QED
  BY <1>7, <1>8

\* The pointer, turned back with the video.
LEMMA PointerIsExact == rotation \in 0 .. 3 => PointerExact
<1> SUFFICES ASSUME rotation \in 0 .. 3, NEW x \in {0, 1}, NEW y \in {0, 1}
             PROVE  Seen(DevicePosition(x, y, rotation), rotation) = <<x, y>>
  BY DEF PointerExact
<1>1. rotation = 0 \/ rotation = 1 \/ rotation = 2 \/ rotation = 3
  BY SMT
<1> QED
  BY <1>1 DEF Seen, DevicePosition, QuarterTurn

-----------------------------------------------------------------------------
(* All of the page                                                         *)

ScrcpyInv ==
  /\ SharedTyped /\ ShowTyped
  /\ SessionInv /\ RecorderInv
  /\ KeyboardInv /\ PlaybackInv /\ SettingsInv

LEMMA ScrcpyFromInit == ScrcpyInit => ScrcpyInv
<1> SUFFICES ASSUME ScrcpyInit PROVE ScrcpyInv
  OBVIOUS
<1>0. /\ GlobalInit /\ RecorderInit /\ KeyboardInit /\ FetchInit /\ PlaybackInit
      /\ Setup!SettingsInit
      /\ stage = "idle" /\ target = 0 /\ connecting = FALSE /\ running = FALSE
      /\ client = 0 /\ decoder = 0 /\ audioPlayer = 0
      /\ servers = [s \in Servers |-> [state |-> "new", conn |-> 0]]
      /\ exitWatched = {} /\ stops = {} /\ recorderOf = 0
      /\ video = [s \in Servers |-> "off"] /\ audio = [s \in Servers |-> "off"]
      /\ isFullScreen = FALSE /\ rotation = 0 /\ held = {}
  BY Zenon DEF ScrcpyInit, MirrorInit
<1>1. SharedTyped
  <2>1. SlotTypeOK
    BY <1>0, MaxConnectionsAssumption DEF GlobalInit, SlotInit, SlotTypeOK
  <2>2. GlobalTypeOK /\ FetchTypeOK
    BY <1>0, Zenon DEF GlobalInit, FetchInit, GlobalTypeOK, FetchTypeOK
  <2> QED
    BY <2>1, <2>2 DEF SharedTyped
<1>2. ShowTyped
  <2>1. 0 \in 0 .. 3
    BY SMT
  <2> QED
    BY <1>0, <2>1, Zenon DEF ShowTyped
<1>3. SessionInv
  <2>1. SessionTyped
    <3>1. 0 \in 0 .. MaxServers /\ 0 \in 0 .. MaxConnections
      BY MaxServersAssumption, MaxConnectionsAssumption
    <3>2. servers \in [Servers -> [state : {"new", "alive", "exited"}, conn : 0 .. MaxConnections]]
      BY <1>0, <3>1
    <3>3. /\ video \in [Servers -> {"off", "waiting", "configuration", "key", "any"}]
          /\ audio \in [Servers -> {"off", "waiting", "on"}]
      BY <1>0
    <3> QED
      BY <1>0, <3>1, <3>2, <3>3, Zenon DEF SessionTyped, Stages
  <2>2. PictureAlive /\ RecordingOwned
    BY <1>0 DEF PictureAlive, RecordingOwned, RecorderInit
  <2> QED
    BY <1>0, <2>1, <2>2 DEF SessionInv, OneStart, ServerThere, ExitSeen, Starting
<1>4. RecorderInv
  <2>1. RecorderGood(NewRecorder, "off")
    <3>1. \/ FromKey(NewRecorder.buffer) /\ NewRecorder.description # 0
          \/ AllAudio(NewRecorder.buffer) /\ ~NewRecorder.begun
      BY NewIsGood DEF RecorderGood, Buffered
    <3> QED
      BY <3>1, NewIsGood DEF RecorderGood, Buffered, Filed
  <2>2. Whole(NewRecorder) /\ Own = "off"
    BY <1>0, NewIsGood DEF RecorderGood, Filed, Whole, Own
  <2> QED
    BY <1>0, <2>1, <2>2, NewIsGood, ZeroIsClock DEF RecorderInit, RecorderInv, RecordingShown
<1>5. KeyboardInv
  BY <1>0 DEF KeyboardInit, KeyboardInv, KeyboardTypeOK, KeysMatch, NoKeyboard
<1>6. PlaybackInv
  <2>1. 0 \in 0 .. MaxDecoding
    BY MaxDecodingAssumption
  <2>2. NoPlayback \in Playbacks
    BY <2>1, Zenon DEF NoPlayback, Playbacks
  <2>3. NoPlayback.codec = "none" /\ ~NoPlayback.refused /\ NoPlayback.fed = "none"
    BY Zenon DEF NoPlayback
  <2> QED
    BY <1>0, <2>2, <2>3 DEF PlaybackInit, PlaybackInv, PlaybackTypeOK, Playbacks, SoundPlayable
<1>7. SettingsInv
  BY <1>0, SettingsFromInit
<1> QED
  BY <1>1, <1>2, <1>3, <1>4, <1>5, <1>6, <1>7 DEF ScrcpyInv

LEMMA SessionKept ==
  ASSUME ScrcpyInv, SessionActions
  PROVE  SessionInv'
<1> SessionInv /\ SlotTypeOK
  BY DEF ScrcpyInv, SharedTyped
<1>1. CASE Start \/ StartFails \/ ServerFetched \/ ServerPushed \/ ServerLaunched
  BY <1>1, StartKeepsSession, AdvanceKeepsSession, LaunchKeepsSession
<1>2. CASE SettingsSaved \/ ScreenOff
  BY <1>2, SaveKeepsSession, ScreenOffKeepsSession
<1>3. CASE KeyboardRegistered
  BY <1>3, RegisterKeepsSession
<1>4. CASE RecordButton
  BY <1>4, SessionAlone DEF RecordButton, Shown
<1>5. CASE Stop \/ DeviceStep
  BY <1>5, StopKeepsSession
<1>6. ASSUME NEW s \in Servers, Stopped(s) \/ Exit(s)
      PROVE  SessionInv'
  BY <1>6, EndKeepsSession
<1> QED
  BY <1>1, <1>2, <1>3, <1>4, <1>5, <1>6 DEF SessionActions

LEMMA RecorderKept ==
  ASSUME ScrcpyInv, SessionActions
  PROVE  RecorderInv'
<1> RecorderInv /\ SessionInv
  BY DEF ScrcpyInv
<1>1. CASE UNCHANGED recordVars /\ UNCHANGED <<video, recorderOf>>
  BY <1>1, DisposeKeepsRecorder
<1>2. CASE MirrorDispose /\ UNCHANGED <<video, recorderOf>>
  BY <1>2, DisposeKeepsRecorder DEF MirrorDispose
<1>3. CASE \/ Start \/ StartFails \/ ServerFetched \/ ServerPushed \/ ServerLaunched
           \/ ScreenOff \/ KeyboardRegistered \/ Stop
  BY <1>1, <1>3 DEF Start, StartFails, ServerFetched, ServerPushed, ServerLaunched, ScreenOff,
     KeyboardRegistered, Stop, startRest
<1>4. CASE SettingsSaved
  BY <1>4, SaveKeepsRecorder
<1>5. CASE RecordButton
  BY <1>5, ButtonKeepsRecorder
<1>6. CASE DeviceStep \/ \E s \in Servers : Stopped(s) \/ Exit(s)
  BY <1>1, <1>2, <1>6 DEF DeviceStep, Stopped, Exit, disposeRest
<1> QED
  BY <1>3, <1>4, <1>5, <1>6 DEF SessionActions

LEMMA KeyboardKept ==
  ASSUME ScrcpyInv, SessionActions
  PROVE  KeyboardInv'
<1>1. CASE UNCHANGED keyboardVars
  BY <1>1 DEF keyboardVars, ScrcpyInv, KeyboardInv, KeyboardTypeOK, KeysMatch
<1>2. CASE Detached \/ Attached("scrcpy") \/ Attached("aoa")
  BY <1>2, AttachedIsGood DEF ScrcpyInv
<1>3. CASE \/ Start \/ StartFails \/ ServerFetched \/ ServerPushed \/ ServerLaunched \/ Stop
           \/ RecordButton
  BY <1>1, <1>3 DEF Start, StartFails, ServerFetched, ServerPushed, ServerLaunched, Stop,
     RecordButton, startRest
<1>4. CASE SettingsSaved
  BY <1>1, <1>2, <1>4 DEF SettingsSaved, EnterSession
<1>5. CASE ScreenOff \/ KeyboardRegistered
  BY <1>1, <1>2, <1>5 DEF ScreenOff, EnterSession, KeyboardRegistered
<1>6. CASE DeviceStep \/ \E s \in Servers : Stopped(s) \/ Exit(s)
  BY <1>1, <1>2, <1>6 DEF DeviceStep, Stopped, Exit, MirrorDispose
<1> QED
  BY <1>3, <1>4, <1>5, <1>6 DEF SessionActions

\* A step keeps the part of the invariant whose variables it leaves alone.
LEMMA Untouched ==
  ASSUME ScrcpyInv
  PROVE  /\ UNCHANGED globalVars /\ UNCHANGED cachedValue => SharedTyped'
         /\ UNCHANGED showVars => ShowTyped'
         /\ UNCHANGED <<sessionVars, recording>> => SessionInv'
         /\ UNCHANGED <<recordVars, video, recorderOf>> => RecorderInv'
         /\ UNCHANGED keyboardVars => KeyboardInv'
         /\ UNCHANGED playback => PlaybackInv'
         /\ UNCHANGED settings => SettingsInv'
<1>1. UNCHANGED globalVars /\ UNCHANGED cachedValue => SharedTyped'
  BY SharedKept DEF ScrcpyInv, SharedStep
<1>2. UNCHANGED showVars => ShowTyped'
  BY DEF ScrcpyInv, ShowTyped, showVars
<1>3. UNCHANGED <<sessionVars, recording>> => SessionInv'
  <2>1. SUFFICES ASSUME UNCHANGED sessionVars, recording' = recording PROVE SessionInv'
    OBVIOUS
  <2> QED
    BY <2>1, SessionAlone DEF ScrcpyInv
<1>4. UNCHANGED <<recordVars, video, recorderOf>> => RecorderInv'
  BY DisposeKeepsRecorder DEF ScrcpyInv
<1>5. UNCHANGED keyboardVars => KeyboardInv'
  BY DEF keyboardVars, ScrcpyInv, KeyboardInv, KeyboardTypeOK, KeysMatch
<1>6. UNCHANGED playback => PlaybackInv'
  BY DEF ScrcpyInv, PlaybackInv, PlaybackTypeOK, SoundPlayable
<1>7. UNCHANGED settings => SettingsInv'
  BY DEF ScrcpyInv, SettingsInv
<1> QED
  BY <1>1, <1>2, <1>3, <1>4, <1>5, <1>6, <1>7

LEMMA SessionsKeep ==
  ASSUME ScrcpyInv, SessionActions, UNCHANGED <<settings, playback>>
  PROVE  ScrcpyInv'
<1>1. SharedTyped'
  BY SessionsShare, SharedKept DEF ScrcpyInv
<1>2. ShowTyped'
  BY ShowKept DEF ScrcpyInv
<1> QED
  BY <1>1, <1>2, SessionKept, RecorderKept, KeyboardKept, Untouched DEF ScrcpyInv

LEMMA StreamsKeep ==
  ASSUME ScrcpyInv, UNCHANGED settings, UNCHANGED playback \/ SoundFollows,
         VideoActions \/ AudioActions \/ StreamActions
  PROVE  ScrcpyInv'
<1>1. PICK s \in Servers, p \in Audio :
        VideoStarts(s) \/ AudioStarts(s) \/ VideoPacket(s) \/ AudioPacket(s, p)
  <2>1. "audio" \in Audio
    BY DEF Audio
  <2> QED
    BY <2>1 DEF VideoActions, AudioActions, StreamActions
<1>2. RecorderInv'
  BY <1>1, StreamsKeepRecorder DEF ScrcpyInv, SessionInv
<1>3. UNCHANGED <<globalVars, cachedValue, showVars, keyboardVars, recording>>
  BY <1>1 DEF VideoStarts, AudioStarts, VideoPacket, AudioPacket, streamRest
<1>4. SessionInv'
  <2>1. CASE VideoStarts(s) \/ AudioStarts(s) \/ VideoPacket(s)
    BY <2>1, StreamsKeepSession DEF ScrcpyInv
  <2>2. CASE AudioPacket(s, p)
    BY <2>2, Untouched DEF AudioPacket, streamRest, sessionVars
  <2> QED
    BY <1>1, <2>1, <2>2
<1>5. PlaybackInv'
  BY PlaybackStartsGood, Untouched DEF ScrcpyInv, SoundFollows
<1> QED
  BY <1>2, <1>3, <1>4, <1>5, Untouched DEF ScrcpyInv

LEMMA ClockKeeps ==
  ASSUME ScrcpyInv, ClockActions, UNCHANGED <<settings, playback>>
  PROVE  ScrcpyInv'
<1>1. /\ recording' = recording /\ UNCHANGED <<video, recorderOf>>
      /\ UNCHANGED <<globalVars, sessionVars, showVars, keyboardVars, cachedValue>>
  BY DEF ClockActions, Tick, sessionVars
<1>2. RecorderInv'
  BY <1>1, TickKeepsRecorder DEF ClockActions, ScrcpyInv
<1> QED
  BY <1>1, <1>2, Untouched DEF ScrcpyInv

LEMMA InputsKeep ==
  ASSUME ScrcpyInv, InputActions, UNCHANGED <<settings, playback>>
  PROVE  ScrcpyInv'
<1>1. UNCHANGED <<globalVars, cachedValue, sessionVars, recordVars>>
  BY DEF InputActions, FullScreenButton, LeaveFullScreen, RotateVideoLeft, RotateVideoRight,
     Press, Release, KeyEvent, Blur, inputRest
<1>2. UNCHANGED <<video, recorderOf>> /\ UNCHANGED recording
  BY <1>1 DEF sessionVars, recordVars
<1>3. ShowTyped'
  BY ShowKept DEF ScrcpyInv
<1>4. KeyboardInv'
  <2>1. CASE UNCHANGED keyboardVars
    BY <2>1, Untouched
  <2>2. ASSUME NEW key \in Keys, KeyEvent(key)
        PROVE  KeyboardInv'
    BY <2>2, KeysKept DEF KeyEvent, ScrcpyInv
  <2>3. CASE Blur
    <3>1. "CapsLock" \in Keys
      BY DEF Keys, Locks
    <3> QED
      BY <2>3, <3>1, KeysKept DEF Blur, ScrcpyInv
  <2> QED
    BY <2>1, <2>2, <2>3 DEF InputActions, FullScreenButton, LeaveFullScreen, RotateVideoLeft,
       RotateVideoRight, Press, Release
<1> QED
  BY <1>1, <1>2, <1>3, <1>4, Untouched DEF ScrcpyInv

LEMMA ScrcpyKept == ScrcpyInv /\ [ScrcpyNext]_scrcpyVars => ScrcpyInv'
<1> SUFFICES ASSUME ScrcpyInv, [ScrcpyNext]_scrcpyVars PROVE ScrcpyInv'
  OBVIOUS
<1>1. CASE UNCHANGED scrcpyVars
  <2>1. UNCHANGED <<globalVars, sessionVars, showVars, recordVars, keyboardVars, cachedValue,
                    playback, settings>>
    BY <1>1 DEF scrcpyVars, mirrorVars
  <2>2. UNCHANGED <<video, recorderOf>> /\ UNCHANGED recording
    BY <2>1 DEF sessionVars, recordVars
  <2> QED
    BY <2>1, <2>2, Untouched DEF ScrcpyInv
<1>2. CASE (SessionActions \/ ClockActions) /\ UNCHANGED <<settings, playback>>
  BY <1>2, SessionsKeep, ClockKeeps
<1>3. CASE /\ VideoActions \/ AudioActions \/ StreamActions
           /\ UNCHANGED settings /\ (UNCHANGED playback \/ SoundFollows)
  BY <1>3, StreamsKeep
<1>4. CASE UNCHANGED <<globalVars, mirrorVars, settings>> /\ (PlaybackStep \/ SoundEnds)
  <2>1. UNCHANGED <<globalVars, sessionVars, showVars, recordVars, keyboardVars, cachedValue,
                    settings>>
    BY <1>4 DEF mirrorVars
  <2>2. UNCHANGED <<video, recorderOf>> /\ UNCHANGED recording
    BY <2>1 DEF sessionVars, recordVars
  <2>3. PlaybackInv'
    BY <1>4, PlaybackKept DEF SoundEnds, ScrcpyInv
  <2> QED
    BY <2>1, <2>2, <2>3, Untouched DEF ScrcpyInv
<1>5. CASE InputActions /\ UNCHANGED <<settings, playback>>
  BY <1>5, InputsKeep
<1>6. CASE /\ Setup!SettingsStep
           /\ UNCHANGED <<sessionVars, showVars, recordVars, keyboardVars, playback>>
  <2>1. UNCHANGED <<video, recorderOf>> /\ UNCHANGED recording
    BY <1>6 DEF sessionVars, recordVars
  <2>2. SharedTyped'
    BY <1>6, SettingsShare DEF ScrcpyInv
  <2>3. SettingsInv'
    BY <1>6, <2>2, SettingsKept DEF ScrcpyInv, SharedTyped, SlotTypeOK
  <2> QED
    BY <1>6, <2>1, <2>2, <2>3, Untouched DEF ScrcpyInv
<1> QED
  BY <1>1, <1>2, <1>3, <1>4, <1>5, <1>6 DEF ScrcpyNext

LEMMA ScrcpyInvAlways == ScrcpySpec => []ScrcpyInv
BY ScrcpyFromInit, ScrcpyKept, PTL DEF ScrcpySpec

\* The type invariant of the scrcpy page (state.tsx, recorder.ts, input.ts,
\* settings.tsx): in particular the client, the decoder and the player are
\* those of a server or of none, and the clock of a recording keeps its range.
THEOREM ScrcpyTyped == ScrcpySpec => []ScrcpyTypeOK
<1>1. ScrcpyInv => ScrcpyTypeOK
  <2> SUFFICES ASSUME ScrcpyInv PROVE ScrcpyTypeOK
    OBVIOUS
  <2>1. RecorderTypeOK
    BY Zenon DEF ScrcpyInv, RecorderInv, Whole, Recorders, Muxers, Clocks,
       RecorderTypeOK
  <2>2. MirrorTypeOK
    BY <2>1, Zenon DEF ScrcpyInv, SharedTyped, ShowTyped, Helds, KeyboardInv, SessionInv,
       SessionTyped, MirrorTypeOK
  <2> QED
    BY <2>2, SettingsInvOffers DEF ScrcpyInv, SharedTyped, PlaybackInv, ScrcpyTypeOK
<1> QED
  BY <1>1, ScrcpyInvAlways, PTL

\* What the page shows and what there is agree: the picture has a client whose
\* server runs, a recording belongs to a session that runs and its button and
\* clock show it, start() is not entered twice, the sound that comes can be
\* decoded and is played as it is, the keys down on the device are those the
\* page holds and those that dispose() of an earlier session left down
\* (input.ts:166), a touch lands where it is seen, and what a session is
\* started with is offered.
THEOREM SessionIsSound == ScrcpySpec => []SessionSound
<1>1. ScrcpyInv => SessionSound
  BY PointerIsExact, SettingsInvOffers DEF ScrcpyInv, SessionInv, RecorderInv, PlaybackInv,
     KeyboardInv, ShowTyped, SessionSound
<1> QED
  BY <1>1, ScrcpyInvAlways, PTL

\* What is written of a file goes with the last configuration received,
\* whichever server it came from; and wherever in the streams a recording is
\* started, and whatever is replayed then (recorder.ts, start()), the file
\* begins with a keyframe that has a configuration, as long as no earlier
\* server has reached the recorder (state.tsx:366, 522).
THEOREM RecordingIsDecodable == ScrcpySpec => []RecordingDecodable
<1>1. ScrcpyInv => RecordingDecodable
  BY DEF ScrcpyInv, RecorderInv, Whole, RecorderGood, Filed, RecordingDecodable
<1> QED
  BY <1>1, ScrcpyInvAlways, PTL
=============================================================================
