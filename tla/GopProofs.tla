------------------------------ MODULE GopProofs ------------------------------
(***************************************************************************)
(* What is proved of the GOP queue, for every input length, keyint, table  *)
(* of GOPs, number of workers and window: the stream is the input          *)
(* (OutputIsInput), the store of frames is bounded (StoreBounded).         *)
(***************************************************************************)
EXTENDS GopQueue, FiniteSetTheorems, SequenceTheorems, WellFoundedInduction, TLAPS

-----------------------------------------------------------------------------
(* The inductive invariant. *)

\* A worker in one of these has a GOP.
Active  == {"exist", "first", "carry", "import", "feed", "code", "publish"}
JobPcs  == Active \cup {"unborn", "pull", "leaving", "gone"}
MainPcs == {"wait", "plan", "emit", "write", "fail", "join", "done"}

JobIs(j) ==
  /\ j = [pc |-> j.pc, k |-> j.k, g |-> j.g, i |-> j.i, end |-> j.end, pred |-> j.pred,
          ahead |-> j.ahead, buf |-> j.buf]
  /\ j.pc \in JobPcs /\ j.k \in Int /\ j.g \in Int /\ j.i \in Nat /\ j.end \in Nat
  /\ j.buf \in Seq(Int)

JobsAre == job = [w \in Workers |-> job[w]] /\ \A w \in Workers : JobIs(job[w])

TypeInv ==
  /\ cfg \in Settings
  /\ reader = [pc |-> reader.pc, gop |-> reader.gop]
  /\ reader.pc \in {"space", "read", "ending", "gone"} /\ main \in MainPcs
  /\ bounds \in Seq(Nat) /\ Len(bounds) > 0 /\ nRead \in Nat /\ store \subseteq Nat
  /\ rd \in [0 .. cfg.n -> Nat] /\ cons \in [0 .. cfg.n -> Nat]
  /\ eof \in BOOLEAN /\ abort \in BOOLEAN /\ final \in BOOLEAN /\ streamStart \in BOOLEAN
  /\ nextGop \in Nat
  /\ JobsAre
  /\ done \subseteq Int /\ data \in [0 .. cfg.n -> Seq(Int)] /\ emitted \in Nat
  /\ out \in Seq(Int)

\* Where a GOP begins and ends, once it is known to be one: on a pipe, before the
\* table has it, a multiple of keyint.
Pipe == cfg.kind = "pipe"
Begin(g)  == IF Pipe THEN g * cfg.keyint ELSE bounds[g + 1]
Finish(g) == IF Pipe THEN (g + 1) * cfg.keyint ELSE bounds[g + 2]
IsGop(g)  == IF Pipe THEN g \in Nat ELSE g \in 0 .. nGops - 1

\* A pipe's table: key frames that were read, then the end of the input.
PipeTable ==
  /\ \A g \in 0 .. nGops - 1 : bounds[g + 1] = g * cfg.keyint
  /\ bounds[nGops + 1] <= nGops * cfg.keyint /\ bounds[nGops + 1] <= nRead
  /\ (nGops > 0 => (nGops - 1) * cfg.keyint < bounds[nGops + 1])
  /\ (~final => bounds[nGops + 1] = nGops * cfg.keyint /\ nRead < (nGops + 1) * cfg.keyint)

BoundsInv ==
  /\ bounds[1] = 0
  /\ nRead <= cfg.n
  /\ (~Pipe => bounds = cfg.starts /\ final)
  /\ (Pipe => PipeTable)
  /\ (final /\ ~abort => bounds[nGops + 1] = cfg.n)

\* The frontier of a reader in stream order, the fronts of a seek reader.
InOrderIs ==
  /\ (reader.pc \in {"space", "read"} => nRead < cfg.n)
  /\ (reader.pc \in {"ending", "gone"} /\ ~abort => nRead = cfg.n)
  /\ store \subseteq 0 .. nRead - 1
SeekIs ==
  /\ (reader.pc = "read" => reader.gop \in ToRead)
  /\ (reader.pc \in {"ending", "gone"} /\ ~abort => ToRead = {})
  /\ \A g \in 0 .. nGops - 1 :
       Start(g) <= rd[g] /\ rd[g] <= End(g) /\ (rd[g] > Start(g) => rd[g] <= nRead)

ReaderInv ==
  /\ (eof => reader.pc = "gone") /\ (reader.pc = "gone" => eof /\ final)
  /\ (streamStart => Pipe)
  /\ (~Seek => InOrderIs)
  /\ (Seek => SeekIs)

\* Some worker has or had the GOP.
Taken(g) == IF Static(cfg) THEN g \in Workers /\ job[g].g # None
            ELSE \E k \in 0 .. nextGop - 1 : HandOut(cfg, k) = g

\* A worker has the GOP of its pull, no other worker has it and it is not done.
PullIs(j, w) == IF Static(cfg) THEN j.k = NoPull /\ j.g = w
                ELSE j.k \in 0 .. nextGop - 1 /\ j.g = HandOut(cfg, j.k)
QueueInv ==
  /\ \A w \in Workers : job[w].pc \in Active =>
       IsGop(job[w].g) /\ job[w].g \notin done /\ PullIs(job[w], w)
  /\ \A w \in Workers, v \in Workers : 
       job[w].pc \in Active /\ job[v].pc \in Active /\ v # w => job[v].g # job[w].g
  /\ \A g \in done : Taken(g)
  /\ \A w \in Workers : job[w].pc = "unborn" => job[w].g = None

\* The frames of a seek reader's store lie between the fronts of their GOP.
FrontsAre ==
  /\ \A g \in 0 .. nGops - 1 :
       Start(g) <= cons[g] /\ cons[g] <= rd[g] /\ (~Taken(g) => cons[g] = Start(g))
  /\ \A f \in store : \E g \in 0 .. nGops - 1 : cons[g] <= f /\ f < rd[g]
  /\ \A w \in Workers : job[w].pc \in Active => cons[job[w].g] = job[w].i
FrontsInv == Seek => FrontsAre

\* A frame that was read and is still to be coded is in the store.
Got(g, f) == IF Seek THEN f < rd[g] ELSE f < nRead
Wanted(g, f) == \/ ~Taken(g)
                \/ \E w \in Workers : job[w].pc \in Active /\ job[w].g = g /\ job[w].i <= f
HeldInv == \A g, f \in Nat : IsGop(g) /\ f \in Begin(g) .. Finish(g) - 1
                             /\ Got(g, f) /\ Wanted(g, f) => f \in store

\* What a worker has fed to its encoder is its GOP so far.
Runs(j) == \/ j.g < nGops /\ j.end = End(j.g)
           \/ Pipe /\ j.end = Finish(j.g)
Reached(j) == ~Seek => Begin(j.g) < nRead /\ j.i <= nRead
FedIs(j) == /\ j.i = Begin(j.g) + Len(j.buf) /\ j.i <= Finish(j.g)
            /\ \A m \in 1 .. Len(j.buf) : j.buf[m] = Begin(j.g) + m - 1
JobOf(j) ==
  /\ (j.pc = "exist" => Pipe /\ j.i = 0 /\ j.buf = <<>>)
  /\ (j.pc # "exist" => FedIs(j))
  /\ (j.pc = "first" => j.g < nGops /\ j.end = End(j.g) /\ j.buf = <<>>)
  /\ (j.pc \in {"carry", "import", "feed", "code"} => j.i < j.end /\ Runs(j) /\ Reached(j))
  /\ (j.pc = "code" => j.i \in store)
  /\ (j.pc = "publish" => abort \/ (j.g < nGops /\ j.i = End(j.g)))
JobInv == \A w \in Workers : job[w].pc \in Active => JobOf(job[w])

\* A GOP that is done and not written is whole.
Whole(s, g) == /\ Len(s) = End(g) - Start(g)
               /\ \A m \in 1 .. Len(s) : s[m] = Start(g) + m - 1
DoneInv == ~abort => \A g \in done : g \in 0 .. nGops - 1 /\ (g >= emitted => Whole(data[g], g))

\* What is written is the first e GOPs; e falls behind when a write fails.
OutOf(e) ==
  /\ e \in 0 .. nGops /\ Len(out) = bounds[e + 1]
  /\ (main \in {"wait", "plan", "emit", "write"} => e = emitted)
  /\ (main \in {"join", "done"} /\ ~abort => e = emitted /\ final /\ emitted >= nGops)
OutInv ==
  /\ (main = "write" => emitted < nGops /\ emitted \in done /\ Whole(data[emitted], emitted))
  /\ \E e \in {emitted, emitted - 1} : OutOf(e)
  /\ \A m \in 1 .. Len(out) : out[m] = m - 1
  /\ (main \in {"wait", "plan"} => \A w \in Workers : job[w].pc = "unborn")

IInv == /\ TypeInv /\ BoundsInv /\ ReaderInv /\ QueueInv /\ FrontsInv /\ HeldInv
        /\ JobInv /\ DoneInv /\ OutInv

-----------------------------------------------------------------------------
(* Numbers, the settings, the hand-out order. *)

LEMMA Times == \A a, b \in Nat : a * b \in Nat
  OBVIOUS

\* Runs of K numbers do not overlap.
LEMMA Blocks ==
  ASSUME NEW K \in Nat \ {0}
  PROVE  /\ \A g \in Nat : g * K \in Nat /\ (g + 1) * K = g * K + K /\ g <= g * K
         /\ \A g, h \in Nat : g < h => (g + 1) * K <= h * K
<1>1. \A g \in Nat : g * K \in Nat /\ (g + 1) * K = g * K + K
  OBVIOUS
<1>2. \A g \in Nat : g <= g * K
  OBVIOUS
<1>3. \A g, h \in Nat : g < h => (g + 1) * K <= h * K
  <2> SUFFICES ASSUME NEW g \in Nat, NEW h \in Nat, g < h PROVE (g + 1) * K <= h * K
    OBVIOUS
  <2>1. PICK d \in Nat : h = (g + 1) + d
    <3>1. h - (g + 1) \in Nat /\ h = (g + 1) + (h - (g + 1)) OBVIOUS
    <3> QED BY <3>1
  <2>2. h * K = (g + 1) * K + d * K BY <2>1
  <2> QED BY <2>2, Times
<1> QED BY <1>1, <1>2, <1>3

\* The next multiple of K, one number at a time.
LEMMA NextMultiple ==
  ASSUME NEW K \in Nat \ {0}, NEW q \in Nat, NEW m \in Nat,
         q * K < m, m <= (q + 1) * K
  PROVE  m % K = 0 <=> m = (q + 1) * K
<1>1. m = (m \div K) * K + (m % K) /\ m \div K \in Int /\ m % K \in 0 .. K - 1
  OBVIOUS
<1>2. CASE m = (q + 1) * K
  <2>1. PICK d \in Int : d = m \div K BY <1>1
  <2>2. PICK e \in Nat : e = m % K /\ e < K BY <1>1
  <2>3. (q + 1 - d) * K = e BY <1>1, <1>2, <2>1, <2>2
  <2>4. q + 1 - d = 0 BY <2>2, <2>3
  <2> QED BY <1>2, <2>2, <2>3, <2>4
<1>3. CASE m % K = 0
  <2>1. PICK d \in Int : d = m \div K /\ m = d * K BY <1>1, <1>3
  <2>2. d > q BY <2>1
  <2>3. d < q + 2 BY <2>1
  <2>4. d = q + 1 BY <2>2, <2>3
  <2> QED BY <2>1, <2>4, <1>3
<1> QED BY <1>2, <1>3

LEMMA SettingIs ==
  ASSUME TypeInv
  PROVE  /\ cfg.n \in Nat /\ cfg.keyint \in Nat \ {0} /\ cfg.w \in Nat \ {0}
         /\ cfg.window \in Nat /\ cfg.ceiling \in Nat /\ cfg.readahead \in Nat
         /\ cfg.carry \in BOOLEAN /\ cfg.wait \in BOOLEAN
         /\ cfg.starts \in Seq(Nat) /\ Len(cfg.starts) > 0 /\ cfg.starts[1] = 0
         /\ \A i \in 1 .. Len(cfg.starts) : \A j \in 1 .. i - 1 : cfg.starts[j] < cfg.starts[i]
         /\ (~Pipe => cfg.w < Len(cfg.starts) /\ cfg.starts[Len(cfg.starts)] = cfg.n)
         /\ (Seek => ~Pipe)
         /\ nGops \in Nat
<1>1. cfg \in Settings /\ bounds \in Seq(Nat) /\ Len(bounds) > 0 BY DEF TypeInv
<1>2. nGops \in Nat BY <1>1 DEF nGops
<1>3. /\ cfg.n \in Nat /\ cfg.keyint \in Nat \ {0} /\ cfg.w \in Nat \ {0}
      /\ cfg.window \in Nat /\ cfg.ceiling \in Nat /\ cfg.readahead \in Nat
      /\ cfg.carry \in BOOLEAN /\ cfg.wait \in BOOLEAN
      /\ cfg.starts \in Seq(Nat) /\ Len(cfg.starts) > 0 /\ cfg.starts[1] = 0
      /\ \A i \in 1 .. Len(cfg.starts) : \A j \in 1 .. i - 1 : cfg.starts[j] < cfg.starts[i]
      /\ (cfg.kind # "pipe" => cfg.w < Len(cfg.starts) /\ cfg.starts[Len(cfg.starts)] = cfg.n)
  BY <1>1, SettingsAssumption, Zenon DEF SettingsAssumption
<1> QED BY <1>2, <1>3 DEF Pipe, Seek

\* A strictly increasing table of frames up to n has no more than n GOPs.
LEMMA FewGops ==
  ASSUME NEW n \in Nat, NEW s \in Seq(Nat), Len(s) > 0, s[Len(s)] = n,
         \A i \in 1 .. Len(s) : \A j \in 1 .. i - 1 : s[j] < s[i]
  PROVE  Len(s) <= n + 1
<1> DEFINE F == [i \in 1 .. Len(s) |-> s[i]]
<1>1. Len(s) \in Nat OBVIOUS
<1>2. \A i \in 1 .. Len(s) : s[i] \in 0 .. n
  <2> SUFFICES ASSUME NEW i \in 1 .. Len(s) PROVE s[i] \in 0 .. n OBVIOUS
  <2>1. s[i] \in Nat OBVIOUS
  <2>2. CASE i = Len(s) BY <2>1, <2>2
  <2>3. CASE i # Len(s)
    <3>1. i \in 1 .. Len(s) - 1 /\ Len(s) \in 1 .. Len(s) BY <2>3, <1>1
    <3>2. s[i] < s[Len(s)] BY <3>1
    <3> QED BY <3>2, <2>1
  <2> QED BY <2>2, <2>3
<1>3. F \in Injection(1 .. Len(s), 0 .. n)
  <2>1. F \in [1 .. Len(s) -> 0 .. n] BY <1>2
  <2>2. ASSUME NEW i \in 1 .. Len(s), NEW j \in 1 .. Len(s), F[i] = F[j] PROVE i = j
    <3>1. s[i] \in Nat /\ s[j] \in Nat /\ s[i] = s[j] BY <2>2
    <3>2. ~(i < j) 
      <4> SUFFICES ASSUME i < j PROVE FALSE OBVIOUS
      <4>1. i \in 1 .. j - 1 BY <1>1
      <4> QED BY <3>1, <4>1
    <3>3. ~(j < i)
      <4> SUFFICES ASSUME j < i PROVE FALSE OBVIOUS
      <4>1. j \in 1 .. i - 1 BY <1>1
      <4> QED BY <3>1, <4>1
    <3> QED BY <3>2, <3>3, <1>1
  <2> QED BY <2>1, <2>2 DEF Injection, IsInjective
<1>4. IsFiniteSet(1 .. Len(s)) /\ Cardinality(1 .. Len(s)) = Len(s)
  BY <1>1, FS_Interval
<1>5. IsFiniteSet(0 .. n) /\ Cardinality(0 .. n) = n + 1
  <2>1. IsFiniteSet(0 .. n) /\ Cardinality(0 .. n) = IF 0 > n THEN 0 ELSE n - 0 + 1
    <3> 0 \in Int /\ n \in Int OBVIOUS
    <3> QED BY FS_Interval, Zenon
  <2> QED BY <2>1
<1>6. Cardinality(1 .. Len(s)) <= Cardinality(0 .. n)
  <2> HIDE DEF F
  <2> QED BY <1>3, <1>4, <1>5, FS_Injection
<1> QED BY <1>4, <1>5, <1>6, <1>1

\* The GOPs of the table: where they start and end.
LEMMA TableIs ==
  ASSUME TypeInv, BoundsInv, NEW g \in 0 .. nGops - 1
  PROVE  /\ IsGop(g) /\ g \in Nat /\ Start(g) \in Nat /\ End(g) \in Nat
         /\ Start(g) = Begin(g) /\ Start(g) < End(g) /\ End(g) <= Finish(g)
         /\ (Pipe => End(g) <= nRead) /\ End(g) <= cfg.n
         /\ (g # nGops - 1 => End(g) = Finish(g))
         /\ (g = nGops - 1 => End(g) = bounds[nGops + 1])
<1>1. cfg.n \in Nat /\ nGops \in Nat /\ nRead \in Nat /\ bounds \in Seq(Nat) /\ Len(bounds) = nGops + 1
  BY SettingIs DEF TypeInv, nGops
<1>2. g + 1 \in 1 .. Len(bounds) /\ g + 2 \in 1 .. Len(bounds) /\ g \in Nat
  BY <1>1
<1>3. bounds[g + 1] \in Nat /\ bounds[g + 2] \in Nat
  BY <1>1, <1>2, ElementOfSeq
<1>4. CASE Pipe
  <2>0. PICK K \in Nat \ {0} : K = cfg.keyint BY SettingIs
  <2>1. bounds[g + 1] = g * K /\ nRead <= cfg.n BY <1>4, <2>0 DEF BoundsInv, PipeTable
  <2>2. (g + 1) * K = g * K + K /\ g * K \in Nat BY <2>0, <1>2, Blocks
  <2>3. CASE g = nGops - 1
    <3>1. g + 2 = nGops + 1 /\ g + 1 = nGops BY <2>3, <1>1
    <3>2. bounds[nGops + 1] <= nGops * cfg.keyint /\ bounds[nGops + 1] <= nRead
          /\ (nGops - 1) * cfg.keyint < bounds[nGops + 1]
      BY <1>1, <1>4, <1>2, <2>3 DEF BoundsInv, PipeTable
    <3>3. bounds[g + 2] <= (g + 1) * K /\ bounds[g + 2] <= nRead /\ g * K < bounds[g + 2]
      BY <3>1, <3>2, <2>0, <2>3
    <3> QED BY <1>1, <1>2, <1>3, <1>4, <2>0, <2>1, <3>1, <3>3, <2>3 DEF Begin, Finish, Start, End, IsGop
  <2>4. CASE g # nGops - 1
    <3>1. g + 1 \in 0 .. nGops - 1 /\ (g + 1) + 1 = g + 2 BY <2>4, <1>1, <1>2
    <3>2. bounds[g + 2] = (g + 1) * K
      BY <3>1, <1>4, <2>0 DEF BoundsInv, PipeTable
    <3>3. bounds[g + 2] <= nRead
      <4>1. bounds[nGops + 1] <= nRead /\ (nGops - 1) * cfg.keyint < bounds[nGops + 1]
        BY <1>1, <1>4, <1>2 DEF BoundsInv, PipeTable
      <4>2. g + 1 <= nGops - 1 /\ nGops - 1 \in Nat BY <3>1, <1>1, <1>2
      <4>3. (g + 1) * K <= (nGops - 1) * K
        <5>1. CASE g + 1 = nGops - 1 BY <5>1, <2>2, <2>0, <1>2
        <5>2. CASE g + 1 # nGops - 1
          <6>1. g + 1 < nGops - 1 /\ g + 1 \in Nat BY <5>2, <4>2, <1>2
          <6>2. (g + 1 + 1) * K <= (nGops - 1) * K BY <6>1, <4>2, <2>0, Blocks
          <6>3. (g + 1 + 1) * K = (g + 1) * K + K /\ (g + 1) * K \in Nat BY <6>1, <2>0, Blocks
          <6>4. (nGops - 1) * K \in Nat BY <4>2, <2>0, Times
          <6>5. PICK a, b \in Nat : a = (g + 1) * K /\ b = (nGops - 1) * K /\ a + K <= b
            BY <6>2, <6>3, <6>4
          <6>6. a <= b BY <6>5, <2>0
          <6> QED BY <6>5, <6>6
        <5> QED BY <5>1, <5>2
      <4>4. (nGops - 1) * K \in Nat /\ bounds[nGops + 1] \in Nat
        <5>1. (nGops - 1) * K \in Nat BY <4>2, <2>0, Times
        <5>2. nGops + 1 \in 1 .. Len(bounds) BY <1>1
        <5>3. bounds[nGops + 1] \in Nat BY <5>2, <1>1, ElementOfSeq, Zenon
        <5> QED BY <5>1, <5>3
      <4> QED BY <4>1, <4>3, <4>4, <3>2, <2>0, <2>2, <1>1
    <3>4. bounds[g + 1] < bounds[g + 2] BY <2>1, <2>2, <3>2, <2>0
    <3>5. Start(g) = Begin(g) /\ End(g) = Finish(g) BY <1>4, <2>0, <2>1, <3>2 DEF Begin, Finish, Start, End
    <3>6. IsGop(g) BY <1>4, <1>2 DEF IsGop
    <3> QED BY <1>1, <1>2, <1>3, <1>4, <2>1, <3>3, <3>4, <3>5, <3>6, <2>4 DEF Start, End
  <2> QED BY <2>3, <2>4
<1>5. CASE ~Pipe
  <2>1. bounds = cfg.starts BY <1>5 DEF BoundsInv
  <2>2. g + 1 \in 1 .. (g + 2) - 1 BY <1>2
  <2>3. bounds[g + 1] < bounds[g + 2] BY <2>1, <2>2, <1>2, SettingIs
  <2>4. bounds[g + 2] <= cfg.n
    <3>0. bounds[Len(bounds)] = cfg.n /\ Len(bounds) \in 1 .. Len(bounds)
      BY <2>1, <1>5, <1>1, SettingIs
    <3>1. CASE g + 2 = Len(bounds) BY <3>0, <3>1, <1>1
    <3>2. CASE g + 2 # Len(bounds)
      <4>1. g + 2 \in 1 .. Len(bounds) - 1 BY <3>2, <1>2, <1>1
      <4>2. bounds[g + 2] < bounds[Len(bounds)] BY <4>1, <3>0, <2>1, SettingIs
      <4> QED BY <4>2, <3>0, <1>3, <1>1
    <3> QED BY <3>1, <3>2
  <2> QED BY <1>1, <1>2, <1>3, <1>5, <2>3, <2>4 DEF Begin, Finish, Start, End, IsGop
<1> QED BY <1>4, <1>5

LEMMA GopsFit ==
  ASSUME TypeInv, BoundsInv
  PROVE  nGops <= cfg.n
<1>1. cfg.n \in Nat /\ nGops \in Nat /\ nRead \in Nat /\ bounds \in Seq(Nat) /\ Len(bounds) = nGops + 1
  BY SettingIs DEF TypeInv, nGops
<1>2. CASE ~Pipe
  <2>1. bounds = cfg.starts BY <1>2 DEF BoundsInv
  <2>2. Len(bounds) <= cfg.n + 1
    BY <2>1, <1>1, <1>2, SettingIs, FewGops
  <2> QED BY <2>2, <1>1
<1>3. CASE Pipe
  <2>1. CASE nGops = 0 BY <2>1, <1>1
  <2>2. CASE nGops > 0
    <3>0. PICK K \in Nat \ {0} : K = cfg.keyint BY SettingIs
    <3>1. (nGops - 1) * K < bounds[nGops + 1] /\ bounds[nGops + 1] <= nRead /\ nRead <= cfg.n
      BY <1>3, <2>2, <3>0 DEF BoundsInv, PipeTable
    <3>2. nGops - 1 \in Nat BY <2>2, <1>1
    <3>3. nGops - 1 <= (nGops - 1) * K /\ (nGops - 1) * K \in Nat BY <3>0, <3>2, Blocks
    <3>4. bounds[nGops + 1] \in Nat BY <1>1, ElementOfSeq
    <3> QED BY <3>1, <3>2, <3>3, <3>4, <1>1
  <2> QED BY <2>1, <2>2, <1>1
<1> QED BY <1>2, <1>3

\* The GOPs are apart, those of a pipe before its table has them.
LEMMA GopIs ==
  ASSUME TypeInv, BoundsInv, NEW g, IsGop(g)
  PROVE  /\ g \in Nat /\ Begin(g) \in Nat /\ Finish(g) \in Nat /\ Begin(g) < Finish(g)
         /\ (~Pipe => g \in 0 .. nGops - 1)
<1>1. CASE Pipe
  <2>0. PICK K \in Nat \ {0} : K = cfg.keyint BY SettingIs
  <2>1. g \in Nat BY <1>1 DEF IsGop
  <2>2. (g + 1) * K = g * K + K /\ g * K \in Nat BY <2>0, <2>1, Blocks
  <2> QED BY <1>1, <2>0, <2>1, <2>2 DEF Begin, Finish
<1>2. CASE ~Pipe
  <2>1. g \in 0 .. nGops - 1 BY <1>2 DEF IsGop
  <2>2. Start(g) \in Nat /\ End(g) \in Nat /\ Start(g) < End(g) /\ g \in Nat BY <2>1, TableIs
  <2> QED BY <1>2, <2>1, <2>2 DEF Begin, Finish, Start, End
<1> QED BY <1>1, <1>2

LEMMA GopsApart ==
  ASSUME TypeInv, BoundsInv, NEW g, NEW h, IsGop(g), IsGop(h), g < h
  PROVE  Finish(g) <= Begin(h)
<1>0. g \in Nat /\ h \in Nat BY GopIs
<1>1. CASE Pipe
  BY <1>0, <1>1, SettingIs, Blocks DEF Begin, Finish
<1>2. CASE ~Pipe
  <2>1. g \in 0 .. nGops - 1 /\ h \in 0 .. nGops - 1 BY <1>2 DEF IsGop
  <2>2. nGops \in Nat /\ Len(bounds) = nGops + 1 /\ bounds \in Seq(Nat) BY SettingIs DEF TypeInv, nGops
  <2>3. bounds = cfg.starts BY <1>2 DEF BoundsInv
  <2>4. CASE g + 1 = h BY <2>4, <1>2, <1>0, <2>1, <2>2 DEF Begin, Finish
  <2>5. CASE g + 1 # h
    <3>1. g + 2 \in 1 .. (h + 1) - 1 /\ h + 1 \in 1 .. Len(bounds) BY <2>5, <1>0, <2>1, <2>2
    <3>2. bounds[g + 2] < bounds[h + 1] BY <3>1, <2>3, SettingIs
    <3>3. g + 2 \in 1 .. Len(bounds) BY <2>1, <2>2
    <3>4. bounds[g + 2] \in Nat /\ bounds[h + 1] \in Nat BY <3>1, <3>3, <2>2, ElementOfSeq
    <3> QED BY <3>2, <3>4, <1>2 DEF Begin, Finish
  <2> QED BY <2>4, <2>5
<1> QED BY <1>1, <1>2

\* A frame is of one GOP.
LEMMA OneGop ==
  ASSUME TypeInv, BoundsInv, NEW g, NEW h, IsGop(g), IsGop(h),
         NEW f \in Begin(g) .. Finish(g) - 1, f \in Begin(h) .. Finish(h) - 1
  PROVE  g = h
<1>1. /\ g \in Nat /\ Begin(g) \in Nat /\ Finish(g) \in Nat
      /\ h \in Nat /\ Begin(h) \in Nat /\ Finish(h) \in Nat
  BY GopIs
<1>2. ~(g < h)
  <2> SUFFICES ASSUME g < h PROVE FALSE OBVIOUS
  <2>1. Finish(g) <= Begin(h) BY GopsApart
  <2> QED BY <2>1, <1>1
<1>3. ~(h < g)
  <2> SUFFICES ASSUME h < g PROVE FALSE OBVIOUS
  <2>1. Finish(h) <= Begin(g) BY GopsApart
  <2> QED BY <2>1, <1>1
<1> QED BY <1>1, <1>2, <1>3

\* Two pulls are handed two GOPs, and every pull of the table one of the table.
LEMMA HandedOnce ==
  ASSUME TypeInv, BoundsInv, NEW k \in Nat, NEW l \in Nat
  PROVE  /\ HandOut(cfg, k) \in Nat
         /\ (k # l => HandOut(cfg, k) # HandOut(cfg, l))
         /\ (k < nGops => HandOut(cfg, k) \in 0 .. nGops - 1)
         /\ (k >= nGops => HandOut(cfg, k) = k)
<1>1. cfg \in Settings /\ nGops \in Nat BY SettingIs DEF TypeInv
<1>2. CASE Queued(cfg)
  <2>1. KnownGops(cfg) = 0 .. nGops - 1
    BY <1>1, <1>2 DEF Queued, KnownGops, nGops, BoundsInv, Pipe
  <2>2. cfg \in {x \in Settings : Queued(x)} BY <1>1, <1>2
  <2>3. \A i \in KnownGops(cfg) : HandOut(cfg, i) \in KnownGops(cfg)
    BY <2>2, OrderAssumption DEF OrderAssumption
  <2>4. \A i \in KnownGops(cfg) : \A j \in KnownGops(cfg) \ {i} : HandOut(cfg, i) # HandOut(cfg, j)
    BY <2>2, OrderAssumption DEF OrderAssumption
  <2>5. \A i : i \notin KnownGops(cfg) => HandOut(cfg, i) = i BY DEF HandOut
  <2> HIDE DEF HandOut, KnownGops, Queued
  <2> QED BY <1>1, <2>1, <2>3, <2>4, <2>5
<1>3. CASE ~Queued(cfg)
  <2>1. \A i : HandOut(cfg, i) = i BY <1>3 DEF HandOut
  <2> QED BY <2>1, <1>1
<1> QED BY <1>2, <1>3

-----------------------------------------------------------------------------
(* What never goes back: the table, the frontier, the flags. *)

Grows == /\ cfg' = cfg
         /\ (bounds' = bounds \/ (~final /\ \E x \in Nat : bounds' = Append(bounds, x)))
         /\ (abort => abort') /\ (final => final') /\ nRead <= nRead'

LEMMA GrownTable ==
  ASSUME TypeInv, TypeInv', BoundsInv, BoundsInv', Grows
  PROVE  /\ nGops <= nGops' /\ Len(bounds) <= Len(bounds')
         /\ \A i \in 1 .. Len(bounds) : bounds'[i] = bounds[i]
         /\ \A g \in 0 .. nGops - 1 : g \in 0 .. nGops' - 1 /\ Start(g)' = Start(g) /\ End(g)' = End(g)
         /\ \A g : IsGop(g) => IsGop(g)' /\ Begin(g)' = Begin(g) /\ Finish(g)' = Finish(g)
<1>1. /\ bounds \in Seq(Nat) /\ bounds' \in Seq(Nat) /\ nGops \in Nat /\ nGops' \in Nat
      /\ Len(bounds) = nGops + 1 /\ Len(bounds') = nGops' + 1
  <2>1. nGops \in Nat /\ nGops' \in Nat BY DEF TypeInv, nGops
  <2> QED BY <2>1 DEF TypeInv, nGops
<1>2. Len(bounds) <= Len(bounds') /\ \A i \in 1 .. Len(bounds) : bounds'[i] = bounds[i]
  <2>1. CASE bounds' = bounds BY <2>1, <1>1
  <2>2. CASE \E x \in Nat : bounds' = Append(bounds, x)
    <3>1. PICK x \in Nat : bounds' = Append(bounds, x) BY <2>2
    <3>2. \A i \in 1 .. Len(bounds) : Append(bounds, x)[i] = bounds[i] BY <3>1, <1>1, AppendProperties
    <3>3. Len(Append(bounds, x)) = Len(bounds) + 1 BY <3>1, <1>1, AppendProperties
    <3>4. Len(bounds) \in Nat BY <1>1
    <3>5. Len(bounds) <= Len(Append(bounds, x)) BY <3>3, <3>4
    <3> QED BY <3>1, <3>2, <3>5, Zenon
  <2> QED BY <2>1, <2>2 DEF Grows
<1>6. nGops <= nGops'
  <2>1. PICK a, b \in Nat : a = nGops /\ b = nGops' /\ a + 1 = Len(bounds) /\ b + 1 = Len(bounds')
    BY <1>1
  <2>2. a <= b BY <2>1, <1>2
  <2> QED BY <2>1, <2>2
<1>7. PICK n \in Nat : n = nGops BY <1>1
<1>8. PICK m \in Nat : m = nGops' /\ n <= m BY <1>1, <1>6, <1>7
<1>3. \A g \in 0 .. nGops - 1 : g \in 0 .. nGops' - 1 /\ Start(g)' = Start(g) /\ End(g)' = End(g)
  <2> SUFFICES ASSUME NEW g \in 0 .. nGops - 1
               PROVE  g \in 0 .. nGops' - 1 /\ Start(g)' = Start(g) /\ End(g)' = End(g)
    OBVIOUS
  <2>1. g + 1 \in 1 .. Len(bounds) /\ g + 2 \in 1 .. Len(bounds) BY <1>1
  <2>2. bounds'[g + 1] = bounds[g + 1] /\ bounds'[g + 2] = bounds[g + 2] BY <2>1, <1>2
  <2>3. g \in 0 .. nGops' - 1
    <3>1. g \in 0 .. n - 1 BY <1>7
    <3>0. n \in Nat /\ m \in Nat /\ n <= m BY <1>7, <1>8
    <3>2. g \in 0 .. m - 1 BY <3>1, <3>0
    <3> QED BY <3>2, <1>8
  <2> QED BY <2>2, <2>3 DEF Start, End
<1>4. Pipe' = Pipe /\ cfg' = cfg BY DEF Grows, Pipe
<1>5. ASSUME NEW g, IsGop(g)
      PROVE  IsGop(g)' /\ Begin(g)' = Begin(g) /\ Finish(g)' = Finish(g)
  <2>1. CASE Pipe BY <2>1, <1>4, <1>5 DEF IsGop, Begin, Finish
  <2>2. CASE ~Pipe
    <3>1. bounds' = bounds BY <2>2, <1>4 DEF BoundsInv
    <3>2. nGops' = nGops BY <3>1 DEF nGops
    <3> QED BY <2>2, <1>4, <1>5, <3>1, <3>2 DEF IsGop, Begin, Finish
  <2> QED BY <2>1, <2>2
<1> QED BY <1>2, <1>3, <1>5, <1>6, Zenon

\* What the workers and the writer rely on is kept by a step of the reader.
LEMMA ReaderKeeps ==
  ASSUME IInv, TypeInv', BoundsInv', Grows,
         UNCHANGED <<main, nextGop, job, done, data, emitted, out>>, store \subseteq store'
  PROVE  QueueInv' /\ JobInv' /\ DoneInv' /\ OutInv'
<1>0. TypeInv /\ BoundsInv /\ QueueInv /\ JobInv /\ DoneInv /\ OutInv BY DEF IInv
<1>1. /\ nGops <= nGops' /\ Len(bounds) <= Len(bounds')
      /\ \A i \in 1 .. Len(bounds) : bounds'[i] = bounds[i]
      /\ \A g \in 0 .. nGops - 1 : g \in 0 .. nGops' - 1 /\ Start(g)' = Start(g) /\ End(g)' = End(g)
      /\ \A g : IsGop(g) => IsGop(g)' /\ Begin(g)' = Begin(g) /\ Finish(g)' = Finish(g)
  BY <1>0, GrownTable
<1>2. /\ cfg' = cfg /\ Workers' = Workers /\ Pipe' = Pipe /\ Seek' = Seek /\ nGops \in Nat /\ nGops' \in Nat
      /\ nRead \in Nat /\ nRead' \in Nat /\ nRead <= nRead' /\ (abort => abort') /\ (final => final')
  <2>1. nGops \in Nat /\ nGops' \in Nat BY <1>0 DEF TypeInv, nGops
  <2> QED BY <2>1, <1>0 DEF Grows, Workers, Pipe, Seek, TypeInv
<1>3. QueueInv'
  <2>1. \A g : Taken(g)' = Taken(g) BY <1>2 DEF Taken
  <2>2. \A w : PullIs(job[w], w)' = PullIs(job[w], w) BY <1>2 DEF PullIs
  <2>3. \A w \in Workers : job'[w].pc \in Active =>
            IsGop(job[w].g)' /\ job'[w].g \notin done' /\ PullIs(job[w], w)'
    <3> SUFFICES ASSUME NEW w \in Workers, job[w].pc \in Active
                 PROVE  IsGop(job[w].g)' /\ job[w].g \notin done /\ PullIs(job[w], w)'
      OBVIOUS
    <3>1. IsGop(job[w].g) /\ job[w].g \notin done /\ PullIs(job[w], w) BY <1>0 DEF QueueInv
    <3>2. PICK g : g = job[w].g OBVIOUS
    <3>3. IsGop(g)' BY <3>1, <3>2, <1>1
    <3>4. IsGop(job[w].g)' BY <3>2, <3>3 DEF IsGop
    <3> QED BY <3>1, <3>4, <2>2
  <2>4. \A w \in Workers, v \in Workers :
            job'[w].pc \in Active /\ job'[v].pc \in Active /\ v # w => job'[v].g # job'[w].g
    BY <1>0 DEF QueueInv
  <2>5. \A g \in done' : Taken(g)' BY <1>0, <2>1 DEF QueueInv
  <2>6. \A w \in Workers : job'[w].pc = "unborn" => job'[w].g = None
    BY <1>0 DEF QueueInv
  <2> QED BY <1>2, <2>3, <2>4, <2>5, <2>6 DEF QueueInv
<1>4. JobInv'
  <2> SUFFICES ASSUME NEW w \in Workers, job'[w].pc \in Active PROVE JobOf(job[w])'
    BY <1>2 DEF JobInv
  <2>1. PICK j : j = job[w] OBVIOUS
  <2>2. JobIs(j) /\ j.pc \in Active /\ JobOf(j) /\ IsGop(j.g) /\ job'[w] = j
    BY <2>1, <1>0 DEF TypeInv, JobsAre, JobInv, QueueInv
  <2>3. j.g \in Nat /\ Begin(j.g) \in Nat /\ j.i \in Nat BY <2>2, <1>0, GopIs DEF JobIs
  <2>4. Begin(j.g)' = Begin(j.g) /\ Finish(j.g)' = Finish(j.g) BY <2>2, <1>1
  <2>5. j.g < nGops => j.g < nGops' /\ End(j.g)' = End(j.g) BY <2>3, <1>1, <1>2
  <2>6. FedIs(j) => FedIs(j)' BY <2>4 DEF FedIs
  <2>7. Runs(j) => Runs(j)' BY <2>4, <2>5, <1>2 DEF Runs
  <2>8. Reached(j) => Reached(j)' BY <2>4, <2>3, <1>2 DEF Reached
  <2>9. JobOf(j)'
    BY <2>2, <2>5, <2>6, <2>7, <2>8, <1>2 DEF JobOf
  <2> QED BY <2>9, <2>2, Zenon DEF JobOf, FedIs, Runs, Reached
<1>5. DoneInv'
  <2> SUFFICES ASSUME ~abort', NEW g \in done
               PROVE  g \in 0 .. nGops' - 1 /\ (g >= emitted => Whole(data[g], g)')
    BY DEF DoneInv
  <2>1. g \in 0 .. nGops - 1 /\ (g >= emitted => Whole(data[g], g))
    BY <1>0, <1>2 DEF DoneInv
  <2> QED BY <2>1, <1>1 DEF Whole
<1>6. OutInv'
  <2>1. main' = "write" => emitted' < nGops' /\ emitted' \in done' /\ Whole(data[emitted], emitted)'
    <3>1. main = "write" => emitted < nGops /\ emitted \in done /\ Whole(data[emitted], emitted)
      BY <1>0 DEF OutInv
    <3>2. emitted \in Nat BY <1>0 DEF TypeInv
    <3>3. ASSUME main = "write" PROVE emitted < nGops' /\ Whole(data[emitted], emitted)'
      <4>1. emitted \in 0 .. nGops - 1 BY <3>1, <3>2, <3>3, <1>2
      <4>2. Start(emitted)' = Start(emitted) /\ End(emitted)' = End(emitted)
        <5> PICK e : e = emitted OBVIOUS
        <5>1. Start(e)' = Start(e) /\ End(e)' = End(e) BY <4>1, <1>1
        <5> QED BY <5>1 DEF Start, End
      <4>3. Whole(data[emitted], emitted)' BY <3>1, <3>3, <4>2 DEF Whole
      <4> QED BY <4>1, <4>3, <1>1, <1>2
    <3> QED BY <3>1, <3>3, Zenon
  <2>2. \E e \in {emitted', emitted' - 1} : OutOf(e)'
    <3>1. PICK e \in {emitted, emitted - 1} : OutOf(e) BY <1>0 DEF OutInv
    <3>2. e \in 0 .. nGops /\ Len(out) = bounds[e + 1] BY <3>1 DEF OutOf
    <3>3. e \in 0 .. nGops' /\ bounds'[e + 1] = bounds[e + 1]
      <4>1. Len(bounds) = nGops + 1 BY <1>0 DEF TypeInv, nGops
      <4>2. e + 1 \in 1 .. Len(bounds) BY <4>1, <3>2, <1>2
      <4> QED BY <4>2, <3>2, <1>1, <1>2
    <3>4. ASSUME main' \in {"join", "done"}, ~abort'
          PROVE  e = emitted' /\ final' /\ emitted' >= nGops'
      <4>1. e = emitted /\ final /\ emitted >= nGops BY <3>1, <3>4, <1>2 DEF OutOf
      <4>2. nGops' = nGops BY <4>1 DEF Grows, nGops
      <4> QED BY <4>1, <4>2, <1>2
    <3>5. main' \in {"wait", "plan", "emit", "write"} => e = emitted'
      BY <3>1 DEF OutOf
    <3>6. OutOf(e)' BY <3>2, <3>3, <3>4, <3>5 DEF OutOf
    <3> QED BY <3>6
  <2>3. \A m \in 1 .. Len(out') : out'[m] = m - 1 BY <1>0 DEF OutInv
  <2>4. main' \in {"wait", "plan"} => \A w \in Workers' : job'[w].pc = "unborn"
    BY <1>0, <1>2 DEF OutInv
  <2> QED BY <2>1, <2>2, <2>3, <2>4 DEF OutInv
<1> QED BY <1>3, <1>4, <1>5, <1>6

-----------------------------------------------------------------------------
(* The reader. *)

\* A boundary pushed on a pipe's table.
LEMMA PipePush ==
  ASSUME TypeInv, BoundsInv, Pipe, ~final, NEW K \in Nat \ {0}, K = cfg.keyint,
         NEW m \in Nat, nGops * K < m, bounds' = Append(bounds, m)
  PROVE  /\ nGops' = nGops + 1 /\ Len(bounds') = nGops + 2
         /\ bounds'[1] = 0 /\ bounds'[nGops + 2] = m
         /\ \A g \in 0 .. nGops : bounds'[g + 1] = g * K
<1>1. nGops \in Nat /\ bounds \in Seq(Nat) /\ Len(bounds) = nGops + 1 BY DEF TypeInv, nGops
<1>2. /\ Len(bounds') = nGops + 2 /\ bounds'[nGops + 2] = m
      /\ \A i \in 1 .. nGops + 1 : bounds'[i] = bounds[i]
  BY <1>1, AppendProperties
<1>3. nGops' = nGops + 1
  <2>1. nGops' = Len(bounds') - 1 BY DEF nGops
  <2> QED BY <2>1, <1>1, <1>2
<1>4. bounds[1] = 0 /\ \A g \in 0 .. nGops - 1 : bounds[g + 1] = g * K
  BY DEF BoundsInv, PipeTable
<1>5. bounds[nGops + 1] = nGops * K BY DEF BoundsInv, PipeTable
<1>6. ASSUME NEW g \in 0 .. nGops PROVE bounds'[g + 1] = g * K
  <2>1. g + 1 \in 1 .. nGops + 1 BY <1>1
  <2>2. bounds'[g + 1] = bounds[g + 1] BY <2>1, <1>2
  <2>3. CASE g = nGops BY <2>2, <2>3, <1>5
  <2>4. CASE g # nGops
    <3>1. g \in 0 .. nGops - 1 BY <2>4, <1>1
    <3> QED BY <3>1, <2>2, <1>4
  <2> QED BY <2>3, <2>4
<1> QED BY <1>1, <1>2, <1>3, <1>4, <1>6

\* Nothing is wanted that was not, nothing is got but what a step adds to the store.
LEMMA HeldKept ==
  ASSUME IInv, TypeInv', BoundsInv', Grows, UNCHANGED <<nextGop, job>>,
         store \subseteq store',
         \A g, f \in Nat : IsGop(g) /\ f \in Begin(g) .. Finish(g) - 1 /\ Got(g, f)' => Got(g, f) \/ f \in store'
  PROVE  HeldInv'
<1>0. TypeInv /\ BoundsInv /\ HeldInv BY DEF IInv
<1>1. cfg' = cfg /\ Workers' = Workers /\ Pipe' = Pipe BY DEF Grows, Workers, Pipe
<1>2. \A g : IsGop(g)' => IsGop(g)
  <2>1. CASE Pipe BY <2>1, <1>1 DEF IsGop
  <2>2. CASE ~Pipe
    <3>1. bounds' = bounds BY <2>2, <1>1, <1>0 DEF BoundsInv
    <3> QED BY <3>1, <2>2, <1>1 DEF IsGop, nGops
  <2> QED BY <2>1, <2>2
<1>3. \A g : IsGop(g) => Begin(g)' = Begin(g) /\ Finish(g)' = Finish(g) BY <1>0, GrownTable
<1>4. \A g, f : Wanted(g, f)' = Wanted(g, f) BY <1>1 DEF Wanted, Taken
<1> SUFFICES ASSUME NEW g \in Nat, NEW f \in Nat, IsGop(g)', f \in (Begin(g) .. Finish(g) - 1)',
                    Got(g, f)', Wanted(g, f)'
             PROVE  f \in store'
  BY DEF HeldInv
<1>5. IsGop(g) /\ f \in Begin(g) .. Finish(g) - 1 BY <1>2, <1>3
<1>6. Wanted(g, f) BY <1>4
<1>7. Got(g, f) \/ f \in store' BY <1>5
<1> QED BY <1>0, <1>5, <1>6, <1>7 DEF HeldInv

LEMMA StepReaderPublish == IInv /\ ReaderPublish => IInv'
<1> SUFFICES ASSUME IInv, ReaderPublish PROVE IInv' OBVIOUS
<1>0. TypeInv /\ BoundsInv /\ ReaderInv BY DEF IInv
<1>1. /\ reader.pc = "read" /\ ~Seek /\ nRead' = nRead + 1 /\ store' = store \cup {nRead}
      /\ reader' = [reader EXCEPT !.pc = IF nRead' = cfg.n THEN "ending" ELSE "space"]
      /\ UNCHANGED <<cfg, main, rd, cons, eof, abort, final, streamStart, nextGop, job, done, data,
                     emitted, out>>
      /\ IF ~final /\ nRead' % cfg.keyint = 0 THEN bounds' = Append(bounds, nRead') ELSE bounds' = bounds
  BY DEF ReaderPublish, Pushed, table, flags, output
<1>2. /\ nRead \in Nat /\ nRead < cfg.n /\ nGops \in Nat /\ bounds \in Seq(Nat) /\ Len(bounds) = nGops + 1
      /\ cfg.n \in Nat /\ store \subseteq 0 .. nRead - 1
  <2>1. nGops \in Nat /\ nRead \in Nat /\ bounds \in Seq(Nat) /\ Len(bounds) = nGops + 1
    BY <1>0 DEF TypeInv, nGops
  <2>2. nRead < cfg.n /\ store \subseteq 0 .. nRead - 1 BY <1>0, <1>1 DEF ReaderInv, InOrderIs
  <2> QED BY <2>1, <2>2, <1>0, SettingIs
<1>3. PICK K \in Nat \ {0} : K = cfg.keyint BY <1>0, SettingIs
<1>4. bounds' = bounds \/ (~final /\ \E x \in Nat : bounds' = Append(bounds, x)) BY <1>1, <1>2
<1>5. Grows BY <1>1, <1>2, <1>4 DEF Grows
<1>6. TypeInv'
  <2>1. bounds' \in Seq(Nat) /\ Len(bounds') > 0
    <3>1. CASE bounds' = bounds BY <3>1, <1>2
    <3>2. CASE \E x \in Nat : bounds' = Append(bounds, x) BY <3>2, <1>2
    <3> QED BY <3>1, <3>2, <1>4
  <2>2. nRead' \in Nat /\ store' \subseteq Nat BY <1>1, <1>2
  <2>3. reader' = [pc |-> reader'.pc, gop |-> reader'.gop] /\ reader'.pc \in {"space", "read", "ending", "gone"}
    BY <1>0, <1>1 DEF TypeInv
  <2>4. Workers' = Workers /\ JobsAre' BY <1>0, <1>1 DEF TypeInv, JobsAre, Workers
  <2> QED BY <1>0, <1>1, <2>1, <2>2, <2>3, <2>4 DEF TypeInv
<1>7. BoundsInv'
  <2>0. Pipe' = Pipe /\ nRead' <= cfg'.n BY <1>1, <1>2 DEF Pipe
  <2>1. CASE final
    <3>1. bounds' = bounds /\ nGops' = nGops /\ final' BY <2>1, <1>1 DEF nGops
    <3>2. bounds[nGops + 1] \in Nat BY <1>2, ElementOfSeq
    <3>3. Pipe => PipeTable'
      <4> SUFFICES ASSUME Pipe PROVE PipeTable' OBVIOUS
      <4>1. PipeTable BY <1>0 DEF BoundsInv
      <4>2. bounds[nGops + 1] <= nRead' BY <4>1, <3>2, <1>1, <1>2 DEF PipeTable
      <4> QED BY <4>1, <4>2, <3>1, <1>1 DEF PipeTable
    <3> QED BY <1>0, <1>1, <2>0, <3>1, <3>3 DEF BoundsInv
  <2>2. CASE ~final
    <3>1. Pipe BY <2>2, <1>0 DEF BoundsInv
    <3>2. PICK m \in Nat : m = nRead + 1 /\ m = nRead' BY <1>1, <1>2
    <3>3. nGops * K \in Nat /\ (nGops + 1) * K = nGops * K + K /\ (nGops + 1) * K \in Nat
      <4>1. nGops * K \in Nat /\ (nGops + 1) * K = nGops * K + K BY <1>2, Blocks, Zenon
      <4>2. nGops + 1 \in Nat BY <1>2
      <4>3. (nGops + 1) * K \in Nat BY <4>2, Blocks, Zenon
      <4> QED BY <4>1, <4>3
    <3>4. bounds[nGops + 1] = nGops * K /\ bounds[nGops + 1] <= nRead /\ nRead < (nGops + 1) * K
      BY <3>1, <2>2, <1>0, <1>3 DEF BoundsInv, PipeTable
    <3>5. nGops * K < m /\ m <= (nGops + 1) * K BY <3>2, <3>3, <3>4, <1>2
    <3>6. m % K = 0 <=> m = (nGops + 1) * K BY <3>5, <1>2, <1>3, NextMultiple
    <3>7. CASE m % K = 0
      <4>1. bounds' = Append(bounds, m) BY <3>7, <3>2, <1>1, <1>3, <2>2
      <4>2. /\ nGops' = nGops + 1 /\ bounds'[1] = 0 /\ bounds'[nGops + 2] = m
            /\ \A g \in 0 .. nGops : bounds'[g + 1] = g * K
        BY <4>1, <3>5, <3>1, <2>2, <1>0, <1>3, PipePush
      <4>3. m = (nGops + 1) * K BY <3>6, <3>7
      <4>4. (nGops + 1 + 1) * K = (nGops + 1) * K + K
        <5>1. nGops + 1 \in Nat BY <1>2
        <5> QED BY <5>1, Blocks, Zenon
      <4>5. PipeTable'
        <5>1. cfg'.keyint = K /\ nRead' = m BY <1>1, <1>3, <3>2
        <5>2. \A g \in 0 .. nGops' - 1 : bounds'[g + 1] = g * K
          <6>1. nGops' - 1 = nGops BY <4>2, <1>2
          <6> QED BY <6>1, <4>2
        <5>3. nGops' + 1 = nGops + 2 /\ nGops' - 1 = nGops BY <4>2, <1>2
        <5>4. bounds'[nGops' + 1] = m /\ nGops' * K = m BY <5>3, <4>2, <4>3
        <5>5. m < (nGops' + 1) * K BY <4>2, <4>3, <4>4, <3>3, <1>3
        <5> QED BY <5>1, <5>2, <5>3, <5>4, <5>5, <3>5 DEF PipeTable
      <4> QED BY <4>2, <4>5, <2>0, <3>1, <1>1, <2>2 DEF BoundsInv
    <3>8. CASE m % K # 0
      <4>1. bounds' = bounds /\ nGops' = nGops BY <3>8, <3>2, <1>1, <1>3 DEF nGops
      <4>2. m < (nGops + 1) * K BY <3>8, <3>6, <3>5, <3>3
      <4>3. PipeTable'
        <5>1. cfg'.keyint = K /\ nRead' = m BY <1>1, <1>3, <3>2
        <5>2. PipeTable BY <3>1, <1>0 DEF BoundsInv
        <5>3. bounds[nGops + 1] <= m BY <3>4, <3>5, <3>3
        <5> QED BY <5>1, <5>2, <5>3, <4>1, <4>2, <1>1, <1>3 DEF PipeTable
      <4> QED BY <4>1, <4>3, <2>0, <3>1, <1>0, <1>1, <2>2 DEF BoundsInv
    <3> QED BY <3>7, <3>8
  <2> QED BY <2>1, <2>2
<1>8. ReaderInv'
  <2>1. reader'.pc \in {"space", "ending"} BY <1>0, <1>1 DEF TypeInv
  <2>2. ~Seek' /\ Pipe' = Pipe BY <1>1 DEF Seek, Pipe
  <2>3. reader'.pc = "space" => nRead' < cfg'.n
    <3>1. reader'.pc = "space" => nRead' # cfg.n BY <1>0, <1>1 DEF TypeInv
    <3> QED BY <3>1, <1>1, <1>2
  <2>4. reader'.pc = "ending" => nRead' = cfg'.n BY <1>0, <1>1 DEF TypeInv
  <2>5. store' \subseteq 0 .. nRead' - 1 BY <1>1, <1>2
  <2>6. InOrderIs' BY <2>1, <2>3, <2>4, <2>5 DEF InOrderIs
  <2> QED BY <1>0, <1>1, <2>1, <2>2, <2>6 DEF ReaderInv
<1>9. HeldInv'
  <2>1. \A g, f \in Nat : Got(g, f)' => Got(g, f) \/ f \in store'
    <3> SUFFICES ASSUME NEW g \in Nat, NEW f \in Nat, Got(g, f)' PROVE Got(g, f) \/ f \in store'
      OBVIOUS
    <3>1. f < nRead + 1 BY <1>1 DEF Got, Seek
    <3>2. f < nRead \/ f = nRead BY <3>1, <1>2
    <3> QED BY <3>2, <1>1 DEF Got, Seek
  <2>2. store \subseteq store' /\ UNCHANGED <<nextGop, job>> BY <1>1
  <2> QED BY <2>1, <2>2, <1>5, <1>6, <1>7, HeldKept
<1>10. QueueInv' /\ JobInv' /\ DoneInv' /\ OutInv'
  <2>1. store \subseteq store' /\ UNCHANGED <<main, nextGop, job, done, data, emitted, out>> BY <1>1
  <2> QED BY <2>1, <1>5, <1>6, <1>7, ReaderKeeps
<1>11. FrontsInv' BY <1>1 DEF FrontsInv, Seek
<1> QED BY <1>6, <1>7, <1>8, <1>9, <1>10, <1>11 DEF IInv

LEMMA FrontsSame ==
  ASSUME FrontsInv, UNCHANGED <<cfg, bounds, store, rd, cons, nextGop, job>>
  PROVE  FrontsInv'
<1>1. Seek' = Seek /\ nGops' = nGops /\ Workers' = Workers BY DEF Seek, nGops, Workers
<1>2. \A g : Start(g)' = Start(g) /\ Taken(g)' = Taken(g) BY <1>1 DEF Start, Taken
<1> QED BY <1>1, <1>2 DEF FrontsInv, FrontsAre

\* Every GOP of the table has a place in the queue.
LEMMA PositionIs ==
  ASSUME TypeInv, BoundsInv, NEW g \in 0 .. nGops - 1
  PROVE  Position(g) \in 0 .. nGops - 1 /\ HandOut(cfg, Position(g)) = g
<1>1. cfg \in Settings /\ nGops \in Nat BY SettingIs DEF TypeInv
<1>2. \E k \in 0 .. nGops - 1 : HandOut(cfg, k) = g
  <2>1. CASE Queued(cfg)
    <3>1. KnownGops(cfg) = 0 .. nGops - 1
      BY <1>1, <2>1 DEF Queued, KnownGops, nGops, BoundsInv, Pipe
    <3>2. cfg \in {x \in Settings : Queued(x)} BY <1>1, <2>1
    <3>3. \A h \in KnownGops(cfg) : \E k \in KnownGops(cfg) : HandOut(cfg, k) = h
      BY <3>2, OrderAssumption DEF OrderAssumption
    <3> QED BY <3>1, <3>3
  <2>2. CASE ~Queued(cfg) BY <2>2 DEF HandOut
  <2> QED BY <2>1, <2>2
<1> QED BY <1>2 DEF Position

\* A finite choice of least lead, then of least position, is there to be made.
LEMMA SeekPickIs ==
  ASSUME TypeInv, BoundsInv, FrontsInv, Seek, Candidates # {}
  PROVE  SeekPick \in Candidates
<1>1. nGops \in Nat /\ nGops <= cfg.n /\ cfg.n \in Nat BY SettingIs, GopsFit
<1>2. Candidates \subseteq 0 .. nGops - 1 BY DEF Candidates, ToRead
<1>3. \A g \in Candidates : Lead(g) \in Nat
  <2> SUFFICES ASSUME NEW g \in Candidates PROVE Lead(g) \in Nat OBVIOUS
  <2>1. g \in 0 .. nGops - 1 /\ g \in 0 .. cfg.n BY <1>1, <1>2
  <2>2. rd[g] \in Nat /\ cons[g] \in Nat /\ cons[g] <= rd[g]
    BY <2>1 DEF TypeInv, FrontsInv, FrontsAre
  <2> QED BY <2>2 DEF Lead
<1>4. \A g \in Candidates : Position(g) \in Nat /\ HandOut(cfg, Position(g)) = g
  BY <1>1, <1>2, PositionIs
<1>5. PICK l \in {Lead(g) : g \in Candidates} : \A g \in Candidates : l <= Lead(g)
  <2>1. {Lead(g) : g \in Candidates} \subseteq Nat /\ {Lead(g) : g \in Candidates} # {} BY <1>3
  <2>2. PICK l \in {Lead(g) : g \in Candidates} :
          \A y \in {Lead(g) : g \in Candidates} : ~(<<y, l>> \in OpToRel(<, Nat))
    BY <2>1, NatLessThanWellFounded, WFMin
  <2>3. \A g \in Candidates : ~(Lead(g) < l)
    BY <2>1, <2>2, <1>3 DEF OpToRel
  <2> QED BY <2>1, <2>3, <1>3
<1>6. PICK p \in {Position(g) : g \in {h \in Candidates : Lead(h) = l}} :
        \A g \in Candidates : Lead(g) = l => p <= Position(g)
  <2> DEFINE T == {Position(g) : g \in {h \in Candidates : Lead(h) = l}}
  <2>1. T \subseteq Nat /\ T # {} BY <1>4, <1>5
  <2>2. PICK q \in T : \A y \in T : ~(<<y, q>> \in OpToRel(<, Nat))
    BY <2>1, NatLessThanWellFounded, WFMin
  <2>3. \A g \in Candidates : Lead(g) = l => ~(Position(g) < q)
    BY <2>1, <2>2, <1>4 DEF OpToRel
  <2> QED BY <2>1, <2>3, <1>4
<1>7. PICK g \in Candidates : Lead(g) = l /\ p = Position(g) BY <1>6
<1>8. ASSUME NEW h \in Candidates \ {g}
      PROVE  Lead(g) < Lead(h) \/ (Lead(g) = Lead(h) /\ Position(g) < Position(h))
  <2>1. Lead(g) <= Lead(h) /\ Lead(g) \in Nat /\ Lead(h) \in Nat BY <1>3, <1>5, <1>7
  <2>2. Position(g) # Position(h) BY <1>4
  <2>3. Lead(h) = Lead(g) => Position(g) <= Position(h) BY <1>6, <1>7
  <2>4. Position(g) \in Nat /\ Position(h) \in Nat BY <1>4
  <2> QED BY <2>1, <2>2, <2>3, <2>4
<1> QED BY <1>7, <1>8 DEF SeekPick

LEMMA StepReaderEnd == IInv /\ ReaderEnd => IInv'
<1> SUFFICES ASSUME IInv, ReaderEnd PROVE IInv' OBVIOUS
<1>0. TypeInv /\ BoundsInv /\ ReaderInv BY DEF IInv
<1>1. /\ reader.pc = "ending" /\ eof' = TRUE /\ final' = TRUE
      /\ reader' = [reader EXCEPT !.pc = "gone"]
      /\ UNCHANGED <<cfg, main, nRead, store, rd, cons, abort, streamStart, nextGop, job, done, data, emitted, out>>
      /\ IF ~final /\ nRead > bounds[Len(bounds)] THEN bounds' = Append(bounds, nRead) ELSE bounds' = bounds
  BY DEF ReaderEnd, Pushed, table, output
<1>2. /\ nRead \in Nat /\ nGops \in Nat /\ bounds \in Seq(Nat) /\ Len(bounds) = nGops + 1 /\ nGops + 1 \in Nat
  BY <1>0 DEF TypeInv, nGops
<1>3. PICK K \in Nat \ {0} : K = cfg.keyint BY <1>0, SettingIs
<1>4. bounds' = bounds \/ (~final /\ \E x \in Nat : bounds' = Append(bounds, x)) BY <1>1, <1>2
<1>5. Grows BY <1>1, <1>2, <1>4 DEF Grows
<1>6. TypeInv'
  <2>1. bounds' \in Seq(Nat) /\ Len(bounds') > 0
    <3>1. CASE bounds' = bounds BY <3>1, <1>2
    <3>2. CASE \E x \in Nat : bounds' = Append(bounds, x) BY <3>2, <1>2
    <3> QED BY <3>1, <3>2, <1>4
  <2>3. reader' = [pc |-> reader'.pc, gop |-> reader'.gop] /\ reader'.pc \in {"space", "read", "ending", "gone"}
    BY <1>0, <1>1 DEF TypeInv
  <2>4. Workers' = Workers /\ JobsAre' BY <1>0, <1>1 DEF TypeInv, JobsAre, Workers
  <2> QED BY <1>0, <1>1, <2>1, <2>3, <2>4 DEF TypeInv
<1>7. BoundsInv'
  <2>0. Pipe' = Pipe /\ nRead' <= cfg'.n BY <1>0, <1>1 DEF Pipe, BoundsInv
  <2>1. CASE final
    <3>1. bounds' = bounds /\ nGops' = nGops BY <2>1, <1>1 DEF nGops
    <3> QED BY <1>0, <1>1, <2>0, <2>1, <3>1 DEF BoundsInv, PipeTable
  <2>2. CASE ~final
    <3>1. Pipe /\ ~Seek BY <2>2, <1>0 DEF BoundsInv, Pipe, Seek
    <3>2. ~abort => nRead = cfg.n BY <3>1, <1>0, <1>1 DEF ReaderInv, InOrderIs
    <3>3. nGops * K \in Nat /\ (nGops + 1) * K = nGops * K + K /\ (nGops + 1) * K \in Nat
      <4>1. nGops * K \in Nat /\ (nGops + 1) * K = nGops * K + K BY <1>2, Blocks, Zenon
      <4>2. (nGops + 1) * K \in Nat BY <1>2, Blocks, Zenon
      <4> QED BY <4>1, <4>2
    <3>4. bounds[nGops + 1] = nGops * K /\ bounds[nGops + 1] <= nRead /\ nRead < (nGops + 1) * K
          /\ bounds[nGops + 1] \in Nat
      BY <3>1, <2>2, <1>0, <1>3, <3>3 DEF BoundsInv, PipeTable
    <3>5. CASE nRead > bounds[nGops + 1]
      <4>1. bounds' = Append(bounds, nRead) BY <3>5, <1>1, <1>2, <2>2
      <4>2. /\ nGops' = nGops + 1 /\ bounds'[1] = 0 /\ bounds'[nGops + 2] = nRead
            /\ \A g \in 0 .. nGops : bounds'[g + 1] = g * K
        BY <4>1, <3>4, <3>5, <3>3, <3>1, <2>2, <1>0, <1>2, <1>3, PipePush
      <4>3. nGops' + 1 = nGops + 2 /\ nGops' - 1 = nGops BY <4>2, <1>2
      <4>4. PipeTable'
        <5>1. cfg'.keyint = K /\ nRead' = nRead BY <1>1, <1>3
        <5>2. \A g \in 0 .. nGops' - 1 : bounds'[g + 1] = g * K BY <4>2, <4>3
        <5>3. bounds'[nGops' + 1] = nRead BY <4>2, <4>3
        <5>4. nRead <= nGops' * K /\ nGops * K < nRead BY <4>2, <3>3, <3>4, <3>5, <1>2
        <5> QED BY <5>1, <5>2, <5>3, <5>4, <4>3, <1>1, <1>2 DEF PipeTable
      <4> QED BY <4>2, <4>3, <4>4, <3>1, <3>2, <2>0, <1>1 DEF BoundsInv
    <3>6. CASE ~(nRead > bounds[nGops + 1])
      <4>1. bounds' = bounds /\ nGops' = nGops BY <3>6, <1>1, <1>2 DEF nGops
      <4>2. nRead = bounds[nGops + 1] BY <3>4, <3>6, <1>2
      <4>3. PipeTable'
        <5>1. PipeTable BY <3>1, <1>0 DEF BoundsInv
        <5> QED BY <5>1, <4>1, <1>1 DEF PipeTable
      <4> QED BY <4>1, <4>2, <4>3, <3>1, <3>2, <2>0, <1>0, <1>1 DEF BoundsInv
    <3> QED BY <3>5, <3>6
  <2> QED BY <2>1, <2>2
<1>8. ReaderInv'
  <2>1. reader'.pc = "gone" BY <1>0, <1>1 DEF TypeInv
  <2>2. Seek' = Seek /\ Pipe' = Pipe BY <1>1 DEF Seek, Pipe
  <2>3. ~Seek => InOrderIs' BY <2>1, <1>0, <1>1 DEF ReaderInv, InOrderIs
  <2>4. Seek => SeekIs'
    <3> SUFFICES ASSUME Seek PROVE SeekIs' OBVIOUS
    <3>1. bounds' = bounds BY <1>0, <1>1, SettingIs DEF BoundsInv
    <3>2. nGops' = nGops /\ ToRead' = ToRead BY <3>1, <1>1 DEF nGops, ToRead, End
    <3> QED BY <3>1, <3>2, <2>1, <1>0, <1>1 DEF ReaderInv, SeekIs, Start, End
  <2> QED BY <1>0, <1>1, <2>1, <2>2, <2>3, <2>4 DEF ReaderInv
<1>9. HeldInv'
  <2>1. \A g, f \in Nat : Got(g, f)' => Got(g, f) BY <1>1 DEF Got, Seek
  <2>2. store \subseteq store' /\ UNCHANGED <<nextGop, job>> BY <1>1
  <2> QED BY <2>1, <2>2, <1>5, <1>6, <1>7, HeldKept
<1>10. QueueInv' /\ JobInv' /\ DoneInv' /\ OutInv'
  <2>1. store \subseteq store' /\ UNCHANGED <<main, nextGop, job, done, data, emitted, out>> BY <1>1
  <2> QED BY <2>1, <1>5, <1>6, <1>7, ReaderKeeps
<1>11. FrontsInv'
  <2> SUFFICES ASSUME Seek' PROVE FrontsInv' BY DEF FrontsInv
  <2>1. Seek /\ bounds' = bounds BY <1>0, <1>1, SettingIs DEF BoundsInv, Seek
  <2> QED BY <2>1, <1>1, FrontsSame DEF IInv
<1> QED BY <1>6, <1>7, <1>8, <1>9, <1>10, <1>11 DEF IInv

\* A step of the reader that leaves the table, the frontier and the store alone.
LEMMA StepReaderTurns ==
  ASSUME IInv, \/ ReaderSpace \/ SeekSpace \/ ReaderFail
  PROVE  IInv'
<1>0. TypeInv /\ BoundsInv /\ ReaderInv BY DEF IInv
<1>1. UNCHANGED <<cfg, main, bounds, nRead, store, rd, cons, streamStart, nextGop, job, done, data, emitted, out>>
  BY DEF ReaderSpace, SeekSpace, ReaderFail, table, flags, output
<1>2. \/ UNCHANGED <<eof, abort, final>> /\ reader.pc = "space" /\ reader'.pc \in {"space", "ending", "read"}
         /\ reader' = [pc |-> reader'.pc, gop |-> reader'.gop]
      \/ eof' = TRUE /\ abort' = TRUE /\ final' = TRUE /\ reader'.pc = "gone"
         /\ reader' = [pc |-> reader'.pc, gop |-> reader'.gop]
  <2>1. CASE ReaderSpace BY <2>1, <1>0 DEF ReaderSpace, flags, TypeInv
  <2>2. CASE SeekSpace BY <2>2, <1>0 DEF SeekSpace, flags, TypeInv
  <2>3. CASE ReaderFail BY <2>3, <1>0 DEF ReaderFail, flags, TypeInv
  <2> QED BY <2>1, <2>2, <2>3
<1>3. Grows BY <1>0, <1>1, <1>2 DEF Grows, TypeInv
<1>4. TypeInv'
  <2>1. Workers' = Workers /\ JobsAre' BY <1>0, <1>1 DEF TypeInv, JobsAre, Workers
  <2> QED BY <1>0, <1>1, <1>2, <2>1 DEF TypeInv
<1>5. nGops' = nGops /\ Pipe' = Pipe /\ Seek' = Seek /\ ToRead' = ToRead
  BY <1>1 DEF nGops, Pipe, Seek, ToRead, End
<1>6. BoundsInv'
  BY <1>0, <1>1, <1>2, <1>5 DEF BoundsInv, PipeTable
<1>7. ReaderInv'
  <2>1. ~Seek => InOrderIs'
    <3> SUFFICES ASSUME ~Seek PROVE InOrderIs' OBVIOUS
    <3>1. reader.pc = "space" => nRead < cfg.n BY <1>0 DEF ReaderInv, InOrderIs
    <3>2. store' \subseteq 0 .. nRead' - 1 BY <1>0, <1>1 DEF ReaderInv, InOrderIs
    <3>3. reader'.pc \in {"ending", "gone"} => abort'
      <4>1. ~SeekSpace BY DEF SeekSpace
      <4>2. CASE ReaderSpace BY <4>2, <1>0 DEF ReaderSpace, TypeInv, flags
      <4>3. CASE ReaderFail BY <4>3 DEF ReaderFail
      <4> QED BY <4>1, <4>2, <4>3
    <3>4. reader'.pc \in {"space", "read"} => nRead' < cfg'.n BY <1>1, <1>2, <3>1
    <3> QED BY <3>2, <3>3, <3>4 DEF InOrderIs
  <2>2. Seek => SeekIs'
    <3> SUFFICES ASSUME Seek PROVE SeekIs' OBVIOUS
    <3>1. \A g \in 0 .. nGops' - 1 :
            Start(g)' <= rd'[g] /\ rd'[g] <= End(g)' /\ (rd'[g] > Start(g)' => rd'[g] <= nRead')
      BY <1>0, <1>1, <1>5 DEF ReaderInv, SeekIs, Start, End
    <3>2. reader'.pc \in {"ending", "gone"} /\ ~abort' => ToRead' = {}
      <4>1. CASE SeekSpace BY <4>1, <1>0, <1>5 DEF SeekSpace, TypeInv, flags
      <4>2. CASE ReaderFail BY <4>2 DEF ReaderFail
      <4> QED BY <4>1, <4>2 DEF ReaderSpace
    <3>3. reader'.pc = "read" => reader'.gop \in ToRead'
      <4>1. CASE SeekSpace
        <5> SUFFICES ASSUME reader'.pc = "read" PROVE reader'.gop \in ToRead BY <1>5
        <5>1. reader'.gop = SeekPick /\ Candidates # {} BY <4>1, <1>0 DEF SeekSpace, TypeInv
        <5>2. SeekPick \in Candidates
          <6>1. Seek /\ FrontsInv BY <4>1 DEF SeekSpace, IInv
          <6> QED BY <6>1, <5>1, <1>0, SeekPickIs
        <5> QED BY <5>1, <5>2 DEF Candidates
      <4>2. CASE ReaderFail BY <4>2, <1>2 DEF ReaderFail
      <4> QED BY <4>1, <4>2 DEF ReaderSpace
    <3> QED BY <3>1, <3>2, <3>3 DEF SeekIs
  <2> QED BY <1>0, <1>1, <1>2, <1>5, <2>1, <2>2 DEF ReaderInv
<1>8. HeldInv'
  <2>1. \A g, f \in Nat : Got(g, f)' => Got(g, f) BY <1>1 DEF Got, Seek
  <2> QED BY <2>1, <1>1, <1>3, <1>4, <1>6, HeldKept
<1>9. QueueInv' /\ JobInv' /\ DoneInv' /\ OutInv'
  <2>1. store \subseteq store' /\ UNCHANGED <<main, nextGop, job, done, data, emitted, out>> BY <1>1
  <2> QED BY <2>1, <1>3, <1>4, <1>6, ReaderKeeps
<1>10. FrontsInv' BY <1>1, FrontsSame DEF IInv
<1> QED BY <1>4, <1>6, <1>7, <1>8, <1>9, <1>10 DEF IInv

LEMMA StepSeekPublish == IInv /\ SeekPublish => IInv'
<1> SUFFICES ASSUME IInv, SeekPublish PROVE IInv' OBVIOUS
<1>0. TypeInv /\ BoundsInv /\ ReaderInv /\ FrontsInv BY DEF IInv
<1>1. PICK g, i : g = reader.gop /\ i = rd[g] OBVIOUS
<1>2. /\ reader.pc = "read" /\ Seek /\ store' = store \cup {i} /\ rd' = [rd EXCEPT ![g] = i + 1]
      /\ nRead' = Larger(nRead, i + 1) /\ reader' = [reader EXCEPT !.pc = "space"]
      /\ UNCHANGED <<cfg, main, bounds, cons, eof, abort, final, streamStart, nextGop, job, done, data,
                     emitted, out>>
  BY <1>1 DEF SeekPublish, table, flags, output
<1>3. /\ g \in 0 .. nGops - 1 /\ rd[g] < End(g) /\ nGops \in Nat /\ ~Pipe
      /\ nGops <= cfg.n /\ cfg.n \in Nat /\ g \in 0 .. cfg.n
  <2>1. g \in ToRead BY <1>0, <1>1, <1>2 DEF ReaderInv, SeekIs
  <2>2. nGops <= cfg.n /\ cfg.n \in Nat /\ nGops \in Nat BY <1>0, SettingIs, GopsFit
  <2> QED BY <2>1, <2>2, <1>0, <1>2, SettingIs DEF ToRead
<1>4. i \in Nat /\ i < End(g) /\ End(g) \in Nat /\ End(g) <= cfg.n /\ Start(g) \in Nat /\ Start(g) <= i
      /\ nRead \in Nat /\ nRead <= cfg.n
  <2>1. End(g) \in Nat /\ End(g) <= cfg.n /\ Start(g) \in Nat BY <1>0, <1>3, TableIs
  <2>2. i \in Nat BY <1>0, <1>1, <1>3 DEF TypeInv
  <2>3. Start(g) <= rd[g] BY <1>0, <1>2, <1>3 DEF ReaderInv, SeekIs
  <2> QED BY <1>0, <1>1, <1>3, <2>1, <2>2, <2>3 DEF TypeInv, BoundsInv
<1>5. nRead' \in Nat /\ nRead <= nRead' /\ i + 1 <= nRead' /\ nRead' <= cfg.n
  BY <1>2, <1>3, <1>4 DEF Larger
<1>6. rd' \in [0 .. cfg.n -> Nat] /\ rd'[g] = i + 1 /\ \A h \in 0 .. cfg.n : h # g => rd'[h] = rd[h]
  <2>1. rd \in [0 .. cfg.n -> Nat] BY <1>0 DEF TypeInv
  <2>2. i + 1 \in Nat /\ g \in 0 .. cfg.n BY <1>3, <1>4
  <2>3. rd' = [rd EXCEPT ![g] = i + 1] BY <1>2
  <2> QED BY <2>1, <2>2, <2>3
<1>7. Grows BY <1>2, <1>5 DEF Grows
<1>8. TypeInv'
  <2>1. Workers' = Workers /\ JobsAre' BY <1>0, <1>2 DEF TypeInv, JobsAre, Workers
  <2>2. reader' = [pc |-> reader'.pc, gop |-> reader'.gop] /\ reader'.pc \in {"space", "read", "ending", "gone"}
    BY <1>0, <1>2 DEF TypeInv
  <2>3. store' \subseteq Nat BY <1>0, <1>2, <1>4 DEF TypeInv
  <2> QED BY <1>0, <1>2, <1>5, <1>6, <2>1, <2>2, <2>3 DEF TypeInv
<1>9. nGops' = nGops /\ Pipe' = Pipe /\ Seek' = Seek BY <1>2 DEF nGops, Pipe, Seek
<1>10. BoundsInv' BY <1>0, <1>2, <1>3, <1>5, <1>9 DEF BoundsInv
<1>11. ReaderInv'
  <2>1. reader'.pc = "space" BY <1>0, <1>2 DEF TypeInv
  <2>2. ASSUME NEW h \in 0 .. nGops - 1
        PROVE  Start(h) <= rd'[h] /\ rd'[h] <= End(h) /\ (rd'[h] > Start(h) => rd'[h] <= nRead')
    <3>1. CASE h = g BY <3>1, <1>4, <1>5, <1>6
    <3>2. CASE h # g
      <4>0. h \in 0 .. cfg.n BY <1>3
      <4>1. rd'[h] = rd[h] /\ rd[h] \in Nat BY <4>0, <3>2, <1>0, <1>6 DEF TypeInv
      <4>2. Start(h) <= rd[h] /\ rd[h] <= End(h) /\ (rd[h] > Start(h) => rd[h] <= nRead)
        BY <1>0, <1>2 DEF ReaderInv, SeekIs
      <4> QED BY <4>1, <4>2, <1>4, <1>5
    <3> QED BY <3>1, <3>2
  <2>3. SeekIs' BY <1>2, <1>9, <2>1, <2>2 DEF SeekIs, Start, End
  <2> QED BY <1>0, <1>2, <1>9, <2>1, <2>3 DEF ReaderInv
<1>12. FrontsInv'
  <2>1. Workers' = Workers /\ \A h : Start(h)' = Start(h) /\ Taken(h)' = Taken(h)
    BY <1>2 DEF Workers, Start, Taken
  <2>2. FrontsAre BY <1>0, <1>2 DEF FrontsInv
  <2>3. ASSUME NEW h \in 0 .. nGops - 1 PROVE cons[h] <= rd'[h] /\ cons[h] \in Nat /\ rd[h] <= rd'[h] /\ rd[h] \in Nat
    <3>1. h \in 0 .. cfg.n BY <1>3
    <3>2. cons[h] \in Nat /\ rd[h] \in Nat BY <3>1, <1>0 DEF TypeInv
    <3>3. cons[h] <= rd[h] BY <2>2 DEF FrontsAre
    <3>4. CASE h = g BY <3>2, <3>3, <3>4, <1>1, <1>6, <1>4
    <3>5. CASE h # g BY <3>1, <3>2, <3>3, <3>5, <1>6
    <3> QED BY <3>4, <3>5
  <2>4. ASSUME NEW f \in store' PROVE \E h \in 0 .. nGops - 1 : cons[h] <= f /\ f < rd'[h]
    <3>1. CASE f = i
      <4>1. cons[g] <= rd[g] BY <2>2, <1>3 DEF FrontsAre
      <4>2. cons[g] <= f /\ f < rd'[g]
        <5>1. cons[g] <= f BY <3>1, <4>1, <1>1
        <5>2. f < rd'[g] BY <3>1, <1>4, <1>6
        <5> QED BY <5>1, <5>2
      <4> QED BY <4>2, <1>3
    <3>2. CASE f \in store
      <4>1. PICK h \in 0 .. nGops - 1 : cons[h] <= f /\ f < rd[h] BY <3>2, <2>2 DEF FrontsAre
      <4>2. f \in Nat BY <3>2, <1>0 DEF TypeInv
      <4>3. rd[h] <= rd'[h] /\ rd[h] \in Nat /\ rd'[h] \in Nat BY <2>3, <1>3, <1>6
      <4> QED BY <4>1, <4>2, <4>3
    <3> QED BY <3>1, <3>2, <1>2
  <2>5. FrontsAre'
    <3>1. \A h \in 0 .. nGops - 1 : Start(h) <= cons[h] /\ (~Taken(h) => cons[h] = Start(h))
      BY <2>2 DEF FrontsAre
    <3>2. \A w \in Workers : job[w].pc \in Active => cons[job[w].g] = job[w].i BY <2>2 DEF FrontsAre
    <3> QED BY <3>1, <3>2, <2>1, <2>3, <2>4, <1>2, <1>9 DEF FrontsAre
  <2> QED BY <2>5 DEF FrontsInv
<1>13. HeldInv'
  <2>1. \A h, f \in Nat : IsGop(h) /\ f \in Begin(h) .. Finish(h) - 1 /\ Got(h, f)' => Got(h, f) \/ f \in store'
    <3> SUFFICES ASSUME NEW h \in Nat, NEW f \in Nat, IsGop(h), Got(h, f)'
                 PROVE  Got(h, f) \/ f \in store'
      OBVIOUS
    <3>1. h \in 0 .. cfg.n BY <1>3 DEF IsGop
    <3>2. f < rd'[h] BY <1>2, <1>9 DEF Got
    <3>3. CASE h = g
      <4>1. f < i \/ f = i BY <3>2, <3>3, <1>4, <1>6
      <4> QED BY <4>1, <3>3, <1>1, <1>2 DEF Got
    <3>4. CASE h # g BY <3>1, <3>2, <3>4, <1>2, <1>6 DEF Got
    <3> QED BY <3>3, <3>4
  <2>2. store \subseteq store' /\ UNCHANGED <<nextGop, job>> BY <1>2
  <2> QED BY <2>1, <2>2, <1>7, <1>8, <1>10, HeldKept
<1>14. QueueInv' /\ JobInv' /\ DoneInv' /\ OutInv'
  <2>1. store \subseteq store' /\ UNCHANGED <<main, nextGop, job, done, data, emitted, out>> BY <1>2
  <2> QED BY <2>1, <1>7, <1>8, <1>10, ReaderKeeps
<1> QED BY <1>8, <1>10, <1>11, <1>12, <1>13, <1>14 DEF IInv

-----------------------------------------------------------------------------
(* The workers: taking a GOP. *)

\* What a worker leaves alone.
Aside == UNCHANGED <<cfg, reader, main, bounds, nRead, rd, eof, abort, final, streamStart, emitted, out>>

LEMMA JobMoves ==
  ASSUME JobsAre, cfg' = cfg, NEW w \in Workers, NEW n, JobIs(n), job' = [job EXCEPT ![w] = n]
  PROVE  /\ Workers' = Workers /\ JobsAre' /\ job'[w] = n
         /\ \A v \in Workers \ {w} : job'[v] = job[v]
<1>1. Workers' = Workers BY DEF Workers
<1>2. job = [v \in Workers |-> job[v]] /\ \A v \in Workers : JobIs(job[v]) BY DEF JobsAre
<1>3. job' = [v \in Workers |-> job'[v]] BY <1>2
<1>4. job'[w] = n /\ \A v \in Workers \ {w} : job'[v] = job[v] BY <1>2
<1>5. \A v \in Workers : JobIs(job'[v]) BY <1>2, <1>4
<1> QED BY <1>1, <1>3, <1>4, <1>5 DEF JobsAre

LEMMA AsideKeeps ==
  ASSUME IInv, Aside, store' \subseteq store
  PROVE  BoundsInv' /\ ReaderInv'
<1>1. nGops' = nGops /\ Pipe' = Pipe /\ Seek' = Seek /\ ToRead' = ToRead
  BY DEF Aside, nGops, Pipe, Seek, ToRead, End
<1>2. BoundsInv' BY <1>1 DEF IInv, Aside, BoundsInv, PipeTable
<1>3. ~Seek => InOrderIs' BY DEF IInv, Aside, ReaderInv, InOrderIs
<1>4. Seek => SeekIs' BY <1>1 DEF IInv, Aside, ReaderInv, SeekIs, Start, End
<1>5. ReaderInv' BY <1>1, <1>3, <1>4 DEF IInv, Aside, ReaderInv
<1> QED BY <1>2, <1>5

LEMMA OutputKeeps ==
  ASSUME IInv, Aside, UNCHANGED <<done, data>>, NEW w \in Workers, job[w].pc # "unborn"
  PROVE  DoneInv' /\ OutInv'
<1>1. nGops' = nGops /\ \A s, g : Whole(s, g)' = Whole(s, g)
  BY DEF Aside, nGops, Whole, Start, End
<1>2. DoneInv'
  BY <1>1 DEF IInv, Aside, DoneInv, Whole, Start, End
<1>3. \A e : OutOf(e)' = OutOf(e)
  BY <1>1 DEF Aside, OutOf
<1>4. main' \notin {"wait", "plan"} BY DEF IInv, Aside, OutInv
<1>5. main' = "write" => emitted' < nGops' /\ emitted' \in done' /\ Whole(data[emitted], emitted)'
  BY <1>1 DEF IInv, Aside, OutInv, Whole, Start, End
<1>6. \E e \in {emitted', emitted' - 1} : OutOf(e)'
  BY <1>3 DEF IInv, Aside, OutInv
<1>7. \A m \in 1 .. Len(out') : out'[m] = m - 1 BY DEF IInv, Aside, OutInv
<1> QED BY <1>2, <1>4, <1>5, <1>6, <1>7 DEF OutInv

\* A worker that starts a GOP, waits for it or finds that it must leave.
StartedAs(n) ==
  \/ n.pc = "leaving"
  \/ n.pc \in Active /\ IsGop(n.g) /\ JobOf(n) /\ (n.i = Begin(n.g) \/ (Pipe /\ n.i = 0))

\* It leaves when the run is aborted, or there is no such GOP.
LeavesFor(n) == n.pc = "leaving" => abort \/ ~(n.g < nGops)

\* While nothing failed, the end of the input is beyond every GOP of the table.
LEMMA EofIs ==
  ASSUME TypeInv, BoundsInv, ReaderInv, eof, ~abort, NEW g \in 0 .. nGops - 1
  PROVE  End(g) <= nRead /\ (Seek => rd[g] = End(g))
<1>1. reader.pc = "gone" BY DEF ReaderInv
<1>2. End(g) \in Nat /\ Start(g) \in Nat /\ Start(g) < End(g) /\ End(g) <= cfg.n BY TableIs
<1>3. CASE ~Seek BY <1>1, <1>2, <1>3 DEF ReaderInv, InOrderIs
<1>4. CASE Seek
  <2>1. ToRead = {} BY <1>1, <1>4 DEF ReaderInv, SeekIs
  <2>2. ~(rd[g] < End(g)) BY <2>1 DEF ToRead
  <2>3. nGops \in Nat /\ nGops <= cfg.n /\ cfg.n \in Nat BY SettingIs, GopsFit
  <2>4. rd[g] \in Nat /\ nRead \in Nat
    <3>1. g \in 0 .. cfg.n BY <2>3
    <3> QED BY <3>1 DEF TypeInv
  <2>5. rd[g] <= End(g) /\ (rd[g] > Start(g) => rd[g] <= nRead) BY <1>4 DEF ReaderInv, SeekIs
  <2> QED BY <1>2, <2>2, <2>4, <2>5
<1> QED BY <1>3, <1>4

LEMMA FirstFrameIs ==
  ASSUME IInv, NEW w \in Workers, NEW j, NEW pulls, JobIs(j), j.buf = <<>>,
         \/ j.g \in 0 .. nGops - 1 /\ j.i = Start(j.g) /\ j.end = End(j.g)
         \/ ~final /\ Pipe /\ IsGop(j.g) /\ j.i = Begin(j.g) /\ j.end = Finish(j.g) /\ nRead > j.i,
         FirstFrame(w, j, pulls)
  PROVE  \E n : /\ JobIs(n) /\ n.k = j.k /\ n.g = j.g /\ job' = [job EXCEPT ![w] = n]
                /\ done' = done /\ StartedAs(n) /\ LeavesFor(n)
<1>0. TypeInv /\ BoundsInv /\ ReaderInv BY DEF IInv
<1>1. PICK end : end = IF j.end > nRead /\ eof THEN nRead ELSE j.end OBVIOUS
<1>2. IF abort THEN job' = [job EXCEPT ![w] = [j EXCEPT !.pc = "leaving"]] /\ done' = done
      ELSE IF ~Ready(j.i) /\ ~eof THEN job' = [job EXCEPT ![w] = [j EXCEPT !.pc = "first"]] /\ done' = done
      ELSE IF end <= j.i THEN TRUE
      ELSE /\ job' = [job EXCEPT ![w] = [j EXCEPT !.pc = IF cfg.carry THEN "carry" ELSE "feed", !.end = end]]
           /\ done' = done
  BY <1>1 DEF FirstFrame, GoesOn, Starves, Moves
<1>3. /\ IsGop(j.g) /\ j.i = Begin(j.g) /\ j.i \in Nat /\ j.end \in Nat /\ nRead \in Nat /\ j.g \in Nat
      /\ j.i < j.end /\ j.i <= Finish(j.g) /\ Runs(j) /\ Begin(j.g) \in Nat /\ Finish(j.g) \in Nat
  <2>1. CASE j.g \in 0 .. nGops - 1 /\ j.i = Start(j.g) /\ j.end = End(j.g)
    <3>1. /\ IsGop(j.g) /\ Start(j.g) \in Nat /\ End(j.g) \in Nat /\ Start(j.g) = Begin(j.g)
          /\ Start(j.g) < End(j.g) /\ End(j.g) <= Finish(j.g)
      BY <2>1, <1>0, TableIs
    <3>2. Begin(j.g) \in Nat /\ Finish(j.g) \in Nat /\ j.g \in Nat /\ nGops \in Nat BY <3>1, <1>0, GopIs, SettingIs
    <3> QED BY <2>1, <3>1, <3>2, <1>0 DEF Runs, TypeInv
  <2>2. CASE Pipe /\ IsGop(j.g) /\ j.i = Begin(j.g) /\ j.end = Finish(j.g)
    <3>1. j.g \in Nat /\ Begin(j.g) \in Nat /\ Finish(j.g) \in Nat /\ Begin(j.g) < Finish(j.g) BY <2>2, <1>0, GopIs
    <3> QED BY <2>2, <3>1, <1>0 DEF Runs, TypeInv
  <2> QED BY <2>1, <2>2
<1>4. ~abort /\ eof => j.end <= nRead /\ j.g \in 0 .. nGops - 1
  <2> SUFFICES ASSUME ~abort, eof PROVE j.end <= nRead /\ j.g \in 0 .. nGops - 1 OBVIOUS
  <2>1. final BY <1>0 DEF ReaderInv
  <2>2. j.g \in 0 .. nGops - 1 /\ j.end = End(j.g) BY <2>1
  <2> QED BY <2>2, <1>0, EofIs
<1>5. ~abort => end = j.end BY <1>1, <1>3, <1>4
<1>6. CASE abort
  <2>1. PICK n : n = [j EXCEPT !.pc = "leaving"] OBVIOUS
  <2>2. JobIs(n) /\ n.k = j.k /\ n.g = j.g /\ n.pc = "leaving" BY <2>1 DEF JobIs, JobPcs
  <2> QED BY <2>1, <2>2, <1>2, <1>6 DEF StartedAs, LeavesFor
<1>7. CASE ~abort /\ ~Ready(j.i) /\ ~eof
  <2>1. PICK n : n = [j EXCEPT !.pc = "first"] OBVIOUS
  <2>2. JobIs(n) /\ n.k = j.k /\ n.g = j.g /\ n.pc = "first" /\ n.i = j.i /\ n.end = j.end /\ n.buf = <<>>
    BY <2>1 DEF JobIs, JobPcs, Active
  <2>3. j.g \in 0 .. nGops - 1 /\ j.end = End(j.g)
    <3>1. ~Seek => ~(nRead > j.i) BY <1>7, <1>3 DEF Ready
    <3>2. Seek => ~Pipe BY DEF Pipe, Seek
    <3> QED BY <3>1, <3>2
  <2>4. FedIs(n) BY <2>2, <1>3 DEF FedIs
  <2>5. j.g < nGops BY <2>3, <1>3, <1>0, SettingIs
  <2>6. JobOf(n) BY <2>2, <2>3, <2>4, <2>5 DEF JobOf
  <2> QED BY <2>1, <2>2, <2>6, <1>2, <1>3, <1>7 DEF StartedAs, Active, LeavesFor
<1>8. CASE ~abort /\ (Ready(j.i) \/ eof)
  <2>1. PICK n : n = [j EXCEPT !.pc = IF cfg.carry THEN "carry" ELSE "feed", !.end = end] OBVIOUS
  <2>2. JobIs(n) /\ n.k = j.k /\ n.g = j.g /\ n.pc \in {"carry", "feed"} /\ n.i = j.i /\ n.end = j.end /\ n.buf = <<>>
    BY <2>1, <1>5, <1>8 DEF JobIs, JobPcs, Active
  <2>3. job' = [job EXCEPT ![w] = n] /\ done' = done
    BY <2>1, <1>2, <1>3, <1>5, <1>8
  <2>4. FedIs(n) BY <2>2, <1>3 DEF FedIs
  <2>5. Runs(n) BY <2>2, <1>3 DEF Runs
  <2>6. ~Seek => j.i < nRead
    <3>1. CASE Ready(j.i) BY <3>1 DEF Ready
    <3>2. CASE eof
      <4>1. j.end <= nRead BY <3>2, <1>4, <1>8
      <4> QED BY <4>1, <1>3
    <3> QED BY <3>1, <3>2, <1>8
  <2>7. Reached(n) BY <2>2, <2>6, <1>3 DEF Reached
  <2>8. JobOf(n) BY <2>2, <2>4, <2>5, <2>7, <1>3 DEF JobOf
  <2> QED BY <2>2, <2>3, <2>8, <1>3 DEF StartedAs, Active, LeavesFor
<1> QED BY <1>6, <1>7, <1>8

LEMMA ExistsIs ==
  ASSUME IInv, NEW w \in Workers, NEW j, NEW pulls, JobIs(j), j.buf = <<>>, j.i = 0, j.g \in Nat,
         Exists(w, j, pulls)
  PROVE  \E n : /\ JobIs(n) /\ n.k = j.k /\ n.g = j.g /\ job' = [job EXCEPT ![w] = n]
                /\ done' = done /\ StartedAs(n) /\ LeavesFor(n)
<1>0. TypeInv /\ BoundsInv /\ ReaderInv BY DEF IInv
<1>1. PICK early : early <=> (streamStart /\ j.k # NoPull /\ j.k < cap /\ nRead > j.g * cfg.keyint) OBVIOUS
<1>2. nGops \in Nat /\ cfg.keyint \in Nat BY <1>0, SettingIs
<1>3. CASE ~abort /\ ~(j.g < nGops) /\ ~final /\ ~early
  <2>1. job' = [job EXCEPT ![w] = [j EXCEPT !.pc = "exist"]] /\ done' = done
    BY <1>1, <1>3 DEF Exists, Starves, Moves
  <2>2. PICK n : n = [j EXCEPT !.pc = "exist"] OBVIOUS
  <2>3. JobIs(n) /\ n.k = j.k /\ n.g = j.g /\ n.pc = "exist" /\ n.i = 0 /\ n.buf = <<>>
    BY <2>2 DEF JobIs, JobPcs, Active
  <2>4. Pipe BY <1>0, <1>3 DEF BoundsInv
  <2>5. JobOf(n) BY <2>3, <2>4 DEF JobOf
  <2>6. IsGop(n.g) BY <2>3, <2>4 DEF IsGop
  <2> QED BY <2>1, <2>2, <2>3, <2>4, <2>5, <2>6 DEF StartedAs, Active, LeavesFor
<1>4. CASE ~abort /\ ~(j.g < nGops) /\ ~final /\ early
  <2>1. PICK m : m = [j EXCEPT !.i = j.g * cfg.keyint, !.end = (j.g + 1) * cfg.keyint] OBVIOUS
  <2>2. FirstFrame(w, m, RecordWaited(pulls, j.k, j.g))
    BY <2>1, <1>1, <1>4 DEF Exists
  <2>3. Pipe BY <1>0, <1>4 DEF BoundsInv
  <2>4. j.g * cfg.keyint \in Nat /\ (j.g + 1) * cfg.keyint \in Nat
    <3>1. j.g + 1 \in Nat OBVIOUS
    <3> QED BY <3>1, <1>2, Times
  <2>5. /\ JobIs(m) /\ m.k = j.k /\ m.g = j.g /\ m.buf = <<>> /\ m.i = j.g * cfg.keyint
        /\ m.end = (j.g + 1) * cfg.keyint
    BY <2>1, <2>4 DEF JobIs
  <2>6. IsGop(m.g) /\ m.i = Begin(m.g) /\ m.end = Finish(m.g) /\ nRead > m.i
    BY <2>3, <2>5, <1>1, <1>4 DEF IsGop, Begin, Finish
  <2>7. \E n : /\ JobIs(n) /\ n.k = m.k /\ n.g = m.g /\ job' = [job EXCEPT ![w] = n]
               /\ done' = done /\ StartedAs(n) /\ LeavesFor(n)
    BY <2>2, <2>3, <2>5, <2>6, <1>4, FirstFrameIs
  <2> QED BY <2>5, <2>7 DEF LeavesFor
<1>5. CASE ~(~abort /\ ~(j.g < nGops) /\ ~final) /\ (abort \/ ~(j.g < nGops))
  <2>1. job' = [job EXCEPT ![w] = [j EXCEPT !.pc = "leaving"]] /\ done' = done
    BY <1>5 DEF Exists, GoesOn, Moves
  <2>2. PICK n : n = [j EXCEPT !.pc = "leaving"] OBVIOUS
  <2>3. JobIs(n) /\ n.k = j.k /\ n.g = j.g /\ n.pc = "leaving" BY <2>2 DEF JobIs, JobPcs
  <2> QED BY <1>5, <2>1, <2>2, <2>3 DEF StartedAs, LeavesFor
<1>6. CASE ~abort /\ j.g < nGops
  <2>1. PICK m : m = [j EXCEPT !.i = Start(j.g), !.end = End(j.g)] OBVIOUS
  <2>2. FirstFrame(w, m, RecordWaited(pulls, j.k, j.g)) BY <2>1, <1>6 DEF Exists
  <2>3. j.g \in 0 .. nGops - 1 BY <1>2, <1>6
  <2>4. Start(j.g) \in Nat /\ End(j.g) \in Nat BY <2>3, <1>0, TableIs
  <2>5. JobIs(m) /\ m.k = j.k /\ m.g = j.g /\ m.buf = <<>> /\ m.i = Start(j.g) /\ m.end = End(j.g)
    BY <2>1, <2>4 DEF JobIs
  <2>6. m.g \in 0 .. nGops - 1 /\ m.i = Start(m.g) /\ m.end = End(m.g) BY <2>3, <2>5
  <2>7. \E n : /\ JobIs(n) /\ n.k = m.k /\ n.g = m.g /\ job' = [job EXCEPT ![w] = n]
               /\ done' = done /\ StartedAs(n) /\ LeavesFor(n)
    BY <2>2, <2>5, <2>6, FirstFrameIs
  <2> QED BY <2>5, <2>7 DEF LeavesFor
<1> QED BY <1>3, <1>4, <1>5, <1>6

\* A GOP that is pulled, and one that is waited for.
Fresh(w, n) ==
  /\ job[w].pc = "pull"
  /\ IF Static(cfg)
       THEN /\ nextGop' = nextGop /\ n.k = NoPull
            /\ IF job[w].g = None THEN n.g = w ELSE n.g = nGops
       ELSE nextGop' = nextGop + 1 /\ n.k = nextGop /\ n.g = HandOut(cfg, nextGop)
Stays(w, n) ==
  /\ job[w].pc \in {"exist", "first"} /\ nextGop' = nextGop
  /\ n.k = job[w].k /\ n.g = job[w].g

LEMMA ActiveTaken ==
  ASSUME IInv, NEW v \in Workers, job[v].pc \in Active
  PROVE  Taken(job[v].g) /\ job[v].g \in Nat
<1>1. IsGop(job[v].g) /\ PullIs(job[v], v) BY DEF IInv, QueueInv
<1>2. job[v].g \in Nat BY <1>1, GopIs DEF IInv
<1>3. CASE Static(cfg) BY <1>1, <1>2, <1>3 DEF PullIs, Taken, None
<1>4. CASE ~Static(cfg)
  <2>1. job[v].k \in 0 .. nextGop - 1 /\ job[v].g = HandOut(cfg, job[v].k) BY <1>1, <1>4 DEF PullIs
  <2> QED BY <2>1, <1>2, <1>4 DEF Taken
<1> QED BY <1>2, <1>3, <1>4

\* What is pulled was not taken before.
LEMMA FreshGop ==
  ASSUME IInv, NEW w \in Workers, NEW n, Fresh(w, n), IsGop(n.g)
  PROVE  ~Taken(n.g) /\ (Static(cfg) => n.g = w /\ job[w].g = None)
<1>0. TypeInv /\ BoundsInv BY DEF IInv
<1>1. CASE Static(cfg)
  <2>1. n.g \in 0 .. nGops - 1 BY <1>1 DEF Static, IsGop, Pipe
  <2>2. nGops \in Nat BY <1>0, SettingIs
  <2>3. job[w].g = None /\ n.g = w BY <2>1, <2>2, <1>1 DEF Fresh
  <2> QED BY <2>3, <1>1 DEF Taken
<1>2. CASE ~Static(cfg)
  <2>1. n.g = HandOut(cfg, nextGop) /\ nextGop \in Nat BY <1>0, <1>2 DEF Fresh, TypeInv
  <2>2. ASSUME NEW k \in 0 .. nextGop - 1 PROVE HandOut(cfg, k) # n.g
    <3>1. k \in Nat /\ k # nextGop BY <2>1
    <3> QED BY <3>1, <2>1, <1>0, HandedOnce
  <2> QED BY <2>2, <1>2 DEF Taken
<1> QED BY <1>1, <1>2

\* A GOP is taken for good, and a step takes no other than its own.
LEMMA TakenStays ==
  ASSUME IInv, cfg' = cfg, NEW w \in Workers, NEW n, JobIs(n), job' = [job EXCEPT ![w] = n],
         Fresh(w, n) \/ Stays(w, n)
  PROVE  /\ \A g : Taken(g) => Taken(g)'
         /\ \A g : g # None /\ Taken(g)' => Taken(g) \/ (Fresh(w, n) /\ g = n.g)
<1>0. TypeInv /\ BoundsInv BY DEF IInv
<1>1. /\ Workers' = Workers /\ job'[w] = n /\ \A v \in Workers \ {w} : job'[v] = job[v]
  BY <1>0, JobMoves DEF TypeInv
<1>2. CASE Static(cfg)
  <2>1. n.g = job[w].g \/ (Fresh(w, n) /\ n.g # None)
    <3>1. nGops \in Nat /\ w \in Nat BY <1>0, SettingIs DEF Workers
    <3> QED BY <3>1, <1>2 DEF Fresh, Stays, None
  <2>2. Stays(w, n) => n.g = job[w].g BY DEF Stays
  <2>3. Fresh(w, n) => n.g = w \/ job[w].g # None BY <1>2 DEF Fresh
  <2>4. ASSUME NEW g, Taken(g) PROVE Taken(g)'
    <3>1. g \in Workers /\ job[g].g # None BY <2>4, <1>2 DEF Taken
    <3>2. CASE g = w BY <3>1, <3>2, <2>1, <1>1, <1>2 DEF Taken
    <3>3. CASE g # w BY <3>1, <3>3, <1>1, <1>2 DEF Taken
    <3> QED BY <3>2, <3>3
  <2>5. ASSUME NEW g, Taken(g)' PROVE Taken(g) \/ (Fresh(w, n) /\ g = n.g)
    <3>1. g \in Workers /\ job'[g].g # None BY <2>5, <1>1, <1>2 DEF Taken
    <3>2. CASE g = w
      <4>1. CASE job[w].g # None BY <3>1, <3>2, <4>1, <1>2 DEF Taken
      <4>2. CASE job[w].g = None
        <5>1. n.g # None BY <3>1, <3>2, <1>1
        <5> QED BY <5>1, <4>2, <2>1, <2>3, <3>2
      <4> QED BY <4>1, <4>2
    <3>3. CASE g # w BY <3>1, <3>3, <1>1, <1>2 DEF Taken
    <3> QED BY <3>2, <3>3
  <2> QED BY <2>4, <2>5
<1>3. CASE ~Static(cfg)
  <2>1. nextGop \in Nat BY <1>0 DEF TypeInv
  <2>2. \/ Stays(w, n) /\ nextGop' = nextGop
        \/ Fresh(w, n) /\ nextGop' = nextGop + 1 /\ n.g = HandOut(cfg, nextGop)
    BY <1>3 DEF Fresh, Stays
  <2>3. \A g : Taken(g)' <=> \E k \in 0 .. nextGop' - 1 : HandOut(cfg, k) = g BY <1>3 DEF Taken
  <2>4. \A g : Taken(g) <=> \E k \in 0 .. nextGop - 1 : HandOut(cfg, k) = g BY <1>3 DEF Taken
  <2>5. CASE nextGop' = nextGop BY <2>3, <2>4, <2>5
  <2>6. CASE Fresh(w, n) /\ nextGop' = nextGop + 1 /\ n.g = HandOut(cfg, nextGop)
    <3>1. ASSUME NEW k \in 0 .. nextGop - 1 PROVE k \in 0 .. nextGop' - 1 BY <2>1, <2>6
    <3>2. ASSUME NEW k \in 0 .. nextGop' - 1 PROVE k \in 0 .. nextGop - 1 \/ k = nextGop BY <2>1, <2>6
    <3>3. ASSUME NEW g, Taken(g) PROVE Taken(g)' BY <3>3, <3>1, <2>3, <2>4
    <3>4. ASSUME NEW g, Taken(g)' PROVE Taken(g) \/ g = n.g
      <4>1. PICK k \in 0 .. nextGop' - 1 : HandOut(cfg, k) = g BY <3>4, <2>3
      <4>2. k \in 0 .. nextGop - 1 \/ k = nextGop BY <3>2
      <4> QED BY <4>1, <4>2, <2>4, <2>6
    <3> QED BY <3>3, <3>4, <2>6
  <2> QED BY <2>2, <2>5, <2>6
<1> QED BY <1>2, <1>3

LEMMA Taking ==
  ASSUME IInv, NEW w \in Workers, NEW n, Aside, UNCHANGED <<store, cons, done, data>>,
         JobIs(n), job' = [job EXCEPT ![w] = n], StartedAs(n), Fresh(w, n) \/ Stays(w, n)
  PROVE  IInv'
<1>0. /\ TypeInv /\ BoundsInv /\ ReaderInv /\ QueueInv /\ FrontsInv /\ HeldInv /\ JobInv
      /\ cfg' = cfg /\ job[w].pc \in {"pull", "exist", "first"}
  BY DEF IInv, Aside, Fresh, Stays
<1>1. /\ Workers' = Workers /\ JobsAre' /\ job'[w] = n /\ \A v \in Workers \ {w} : job'[v] = job[v]
  BY <1>0, JobMoves DEF TypeInv
<1>2. nGops' = nGops /\ Pipe' = Pipe /\ Seek' = Seek /\ bounds' = bounds /\ nGops \in Nat
  BY <1>0, SettingIs DEF Aside, nGops, Pipe, Seek
<1>3. /\ \A g : IsGop(g)' = IsGop(g) /\ Begin(g)' = Begin(g) /\ Finish(g)' = Finish(g)
      /\ \A g : Start(g)' = Start(g) /\ End(g)' = End(g)
  BY <1>0, <1>2 DEF IsGop, Begin, Finish, Start, End
<1>4. /\ \A g : Taken(g) => Taken(g)'
      /\ \A g : g # None /\ Taken(g)' => Taken(g) \/ (Fresh(w, n) /\ g = n.g)
  BY <1>0, TakenStays
<1>5. n.pc \in Active => IsGop(n.g) /\ JobOf(n) /\ (n.i = Begin(n.g) \/ (Pipe /\ n.i = 0))
                         /\ n.g \in Nat /\ Begin(n.g) \in Nat /\ Finish(n.g) \in Nat
  BY <1>0, GopIs DEF StartedAs, Active
<1>6. ASSUME n.pc \in Active, Fresh(w, n) PROVE ~Taken(n.g) /\ (Static(cfg) => n.g = w)
  BY <1>5, <1>6, FreshGop
<1>7. TypeInv'
  <2>1. nextGop' \in Nat BY <1>0 DEF Fresh, Stays, TypeInv
  <2> QED BY <1>0, <1>1, <2>1 DEF TypeInv, Aside
<1>8. BoundsInv' /\ ReaderInv' BY AsideKeeps
<1>9. DoneInv' /\ OutInv' BY <1>0, OutputKeeps
<1>10. QueueInv'
  <2>1. ASSUME n.pc \in Active
        PROVE  /\ n.g \notin done /\ PullIs(n, w)'
               /\ \A v \in Workers \ {w} : job[v].pc \in Active => job[v].g # n.g
    <3>1. CASE Stays(w, n)
      <4>1. job[w].pc \in Active BY <3>1 DEF Stays, Active
      <4>2. n.g = job[w].g /\ n.k = job[w].k /\ nextGop' = nextGop BY <3>1 DEF Stays
      <4>3. job[w].g \notin done /\ PullIs(job[w], w) BY <4>1, <1>0 DEF QueueInv
      <4>4. PullIs(n, w)' BY <4>2, <4>3, <1>0 DEF PullIs
      <4>5. \A v \in Workers \ {w} : job[v].pc \in Active => job[v].g # job[w].g
        BY <4>1, <1>0 DEF QueueInv
      <4> QED BY <4>2, <4>3, <4>4, <4>5
    <3>2. CASE Fresh(w, n)
      <4>1. ~Taken(n.g) /\ (Static(cfg) => n.g = w) BY <3>2, <2>1, <1>6
      <4>2. n.g \notin done BY <4>1, <1>0 DEF QueueInv
      <4>3. \A v \in Workers \ {w} : job[v].pc \in Active => job[v].g # n.g
        BY <4>1, ActiveTaken
      <4>4. PullIs(n, w)'
        <5>1. CASE Static(cfg) BY <5>1, <3>2, <4>1, <1>0 DEF PullIs, Fresh
        <5>2. CASE ~Static(cfg)
          <6>1. nextGop \in Nat BY <1>0 DEF TypeInv
          <6>2. nextGop \in 0 .. nextGop' - 1 /\ n.k = nextGop /\ n.g = HandOut(cfg, nextGop)
            BY <6>1, <5>2, <3>2 DEF Fresh
          <6> QED BY <6>2, <5>2, <1>0 DEF PullIs
        <5> QED BY <5>1, <5>2
      <4> QED BY <4>2, <4>3, <4>4
    <3> QED BY <3>1, <3>2
  <2>2. ASSUME NEW v \in Workers \ {w}, job[v].pc \in Active
        PROVE  IsGop(job[v].g) /\ job[v].g \notin done /\ PullIs(job[v], v)'
    <3>1. IsGop(job[v].g) /\ job[v].g \notin done /\ PullIs(job[v], v) BY <2>2, <1>0 DEF QueueInv
    <3>2. PICK j : j = job[v] OBVIOUS
    <3>3. nextGop \in Nat /\ nextGop' \in Nat /\ nextGop <= nextGop'
      BY <1>0 DEF TypeInv, Fresh, Stays
    <3>4. PullIs(j, v)'
      <4>1. CASE Static(cfg) BY <4>1, <3>1, <3>2, <1>0 DEF PullIs
      <4>2. CASE ~Static(cfg)
        <5>1. j.k \in 0 .. nextGop - 1 /\ j.g = HandOut(cfg, j.k) BY <4>2, <3>1, <3>2 DEF PullIs
        <5>2. j.k \in 0 .. nextGop' - 1 BY <5>1, <3>3
        <5> QED BY <5>1, <5>2, <4>2, <1>0 DEF PullIs
      <4> QED BY <4>1, <4>2
    <3>5. job'[v] = j BY <2>2, <1>1, <3>2
    <3>6. PullIs(job[v], v)' BY <3>4, <3>5 DEF PullIs
    <3> QED BY <3>1, <3>6
  <2>3. ASSUME NEW v \in Workers, job'[v].pc \in Active
        PROVE  IsGop(job[v].g)' /\ job'[v].g \notin done' /\ PullIs(job[v], v)'
    <3>1. CASE v = w
      <4>1. n.pc \in Active BY <3>1, <2>3, <1>1
      <4>2. n.g \notin done /\ PullIs(n, w)' /\ IsGop(n.g) BY <4>1, <2>1, <1>5
      <4>3. IsGop(n.g)' BY <4>2, <1>3
      <4>4. IsGop(job[w].g)' BY <4>3, <1>1 DEF IsGop
      <4>5. PullIs(job[w], w)' BY <4>2, <1>1 DEF PullIs
      <4> QED BY <3>1, <4>2, <4>4, <4>5, <1>1
    <3>2. CASE v # w
      <4>1. v \in Workers \ {w} /\ job'[v] = job[v] BY <3>2, <1>1
      <4>2. IsGop(job[v].g) /\ job[v].g \notin done /\ PullIs(job[v], v)' BY <4>1, <2>2, <2>3
      <4>3. PICK g : g = job[v].g OBVIOUS
      <4>4. IsGop(g)' BY <4>2, <4>3, <1>3
      <4>5. IsGop(job[v].g)' BY <4>4, <4>3, <4>1 DEF IsGop
      <4> QED BY <4>1, <4>2, <4>5
    <3> QED BY <3>1, <3>2
  <2>4. ASSUME NEW v \in Workers, NEW u \in Workers, job'[v].pc \in Active, job'[u].pc \in Active, u # v
        PROVE  job'[u].g # job'[v].g
    <3>1. CASE v # w /\ u # w BY <3>1, <2>4, <1>0, <1>1 DEF QueueInv
    <3>2. CASE v = w /\ u # w BY <3>2, <2>4, <2>1, <1>1
    <3>3. CASE v # w /\ u = w BY <3>3, <2>4, <2>1, <1>1
    <3> QED BY <3>1, <3>2, <3>3, <2>4
  <2>5. \A g \in done' : Taken(g)' BY <1>0, <1>4 DEF QueueInv
  <2>6. \A v \in Workers : job'[v].pc = "unborn" => job'[v].g = None
    <3>1. n.pc # "unborn" BY DEF StartedAs, Active
    <3> QED BY <3>1, <1>0, <1>1 DEF QueueInv
  <2> QED BY <1>1, <2>3, <2>4, <2>5, <2>6 DEF QueueInv
\* A worker that waits has consumed nothing.
<1>11. Stays(w, n) => job[w].i = Begin(job[w].g) \/ (Pipe /\ job[w].i = 0)
  <2> SUFFICES ASSUME Stays(w, n) PROVE job[w].i = Begin(job[w].g) \/ (Pipe /\ job[w].i = 0) OBVIOUS
  <2>1. job[w].pc \in {"exist", "first"} /\ JobOf(job[w]) /\ IsGop(job[w].g)
    BY <1>0 DEF Stays, JobInv, QueueInv, Active
  <2>2. CASE job[w].pc = "exist" BY <2>1, <2>2 DEF JobOf
  <2>3. CASE job[w].pc = "first"
    <3>1. FedIs(job[w]) /\ job[w].buf = <<>> BY <2>1, <2>3 DEF JobOf
    <3>2. Begin(job[w].g) \in Nat BY <2>1, <1>0, GopIs
    <3> QED BY <3>1, <3>2 DEF FedIs
  <2> QED BY <2>1, <2>2, <2>3
<1>12. FrontsInv'
  <2> SUFFICES ASSUME Seek PROVE FrontsAre' BY <1>2 DEF FrontsInv
  <2>1. FrontsAre /\ ~Pipe BY <1>0 DEF FrontsInv, Seek, Pipe
  <2>2. ASSUME NEW g \in 0 .. nGops - 1 
        PROVE  Start(g)' <= cons'[g] /\ cons'[g] <= rd'[g] /\ (~Taken(g)' => cons'[g] = Start(g)')
    <3>1. Start(g) <= cons[g] /\ cons[g] <= rd[g] /\ (~Taken(g) => cons[g] = Start(g)) BY <2>1 DEF FrontsAre
    <3> QED BY <3>1, <1>3, <1>4 DEF Aside
  <2>3. \A f \in store' : \E g \in 0 .. nGops' - 1 : cons'[g] <= f /\ f < rd'[g]
    BY <2>1, <1>2 DEF FrontsAre, Aside
  <2>4. ASSUME NEW v \in Workers, job'[v].pc \in Active PROVE cons'[job'[v].g] = job'[v].i
    <3>1. CASE v # w BY <3>1, <2>4, <2>1, <1>1 DEF FrontsAre
    <3>2. CASE v = w
      <4>1. n.pc \in Active /\ n.i = Begin(n.g) /\ n.g \in 0 .. nGops - 1
        BY <3>2, <2>1, <2>4, <1>1, <1>5 DEF IsGop
      <4>2. CASE Stays(w, n)
        <5>1. job[w].pc \in Active /\ n.g = job[w].g BY <4>2 DEF Stays, Active
        <5>2. cons[job[w].g] = job[w].i BY <5>1, <2>1 DEF FrontsAre
        <5> QED BY <5>1, <5>2, <4>1, <4>2, <1>1, <1>11, <2>1, <3>2
      <4>3. CASE Fresh(w, n)
        <5>1. ~Taken(n.g) BY <4>1, <4>3, <1>6
        <5>2. cons[n.g] = Start(n.g) BY <5>1, <4>1, <2>1 DEF FrontsAre
        <5>3. Start(n.g) = Begin(n.g) BY <4>1, <1>0, TableIs
        <5> QED BY <5>2, <5>3, <4>1, <1>1, <3>2
      <4> QED BY <4>2, <4>3
    <3> QED BY <3>1, <3>2
  <2> QED BY <2>2, <2>3, <2>4, <1>1, <1>2 DEF FrontsAre
<1>13. HeldInv'
  <2> SUFFICES ASSUME NEW g \in Nat, NEW f \in Nat, IsGop(g)', f \in (Begin(g) .. Finish(g) - 1)',
                      Got(g, f)', Wanted(g, f)'
               PROVE  f \in store'
    BY DEF HeldInv
  <2>1. IsGop(g) /\ f \in Begin(g) .. Finish(g) - 1 BY <1>3
  <2>2. Got(g, f) BY <1>2 DEF Got, Aside
  <2>3. Wanted(g, f)
    <3>1. CASE ~Taken(g)' BY <3>1, <1>4 DEF Wanted
    <3>2. CASE \E v \in Workers : job'[v].pc \in Active /\ job'[v].g = g /\ job'[v].i <= f
      <4>1. PICK v \in Workers : job'[v].pc \in Active /\ job'[v].g = g /\ job'[v].i <= f BY <3>2
      <4>2. CASE v # w BY <4>1, <4>2, <1>1 DEF Wanted
      <4>3. CASE v = w
        <5>1. n.pc \in Active /\ n.g = g BY <4>1, <4>3, <1>1
        <5>2. CASE Fresh(w, n) BY <5>1, <5>2, <1>6 DEF Wanted
        <5>3. CASE Stays(w, n)
          <6>1. job[w].pc \in Active /\ job[w].g = g BY <5>1, <5>3 DEF Stays, Active
          <6>2. job[w].i <= f
            <7>1. Begin(g) \in Nat BY <2>1, <1>0, GopIs
            <7> QED BY <7>1, <6>1, <5>3, <1>11, <2>1
          <6> QED BY <6>1, <6>2 DEF Wanted
        <5> QED BY <5>2, <5>3
      <4> QED BY <4>2, <4>3
    <3> QED BY <3>1, <3>2, <1>1 DEF Wanted
  <2>4. f \in store BY <2>1, <2>2, <2>3, <1>0 DEF HeldInv
  <2> QED BY <2>4
<1>14. JobInv'
  <2>1. \A j : JobOf(j) => JobOf(j)'
    <3> SUFFICES ASSUME NEW j, JobOf(j) PROVE JobOf(j)' OBVIOUS
    <3>1. FedIs(j)' = FedIs(j) /\ Runs(j)' = Runs(j) /\ Reached(j)' = Reached(j)
      BY <1>2, <1>3 DEF FedIs, Runs, Reached, Aside
    <3> QED BY <3>1, <1>2, <1>3 DEF JobOf, Aside
  <2>2. ASSUME NEW v \in Workers, job'[v].pc \in Active PROVE JobOf(job[v])'
    <3>1. PICK j : j = job'[v] OBVIOUS
    <3>2. JobOf(j)
      <4>1. CASE v = w BY <4>1, <3>1, <2>2, <1>1, <1>5
      <4>2. CASE v # w BY <4>2, <3>1, <2>2, <1>0, <1>1 DEF JobInv
      <4> QED BY <4>1, <4>2
    <3>3. JobOf(j)' BY <3>2, <2>1
    <3> QED BY <3>1, <3>3, Zenon DEF JobOf, FedIs, Runs, Reached
  <2> QED BY <2>2, <1>1 DEF JobInv
<1> QED BY <1>7, <1>8, <1>9, <1>10, <1>12, <1>13, <1>14 DEF IInv

\* What such a step does.
Takes(w, n) ==
  /\ Aside /\ UNCHANGED <<store, cons, done, data>>
  /\ JobIs(n) /\ job' = [job EXCEPT ![w] = n] /\ StartedAs(n) /\ LeavesFor(n)
  /\ Fresh(w, n) \/ Stays(w, n)

LEMMA TakesIs ==
  ASSUME IInv, NEW w \in Workers, Pull(w) \/ WaitGop(w) \/ WaitFirst(w)
  PROVE  \E n : Takes(w, n)
<1>0. /\ TypeInv /\ BoundsInv /\ Aside /\ UNCHANGED <<store, cons, data>> /\ JobIs(job[w])
      /\ nGops \in Nat /\ w \in Nat /\ nextGop \in Nat
  <2>1. TypeInv /\ BoundsInv BY DEF IInv
  <2>2. Aside /\ UNCHANGED <<store, cons, data>>
    BY DEF Pull, WaitGop, WaitFirst, Aside, table, flags
  <2>3. nGops \in Nat /\ w \in Nat BY <2>1, SettingIs DEF Workers
  <2> QED BY <2>1, <2>2, <2>3 DEF TypeInv, JobsAre
<1>1. CASE Pull(w)
  <2>1. PICK k : k = IF Static(cfg) THEN NoPull ELSE nextGop OBVIOUS
  <2>2. PICK g : g = IF Static(cfg) THEN IF job[w].g = None THEN w ELSE nGops
                     ELSE IF k < nGops THEN HandOut(cfg, k) ELSE k OBVIOUS
  <2>3. PICK j : j = [pc |-> "pull", k |-> k, g |-> g, i |-> 0, end |-> 0,
                      pred |-> None, ahead |-> 0, buf |-> <<>>] OBVIOUS
  <2>4. PICK pulls : pulls = IF g < nGops THEN Record(pullGop, k, g) ELSE pullGop OBVIOUS
  <2>5. /\ job[w].pc = "pull" /\ nextGop' = IF Static(cfg) THEN nextGop ELSE nextGop + 1
        /\ Exists(w, j, pulls)
    BY <1>1, <2>1, <2>2, <2>3, <2>4 DEF Pull, At
  <2>6. ~Static(cfg) => k = nextGop /\ g = HandOut(cfg, k) /\ g \in Nat
    <3>1. HandOut(cfg, nextGop) \in Nat /\ (nextGop >= nGops => HandOut(cfg, nextGop) = nextGop)
      BY <1>0, HandedOnce
    <3> QED BY <3>1, <2>1, <2>2, <1>0
  <2>7. g \in Nat /\ k \in Int BY <2>1, <2>2, <2>6, <1>0 DEF NoPull
  <2>8. JobIs(j) /\ j.buf = <<>> /\ j.i = 0 /\ j.g = g /\ j.k = k BY <2>3, <2>7 DEF JobIs, JobPcs
  <2>9. PICK n : /\ JobIs(n) /\ n.k = j.k /\ n.g = j.g /\ job' = [job EXCEPT ![w] = n]
                 /\ done' = done /\ StartedAs(n) /\ LeavesFor(n)
    BY <2>5, <2>7, <2>8, ExistsIs
  <2>10. Fresh(w, n)
    <3>1. CASE Static(cfg) BY <3>1, <2>1, <2>2, <2>5, <2>8, <2>9 DEF Fresh
    <3>2. CASE ~Static(cfg) BY <3>2, <2>6, <2>5, <2>8, <2>9 DEF Fresh
    <3> QED BY <3>1, <3>2
  <2> QED BY <1>0, <2>9, <2>10 DEF Takes
<1>2. CASE WaitGop(w)
  <2>1. job[w].pc = "exist" /\ Exists(w, job[w], pullGop) /\ nextGop' = nextGop BY <1>2 DEF WaitGop, At
  <2>2. JobOf(job[w]) /\ IsGop(job[w].g) BY <2>1 DEF IInv, JobInv, QueueInv, Active
  <2>3. job[w].buf = <<>> /\ job[w].i = 0 /\ job[w].g \in Nat BY <2>1, <2>2, <1>0, GopIs DEF JobOf
  <2>4. PICK n : /\ JobIs(n) /\ n.k = job[w].k /\ n.g = job[w].g /\ job' = [job EXCEPT ![w] = n]
                 /\ done' = done /\ StartedAs(n) /\ LeavesFor(n)
    BY <2>1, <2>3, <1>0, ExistsIs
  <2>5. Stays(w, n) BY <2>1, <2>4 DEF Stays
  <2> QED BY <1>0, <2>4, <2>5 DEF Takes
<1>3. CASE WaitFirst(w)
  <2>1. job[w].pc = "first" /\ FirstFrame(w, job[w], pullGop) /\ nextGop' = nextGop BY <1>3 DEF WaitFirst, At
  <2>2. JobOf(job[w]) /\ IsGop(job[w].g) BY <2>1 DEF IInv, JobInv, QueueInv, Active
  <2>3. job[w].buf = <<>> /\ FedIs(job[w]) /\ job[w].g < nGops /\ job[w].end = End(job[w].g)
    BY <2>1, <2>2 DEF JobOf
  <2>4. job[w].g \in Nat /\ Begin(job[w].g) \in Nat BY <2>2, <1>0, GopIs
  <2>5. job[w].g \in 0 .. nGops - 1 BY <2>3, <2>4, <1>0
  <2>6. job[w].i = Start(job[w].g)
    <3>1. Start(job[w].g) = Begin(job[w].g) BY <2>5, <1>0, TableIs
    <3> QED BY <3>1, <2>3, <2>4 DEF FedIs
  <2>7. PICK n : /\ JobIs(n) /\ n.k = job[w].k /\ n.g = job[w].g /\ job' = [job EXCEPT ![w] = n]
                 /\ done' = done /\ StartedAs(n) /\ LeavesFor(n)
    BY <2>1, <2>3, <2>5, <2>6, <1>0, FirstFrameIs
  <2>8. Stays(w, n) BY <2>1, <2>7 DEF Stays
  <2> QED BY <1>0, <2>7, <2>8 DEF Takes
<1> QED BY <1>1, <1>2, <1>3

LEMMA StepTakes ==
  ASSUME IInv, NEW w \in Workers, Pull(w) \/ WaitGop(w) \/ WaitFirst(w)
  PROVE  IInv'
<1>1. PICK n : Takes(w, n) BY TakesIs
<1> QED BY <1>1, Taking DEF Takes

-----------------------------------------------------------------------------
(* The workers: a GOP that was taken. *)

\* The queue is as it was for workers that keep their GOPs.
LEMMA QueueSame ==
  ASSUME IInv, JobsAre', UNCHANGED <<cfg, bounds, nextGop, done>>,
         \A v \in Workers :
           /\ (job'[v].pc \in Active <=> job[v].pc \in Active)
           /\ job'[v].g = job[v].g /\ job'[v].k = job[v].k
           /\ (job'[v].pc = "unborn" => job[v].pc = "unborn")
  PROVE  QueueInv' /\ \A g : Taken(g)' = Taken(g)
<1>0. QueueInv /\ Workers' = Workers /\ nGops' = nGops /\ Pipe' = Pipe
  BY DEF IInv, Workers, nGops, Pipe
<1>1. \A g : Taken(g)' = Taken(g)
  <2>1. \A g : g \in Workers /\ job'[g].g # None <=> g \in Workers /\ job[g].g # None OBVIOUS
  <2> QED BY <2>1, <1>0 DEF Taken
<1>2. ASSUME NEW v \in Workers, job'[v].pc \in Active
      PROVE  IsGop(job[v].g)' /\ job'[v].g \notin done' /\ PullIs(job[v], v)'
  <2>1. IsGop(job[v].g) /\ job[v].g \notin done /\ PullIs(job[v], v) BY <1>2, <1>0 DEF QueueInv
  <2>2. job'[v].g = job[v].g /\ job'[v].k = job[v].k OBVIOUS
  <2>3. PullIs(job[v], v)' BY <2>1, <2>2 DEF PullIs
  <2>4. IsGop(job[v].g)' BY <2>1, <2>2, <1>0 DEF IsGop
  <2> QED BY <2>1, <2>2, <2>3, <2>4
<1>3. \A v \in Workers, u \in Workers :
        job'[v].pc \in Active /\ job'[u].pc \in Active /\ u # v => job'[u].g # job'[v].g
  BY <1>0 DEF QueueInv
<1>4. \A g \in done' : Taken(g)' BY <1>0, <1>1 DEF QueueInv
<1>5. \A v \in Workers : job'[v].pc = "unborn" => job'[v].g = None BY <1>0 DEF QueueInv
<1> QED BY <1>0, <1>1, <1>2, <1>3, <1>4, <1>5 DEF QueueInv

\* A worker turns to the next part of its GOP.
LEMMA Turning ==
  ASSUME IInv, NEW w \in Workers, NEW n, Aside, UNCHANGED <<store, cons, nextGop, done, data>>,
         job[w].pc \in Active, JobIs(n), job' = [job EXCEPT ![w] = n], n.pc \in Active,
         n.k = job[w].k, n.g = job[w].g, n.i = job[w].i, JobOf(n)
  PROVE  IInv'
<1>0. TypeInv /\ BoundsInv /\ QueueInv /\ FrontsInv /\ HeldInv /\ JobInv /\ cfg' = cfg BY DEF IInv, Aside
<1>1. /\ Workers' = Workers /\ JobsAre' /\ job'[w] = n /\ \A v \in Workers \ {w} : job'[v] = job[v]
  BY <1>0, JobMoves DEF TypeInv
<1>2. nGops' = nGops /\ Pipe' = Pipe /\ Seek' = Seek BY DEF Aside, nGops, Pipe, Seek
<1>3. /\ \A g : IsGop(g)' = IsGop(g) /\ Begin(g)' = Begin(g) /\ Finish(g)' = Finish(g)
      /\ \A g : Start(g)' = Start(g) /\ End(g)' = End(g)
  BY <1>0, <1>2 DEF IsGop, Begin, Finish, Start, End, Aside
<1>4. \A v \in Workers :
        /\ (job'[v].pc \in Active <=> job[v].pc \in Active)
        /\ job'[v].g = job[v].g /\ job'[v].k = job[v].k /\ job'[v].i = job[v].i
        /\ (job'[v].pc = "unborn" => job[v].pc = "unborn")
  <2>1. n.pc # "unborn" BY DEF Active
  <2> QED BY <2>1, <1>1
<1>5. QueueInv' /\ \A g : Taken(g)' = Taken(g)
  BY <1>1, <1>4, QueueSame DEF Aside
<1>6. TypeInv' BY <1>0, <1>1 DEF TypeInv, Aside
<1>7. BoundsInv' /\ ReaderInv' BY AsideKeeps
<1>8. DoneInv' /\ OutInv'
  <2>1. job[w].pc # "unborn" BY DEF Active
  <2> QED BY <2>1, OutputKeeps
<1>10. FrontsInv'
  <2> SUFFICES ASSUME Seek PROVE FrontsAre' BY <1>2 DEF FrontsInv
  <2>1. FrontsAre BY <1>0 DEF FrontsInv
  <2>2. \A v \in Workers : job'[v].pc \in Active => cons'[job'[v].g] = job'[v].i
    BY <2>1, <1>4 DEF FrontsAre
  <2>3. \A g \in 0 .. nGops' - 1 :
          Start(g)' <= cons'[g] /\ cons'[g] <= rd'[g] /\ (~Taken(g)' => cons'[g] = Start(g)')
    BY <2>1, <1>2, <1>3, <1>5 DEF FrontsAre, Aside
  <2>4. \A f \in store' : \E g \in 0 .. nGops' - 1 : cons'[g] <= f /\ f < rd'[g]
    BY <2>1, <1>2 DEF FrontsAre, Aside
  <2> QED BY <2>2, <2>3, <2>4, <1>1 DEF FrontsAre
<1>11. HeldInv'
  <2>1. \A g, f : Wanted(g, f)' => Wanted(g, f)
    BY <1>1, <1>4, <1>5 DEF Wanted
  <2>2. \A g, f : Got(g, f)' = Got(g, f) BY <1>2 DEF Got, Aside
  <2> QED BY <2>1, <2>2, <1>0, <1>3 DEF HeldInv
<1>12. JobInv'
  <2>1. \A j : JobOf(j) => JobOf(j)'
    <3> SUFFICES ASSUME NEW j, JobOf(j) PROVE JobOf(j)' OBVIOUS
    <3>1. FedIs(j)' = FedIs(j) /\ Runs(j)' = Runs(j) /\ Reached(j)' = Reached(j)
      BY <1>2, <1>3 DEF FedIs, Runs, Reached, Aside
    <3> QED BY <3>1, <1>2, <1>3 DEF JobOf, Aside
  <2>2. ASSUME NEW v \in Workers, job'[v].pc \in Active PROVE JobOf(job[v])'
    <3>1. PICK j : j = job'[v] OBVIOUS
    <3>2. JobOf(j)
      <4>1. CASE v = w BY <4>1, <3>1, <1>1
      <4>2. CASE v # w BY <4>2, <3>1, <2>2, <1>0, <1>1 DEF JobInv
      <4> QED BY <4>1, <4>2
    <3>3. JobOf(j)' BY <3>2, <2>1
    <3> QED BY <3>1, <3>3, Zenon DEF JobOf, FedIs, Runs, Reached
  <2> QED BY <2>2, <1>1 DEF JobInv
<1> QED BY <1>5, <1>6, <1>7, <1>8, <1>10, <1>11, <1>12 DEF IInv

LEMMA StepCarries ==
  ASSUME IInv, NEW w \in Workers, Predecessor(w) \/ Import(w)
  PROVE  IInv'
<1>0. TypeInv /\ JobInv /\ JobIs(job[w]) BY DEF IInv, TypeInv, JobsAre
<1>1. job[w].pc \in {"carry", "import"} BY DEF Predecessor, Import, At
<1>2. /\ Aside /\ UNCHANGED <<store, cons, nextGop, done, data>>
  BY DEF Predecessor, Import, Aside, table, flags, output
<1>3. \E n : /\ JobIs(n) /\ n.pc \in {"carry", "import", "feed"} /\ n.k = job[w].k /\ n.g = job[w].g
             /\ n.i = job[w].i /\ n.end = job[w].end /\ n.buf = job[w].buf
             /\ job' = [job EXCEPT ![w] = n]
  <2>1. CASE Predecessor(w)
    <3>1. PICK p, q : p = (IF job[w].k # NoPull /\ job[w].k >= cfg.w THEN pullGop[job[w].k - cfg.w] ELSE None)
                      /\ q = (IF p = None THEN 0 ELSE Ahead(job[w].k - cfg.w + 1, job[w].k - 1)) OBVIOUS
    <3>2. PICK n : n = [job[w] EXCEPT !.pc = IF p = None THEN "feed" ELSE "import", !.pred = p, !.ahead = q]
      OBVIOUS
    <3>3. job' = [job EXCEPT ![w] = n] BY <2>1, <3>1, <3>2 DEF Predecessor, Moves
    <3>4. /\ JobIs(n) /\ n.pc \in {"import", "feed"} /\ n.k = job[w].k /\ n.g = job[w].g
          /\ n.i = job[w].i /\ n.end = job[w].end /\ n.buf = job[w].buf
      BY <3>2, <1>0 DEF JobIs, JobPcs, Active
    <3> QED BY <3>3, <3>4
  <2>2. CASE Import(w)
    <3>1. job' = job \/ job' = [job EXCEPT ![w] = [job[w] EXCEPT !.pc = "feed"]] BY <2>2 DEF Import, Moves
    <3>2. CASE job' = job
      <4>1. job' = [job EXCEPT ![w] = job[w]] BY <3>2, <1>0 DEF TypeInv, JobsAre
      <4> QED BY <4>1, <1>0, <1>1
    <3>3. CASE job' = [job EXCEPT ![w] = [job[w] EXCEPT !.pc = "feed"]]
      <4>1. PICK n : n = [job[w] EXCEPT !.pc = "feed"] OBVIOUS
      <4>2. /\ JobIs(n) /\ n.pc = "feed" /\ n.k = job[w].k /\ n.g = job[w].g
            /\ n.i = job[w].i /\ n.end = job[w].end /\ n.buf = job[w].buf
        BY <4>1, <1>0 DEF JobIs, JobPcs, Active
      <4> QED BY <4>1, <4>2, <3>3
    <3> QED BY <3>1, <3>2, <3>3
  <2> QED BY <2>1, <2>2
<1>4. PICK n : /\ JobIs(n) /\ n.pc \in {"carry", "import", "feed"} /\ n.k = job[w].k /\ n.g = job[w].g
               /\ n.i = job[w].i /\ n.end = job[w].end /\ n.buf = job[w].buf
               /\ job' = [job EXCEPT ![w] = n]
  BY <1>3
<1>5. JobOf(n)
  <2>1. JobOf(job[w]) BY <1>0, <1>1 DEF JobInv, Active
  <2>2. FedIs(job[w]) /\ job[w].i < job[w].end /\ Runs(job[w]) /\ Reached(job[w]) BY <2>1, <1>1 DEF JobOf
  <2>3. FedIs(n) /\ Runs(n) /\ Reached(n) BY <2>2, <1>4 DEF FedIs, Runs, Reached
  <2> QED BY <2>2, <2>3, <1>4 DEF JobOf
<1>6. job[w].pc \in Active /\ n.pc \in Active BY <1>1, <1>4 DEF Active
<1> QED BY <1>2, <1>4, <1>5, <1>6, Turning

LEMMA StepFeed ==
  ASSUME IInv, NEW w \in Workers, Feed(w)
  PROVE  IInv'
<1>0. TypeInv /\ BoundsInv /\ ReaderInv /\ QueueInv /\ HeldInv /\ JobInv /\ JobIs(job[w])
  BY DEF IInv, TypeInv, JobsAre
<1>1. job[w].pc = "feed" /\ job[w].pc \in Active BY DEF Feed, At, Active
<1>2. Aside /\ UNCHANGED <<store, cons, nextGop, done, data>>
  BY DEF Feed, Aside, table, flags, output
<1>3. PICK j : j = job[w] OBVIOUS
<1>4. PICK p \in {"feed", "code", "publish"} :
        /\ job' = [job EXCEPT ![w] = [j EXCEPT !.pc = p]]
        /\ (p = "code" => ~abort /\ Ready(j.i)) /\ (p = "publish" => abort \/ (~Ready(j.i) /\ eof))
  <2>1. CASE ~abort /\ ~Ready(j.i) /\ ~eof
    <3>1. job' = [job EXCEPT ![w] = j] BY <2>1, <1>3 DEF Feed, Starves, Moves
    <3>2. [j EXCEPT !.pc = "feed"] = j BY <1>0, <1>1, <1>3 DEF JobIs
    <3> QED BY <3>1, <3>2
  <2>2. CASE ~abort /\ Ready(j.i)
    <3>1. job' = [job EXCEPT ![w] = [j EXCEPT !.pc = "code"]] BY <2>2, <1>3 DEF Feed, GoesOn, Moves
    <3> QED BY <3>1, <2>2
  <2>3. CASE abort \/ (~Ready(j.i) /\ eof)
    <3>1. job' = [job EXCEPT ![w] = [j EXCEPT !.pc = "publish"]] BY <2>3, <1>3 DEF Feed, GoesOn, Moves
    <3> QED BY <3>1, <2>3
  <2> QED BY <2>1, <2>2, <2>3
<1>5. PICK n : n = [j EXCEPT !.pc = p] OBVIOUS
<1>6. /\ JobIs(n) /\ n.pc = p /\ n.k = j.k /\ n.g = j.g /\ n.i = j.i /\ n.end = j.end /\ n.buf = j.buf
  BY <1>5, <1>0, <1>3 DEF JobIs, JobPcs, Active
<1>7. JobOf(j) /\ IsGop(j.g) /\ j.i \in Nat BY <1>0, <1>1, <1>3 DEF JobInv, QueueInv, JobIs
<1>8. /\ FedIs(j) /\ j.i < j.end /\ Runs(j) /\ Reached(j) BY <1>7, <1>1, <1>3 DEF JobOf
<1>9. FedIs(n) /\ Runs(n) /\ Reached(n) BY <1>8, <1>6 DEF FedIs, Runs, Reached
<1>10. /\ j.g \in Nat /\ Begin(j.g) \in Nat /\ Finish(j.g) \in Nat /\ j.end \in Nat /\ Len(j.buf) \in Nat
       /\ j.i >= Begin(j.g) /\ nGops \in Nat /\ nRead \in Nat /\ cfg.n \in Nat
  <2>1. /\ j.g \in Nat /\ Begin(j.g) \in Nat /\ Finish(j.g) \in Nat BY <1>0, <1>7, GopIs
  <2>2. j.end \in Nat /\ Len(j.buf) \in Nat BY <1>0, <1>3 DEF JobIs
  <2>3. j.i = Begin(j.g) + Len(j.buf) BY <1>8 DEF FedIs
  <2>4. nGops \in Nat /\ nRead \in Nat /\ cfg.n \in Nat BY <1>0, SettingIs DEF TypeInv
  <2> QED BY <2>1, <2>2, <2>3, <2>4
\* No frame is beyond the GOP's end.
<1>11. j.i < Finish(j.g)
  <2>1. CASE j.g < nGops /\ j.end = End(j.g)
    <3>1. j.g \in 0 .. nGops - 1 BY <2>1, <1>10
    <3>2. End(j.g) <= Finish(j.g) BY <3>1, <1>0, TableIs
    <3> QED BY <3>2, <2>1, <1>8, <1>10, <1>7
  <2>2. CASE j.end = Finish(j.g) BY <2>2, <1>8
  <2> QED BY <2>1, <2>2, <1>8 DEF Runs
\* A frame that was read is there.
<1>12. Got(j.g, j.i) => j.i \in store
  <2>1. Wanted(j.g, j.i) BY <1>1, <1>3, <1>7 DEF Wanted
  <2>2. j.i \in Begin(j.g) .. Finish(j.g) - 1 BY <1>7, <1>10, <1>11
  <2> QED BY <2>1, <2>2, <1>7, <1>10, <1>0 DEF HeldInv
<1>13. p = "code" => j.i \in store
  <2> SUFFICES ASSUME p = "code" PROVE j.i \in store OBVIOUS
  <2>1. Ready(j.i) BY <1>4
  <2>2. CASE Seek BY <2>1, <2>2 DEF Ready
  <2>3. CASE ~Seek BY <2>1, <2>3, <1>12 DEF Ready, Got
  <2> QED BY <2>2, <2>3
\* At the end of the input nothing is missing but what the GOP does not have.
<1>14. p = "publish" => abort \/ (j.g < nGops /\ j.i = End(j.g))
  <2> SUFFICES ASSUME p = "publish", ~abort PROVE j.g < nGops /\ j.i = End(j.g) OBVIOUS
  <2>1. ~Ready(j.i) /\ eof /\ reader.pc = "gone" /\ final BY <1>0, <1>4 DEF ReaderInv
  <2>2. CASE j.g < nGops /\ j.end = End(j.g)
    <3>1. j.g \in 0 .. nGops - 1 BY <2>2, <1>10
    <3>2. End(j.g) <= nRead /\ (Seek => rd[j.g] = End(j.g)) BY <3>1, <2>1, <1>0, EofIs
    <3>3. Got(j.g, j.i) BY <3>2, <2>2, <1>8, <1>7, <1>10 DEF Got
    <3>4. j.i \in store /\ j.i < nRead BY <3>3, <3>2, <2>2, <1>12, <1>8, <1>7, <1>10
    <3> QED BY <3>4, <2>1 DEF Ready
  <2>3. CASE Pipe /\ j.end = Finish(j.g)
    <3>1. ~Seek BY <2>3 DEF Pipe, Seek
    <3>2. nRead = cfg.n BY <3>1, <2>1, <1>0 DEF ReaderInv, InOrderIs
    <3>3. nRead <= j.i /\ Begin(j.g) < nRead /\ j.i <= nRead
      BY <3>1, <2>1, <1>7, <1>8, <1>10 DEF Ready, Reached
    <3>4. bounds[nGops + 1] = cfg.n BY <2>1, <1>0 DEF BoundsInv
    <3>5. PICK K \in Nat \ {0} : K = cfg.keyint BY <1>0, SettingIs
    <3>6. Begin(j.g) = j.g * K /\ cfg.n <= nGops * K BY <2>3, <3>4, <3>5, <1>0 DEF Begin, BoundsInv, PipeTable
    <3>7. j.g < nGops
      <4> SUFFICES ASSUME nGops <= j.g PROVE FALSE BY <1>10
      <4>1. nGops * K <= j.g * K
        <5>1. CASE nGops = j.g BY <5>1, <1>10, Times
        <5>2. CASE nGops < j.g
          <6>1. (nGops + 1) * K <= j.g * K /\ (nGops + 1) * K = nGops * K + K BY <5>2, <1>10, <3>5, Blocks
          <6>2. nGops * K \in Nat /\ j.g * K \in Nat BY <1>10, <3>5, Times
          <6> QED BY <6>1, <6>2, <3>5
        <5> QED BY <5>1, <5>2, <1>10
      <4>2. nGops * K \in Nat /\ j.g * K \in Nat BY <1>10, <3>5, Times
      <4> QED BY <4>1, <4>2, <3>2, <3>3, <3>6, <1>10
    <3>8. j.g \in 0 .. nGops - 1 BY <3>7, <1>10
    <3>9. j.g = nGops - 1
      <4> SUFFICES ASSUME j.g # nGops - 1 PROVE FALSE OBVIOUS
      <4>1. End(j.g) = Finish(j.g) /\ End(j.g) <= cfg.n BY <3>8, <1>0, TableIs
      <4> QED BY <4>1, <3>2, <3>3, <1>11, <1>10, <1>7
    <3>10. End(j.g) = cfg.n BY <3>8, <3>9, <3>4, <1>0, TableIs
    <3> QED BY <3>7, <3>10, <3>2, <3>3, <1>10, <1>7
  <2> QED BY <2>2, <2>3, <1>8 DEF Runs
<1>15. JobOf(n) BY <1>6, <1>8, <1>9, <1>13, <1>14 DEF JobOf
<1>16. n.pc \in Active BY <1>6 DEF Active
<1>17. n.k = job[w].k /\ n.g = job[w].g /\ n.i = job[w].i /\ job' = [job EXCEPT ![w] = n]
  BY <1>3, <1>4, <1>5, <1>6
<1> QED BY <1>1, <1>2, <1>6, <1>15, <1>16, <1>17, Turning

\* The frame a worker is at is one of its GOP.
LEMMA FrameIs ==
  ASSUME IInv, NEW v \in Workers, job[v].pc \in {"carry", "import", "feed", "code"}
  PROVE  /\ IsGop(job[v].g) /\ job[v].g \in Nat
         /\ job[v].i \in Begin(job[v].g) .. Finish(job[v].g) - 1
<1>0. TypeInv /\ BoundsInv /\ JobIs(job[v]) /\ job[v].pc \in Active
  BY DEF IInv, TypeInv, JobsAre, Active
<1>1. PICK j : j = job[v] OBVIOUS
<1>2. IsGop(j.g) /\ JobOf(j) /\ j.i \in Nat /\ j.end \in Nat /\ Len(j.buf) \in Nat
  BY <1>0, <1>1 DEF IInv, QueueInv, JobInv, JobIs
<1>3. FedIs(j) /\ j.i < j.end /\ Runs(j) BY <1>1, <1>2 DEF JobOf
<1>4. j.g \in Nat /\ Begin(j.g) \in Nat /\ Finish(j.g) \in Nat /\ nGops \in Nat
  BY <1>0, <1>2, GopIs, SettingIs
<1>5. j.end <= Finish(j.g)
  <2>1. CASE j.g < nGops /\ j.end = End(j.g)
    <3>1. j.g \in 0 .. nGops - 1 BY <2>1, <1>4
    <3> QED BY <3>1, <2>1, <1>0, TableIs
  <2>2. CASE j.end = Finish(j.g) BY <2>2, <1>4
  <2> QED BY <2>1, <2>2, <1>3 DEF Runs
<1>6. Begin(j.g) <= j.i BY <1>2, <1>3, <1>4 DEF FedIs
<1>7. j.i \in Begin(j.g) .. Finish(j.g) - 1 BY <1>2, <1>3, <1>4, <1>5, <1>6
<1> QED BY <1>1, <1>2, <1>4, <1>7

\* A GOP that a pipe's worker began before its end was known ends where the table says.
LEMMA EarlyEnd ==
  ASSUME TypeInv, BoundsInv, Pipe, ~abort, NEW g \in Nat, Finish(g) <= nRead
  PROVE  g < nGops /\ End(g) = Finish(g)
<1>1. PICK K \in Nat \ {0} : K = cfg.keyint BY SettingIs
<1>2. /\ nGops \in Nat /\ nRead \in Nat /\ cfg.n \in Nat /\ nRead <= cfg.n
      /\ bounds \in Seq(Nat) /\ Len(bounds) = nGops + 1
  <2>1. bounds \in Seq(Nat) /\ Len(bounds) > 0 /\ nRead \in Nat /\ nRead <= cfg.n
    BY DEF TypeInv, BoundsInv
  <2>2. nGops \in Nat /\ cfg.n \in Nat BY SettingIs
  <2>3. Len(bounds) = nGops + 1 BY <2>1 DEF nGops
  <2> QED BY <2>1, <2>2, <2>3
<1>3. bounds[nGops + 1] \in Nat BY <1>2, ElementOfSeq
<1>4. PICK a, b \in Nat : a = nGops * K /\ b = (g + 1) * K /\ (nGops + 1) * K = a + K
  <2>1. nGops * K \in Nat /\ (nGops + 1) * K = nGops * K + K BY <1>2, Blocks, Zenon
  <2>2. (g + 1) * K \in Nat
    <3>1. g + 1 \in Nat OBVIOUS
    <3> QED BY <3>1, Blocks, Zenon
  <2> QED BY <2>1, <2>2
<1>5. b <= nRead /\ Finish(g) = b BY <1>1, <1>4 DEF Finish
<1>6. bounds[nGops + 1] <= a /\ (~final => bounds[nGops + 1] = a /\ nRead < a + K)
  BY <1>1, <1>4 DEF BoundsInv, PipeTable
<1>7. final => bounds[nGops + 1] = cfg.n BY DEF BoundsInv
<1>8. g < nGops
  <2> SUFFICES ASSUME nGops <= g PROVE FALSE BY <1>2
  <2>1. (nGops + 1) * K <= (g + 1) * K
    <3>1. CASE nGops = g BY <3>1, <1>4
    <3>2. CASE nGops < g
      <4>1. nGops + 1 \in Nat /\ g + 1 \in Nat /\ nGops + 1 < g + 1 BY <3>2, <1>2
      <4>2. (nGops + 1 + 1) * K <= (g + 1) * K BY <4>1, Blocks, Zenon
      <4>3. (nGops + 1 + 1) * K = (nGops + 1) * K + K BY <4>1, Blocks, Zenon
      <4> QED BY <4>2, <4>3, <1>4
    <3> QED BY <3>1, <3>2, <1>2
  <2>2. a + K <= b BY <2>1, <1>4
  <2>3. CASE final BY <2>2, <2>3, <1>2, <1>3, <1>5, <1>6, <1>7
  <2>4. CASE ~final BY <2>2, <2>4, <1>2, <1>5, <1>6
  <2> QED BY <2>3, <2>4
<1>9. g \in 0 .. nGops - 1 BY <1>2, <1>8
<1>10. End(g) \in Nat /\ End(g) <= Finish(g) /\ (g # nGops - 1 => End(g) = Finish(g))
       /\ (g = nGops - 1 => End(g) = bounds[nGops + 1])
  BY <1>9, TableIs
<1>11. CASE g = nGops - 1
  <2>1. b = a BY <1>11, <1>2, <1>4
  <2>2. End(g) = bounds[nGops + 1] BY <1>10, <1>11
  <2>3. CASE final
    <3>1. End(g) = cfg.n BY <2>2, <2>3, <1>7
    <3>2. End(g) <= b BY <1>10, <1>5
    <3>3. End(g) = b BY <3>1, <3>2, <1>5, <1>2
    <3> QED BY <3>3, <1>5, <1>8
  <2>4. CASE ~final BY <2>1, <2>2, <2>4, <1>5, <1>6, <1>8
  <2> QED BY <2>3, <2>4
<1> QED BY <1>8, <1>10, <1>11

LEMMA StepCode ==
  ASSUME IInv, NEW w \in Workers, Code(w)
  PROVE  IInv'
<1>0. /\ TypeInv /\ BoundsInv /\ ReaderInv /\ QueueInv /\ FrontsInv /\ HeldInv /\ JobInv /\ JobIs(job[w])
  BY DEF IInv, TypeInv, JobsAre
<1>1. job[w].pc = "code" /\ job[w].pc \in Active BY DEF Code, At, Active
<1>2. /\ Aside /\ UNCHANGED <<cfg, bounds, nextGop, done, data>> /\ cfg' = cfg
  BY DEF Code, Aside, table, flags, output
<1>3. PICK j, g, i : j = job[w] /\ g = j.g /\ i = j.i OBVIOUS
<1>4. /\ IsGop(g) /\ g \in Nat /\ i \in Begin(g) .. Finish(g) - 1 /\ i \in store /\ i \in Nat
      /\ JobOf(j) /\ FedIs(j) /\ i < j.end /\ j.end \in Nat /\ Runs(j) /\ Reached(j)
      /\ Begin(g) \in Nat /\ Finish(g) \in Nat /\ j.buf \in Seq(Int)
  <2>1. IsGop(g) /\ g \in Nat /\ i \in Begin(g) .. Finish(g) - 1 BY <1>1, <1>3, FrameIs
  <2>2. JobOf(j) BY <1>0, <1>1, <1>3 DEF JobInv
  <2>3. i \in store /\ FedIs(j) /\ i < j.end /\ Runs(j) /\ Reached(j) BY <1>1, <1>3, <2>2 DEF JobOf
  <2>4. i \in Nat /\ j.end \in Nat /\ j.buf \in Seq(Int) BY <1>0, <1>3 DEF JobIs
  <2>5. Begin(g) \in Nat /\ Finish(g) \in Nat BY <2>1, <1>0, GopIs
  <2> QED BY <2>1, <2>2, <2>3, <2>4, <2>5
<1>5. PICK n : n = [j EXCEPT !.buf = Append(@, i), !.i = @ + 1,
                              !.pc = IF i + 1 = j.end THEN "publish" ELSE "feed"]
  OBVIOUS
<1>6. /\ job' = [job EXCEPT ![w] = n] /\ store' = store \ {i}
      /\ cons' = [cons EXCEPT ![g] = IF Seek THEN i + 1 ELSE @]
  BY <1>3, <1>4, <1>5 DEF Code, Moves
<1>7. /\ JobIs(n) /\ n.pc \in {"publish", "feed"} /\ (n.pc = "publish" => i + 1 = j.end)
      /\ (n.pc = "feed" => i + 1 # j.end)
      /\ n.k = j.k /\ n.g = g /\ n.i = i + 1 /\ n.end = j.end /\ n.buf = Append(j.buf, i)
  <2>1. Append(j.buf, i) \in Seq(Int) BY <1>4
  <2>2. JobIs(j) /\ i = j.i /\ g = j.g /\ i + 1 \in Nat BY <1>0, <1>3, <1>4
  <2>3. /\ n = [pc |-> n.pc, k |-> n.k, g |-> n.g, i |-> n.i, end |-> n.end, pred |-> n.pred,
                ahead |-> n.ahead, buf |-> n.buf]
        /\ n.pc = (IF i + 1 = j.end THEN "publish" ELSE "feed")
        /\ n.k = j.k /\ n.g = g /\ n.i = i + 1 /\ n.end = j.end /\ n.buf = Append(j.buf, i)
    BY <2>2, <1>5 DEF JobIs
  <2>4. n.pc \in {"publish", "feed"} /\ n.pc \in JobPcs BY <2>3 DEF JobPcs, Active
  <2>5. n.k \in Int /\ n.g \in Int /\ n.i \in Nat /\ n.end \in Nat /\ n.buf \in Seq(Int)
    BY <2>1, <2>2, <2>3 DEF JobIs
  <2>6. JobIs(n) BY <2>3, <2>4, <2>5 DEF JobIs
  <2> QED BY <2>3, <2>4, <2>6
<1>8. /\ Workers' = Workers /\ JobsAre' /\ job'[w] = n /\ \A v \in Workers \ {w} : job'[v] = job[v]
  BY <1>0, <1>2, <1>6, <1>7, JobMoves DEF TypeInv
<1>9. nGops' = nGops /\ Pipe' = Pipe /\ Seek' = Seek /\ nGops \in Nat /\ nGops <= cfg.n /\ cfg.n \in Nat
  BY <1>0, <1>2, SettingIs, GopsFit DEF nGops, Pipe, Seek
<1>10. /\ \A h : IsGop(h)' = IsGop(h) /\ Begin(h)' = Begin(h) /\ Finish(h)' = Finish(h)
       /\ \A h : Start(h)' = Start(h) /\ End(h)' = End(h)
  BY <1>2, <1>9 DEF IsGop, Begin, Finish, Start, End
<1>11. \A v \in Workers :
         /\ (job'[v].pc \in Active <=> job[v].pc \in Active)
         /\ job'[v].g = job[v].g /\ job'[v].k = job[v].k
         /\ (job'[v].pc = "unborn" => job[v].pc = "unborn")
  <2>1. n.pc # "unborn" /\ n.pc \in Active BY <1>7 DEF Active
  <2> QED BY <2>1, <1>1, <1>3, <1>7, <1>8
<1>12. QueueInv' /\ \A h : Taken(h)' = Taken(h) BY <1>2, <1>8, <1>11, QueueSame
<1>13. TypeInv'
  <2>1. store' \subseteq Nat BY <1>0, <1>6 DEF TypeInv
  <2>2. cons' \in [0 .. cfg.n -> Nat]
    <3>1. cons \in [0 .. cfg.n -> Nat] BY <1>0 DEF TypeInv
    <3>2. CASE g \in 0 .. cfg.n
      <4>1. cons[g] \in Nat /\ i + 1 \in Nat BY <3>1, <3>2, <1>4
      <4>2. (IF Seek THEN i + 1 ELSE cons[g]) \in Nat BY <4>1
      <4> QED BY <4>2, <3>1, <1>6
    <3>3. CASE g \notin 0 .. cfg.n
      <4>1. cons' = cons BY <3>1, <3>3, <1>6
      <4> QED BY <3>1, <4>1
    <3> QED BY <3>2, <3>3
  <2> QED BY <1>0, <1>2, <1>8, <2>1, <2>2 DEF TypeInv, Aside
<1>14. BoundsInv' /\ ReaderInv'
  <2>1. store' \subseteq store BY <1>6
  <2> QED BY <2>1, <1>2, AsideKeeps
<1>15. DoneInv' /\ OutInv'
  <2>1. job[w].pc # "unborn" BY <1>1
  <2> QED BY <2>1, <1>2, OutputKeeps
<1>16. FrontsInv'
  <2> SUFFICES ASSUME Seek PROVE FrontsAre' BY <1>9 DEF FrontsInv
  <2>1. FrontsAre /\ ~Pipe /\ g \in 0 .. nGops - 1 BY <1>0, <1>4 DEF FrontsInv, Seek, Pipe, IsGop
  <2>2. cons[g] = i /\ i < rd[g] /\ Start(g) <= i
    <3>1. cons[g] = i BY <2>1, <1>1, <1>3 DEF FrontsAre
    <3>2. PICK h \in 0 .. nGops - 1 : cons[h] <= i /\ i < rd[h] BY <2>1, <1>4 DEF FrontsAre
    <3>3. h \in 0 .. cfg.n BY <1>9
    <3>4. /\ IsGop(h) /\ Start(h) \in Nat /\ End(h) \in Nat /\ Start(h) = Begin(h) /\ End(h) <= Finish(h)
      BY <1>0, TableIs
    <3>5. Start(h) <= cons[h] /\ rd[h] <= End(h) BY <2>1, <1>0 DEF FrontsAre, ReaderInv, SeekIs
    <3>6. cons[h] \in Nat /\ rd[h] \in Nat /\ Finish(h) \in Nat BY <3>3, <3>4, <1>0, GopIs DEF TypeInv
    <3>7. i \in Begin(h) .. Finish(h) - 1
      <4>1. PICK a, b, c, d, e, f \in Nat :
              /\ a = Start(h) /\ b = cons[h] /\ c = rd[h] /\ d = End(h) /\ e = Finish(h) /\ f = i
              /\ a <= b /\ b <= f /\ f < c /\ c <= d /\ d <= e
        BY <3>2, <3>4, <3>5, <3>6, <1>4
      <4>2. f \in a .. e - 1 BY <4>1
      <4> QED BY <4>1, <4>2, <3>4
    <3>8. h = g BY <3>4, <3>7, <1>4, <1>0, OneGop
    <3>9. Start(g) <= cons[g] BY <2>1 DEF FrontsAre
    <3> QED BY <3>1, <3>2, <3>8, <3>9
  <2>3. cons'[g] = i + 1 /\ \A h \in 0 .. nGops - 1 : h # g => cons'[h] = cons[h]
    <3>1. cons \in [0 .. cfg.n -> Nat] BY <1>0 DEF TypeInv
    <3>2. g \in 0 .. cfg.n /\ 0 .. nGops - 1 \subseteq 0 .. cfg.n BY <2>1, <1>9
    <3> QED BY <3>1, <3>2, <1>6
  <2>4. ASSUME NEW h \in 0 .. nGops - 1
        PROVE  Start(h) <= cons'[h] /\ cons'[h] <= rd[h] /\ (~Taken(h) => cons'[h] = Start(h))
    <3>1. CASE h = g
      <4>1. Taken(g) BY <1>1, <1>3, ActiveTaken
      <4>2. rd[g] \in Nat /\ Start(g) \in Nat
        <5>1. g \in 0 .. cfg.n BY <2>1, <1>9
        <5> QED BY <5>1, <2>1, <1>0, TableIs DEF TypeInv
      <4> QED BY <3>1, <4>1, <4>2, <2>2, <2>3, <1>4
    <3>2. CASE h # g BY <3>2, <2>1, <2>3 DEF FrontsAre
    <3> QED BY <3>1, <3>2
  <2>5. ASSUME NEW f \in store' PROVE \E h \in 0 .. nGops - 1 : cons'[h] <= f /\ f < rd[h]
    <3>1. f \in store /\ f # i /\ f \in Nat BY <1>6, <1>0 DEF TypeInv
    <3>2. PICK h \in 0 .. nGops - 1 : cons[h] <= f /\ f < rd[h] BY <3>1, <2>1 DEF FrontsAre
    <3>3. CASE h = g
      <4>1. i <= f BY <3>2, <3>3, <2>2
      <4>2. i + 1 <= f BY <4>1, <3>1, <1>4
      <4> QED BY <3>2, <3>3, <4>2, <2>3
    <3>4. CASE h # g BY <3>2, <3>4, <2>3
    <3> QED BY <3>3, <3>4
  <2>6. ASSUME NEW v \in Workers, job'[v].pc \in Active PROVE cons'[job'[v].g] = job'[v].i
    <3>1. CASE v = w BY <3>1, <1>7, <1>8, <2>3
    <3>2. CASE v # w
      <4>1. job'[v] = job[v] /\ job[v].pc \in Active BY <3>2, <2>6, <1>8
      <4>2. job[v].g # g /\ IsGop(job[v].g) BY <4>1, <3>2, <1>0, <1>1, <1>3 DEF QueueInv
      <4>3. job[v].g \in 0 .. nGops - 1 BY <4>2, <2>1 DEF IsGop
      <4>4. cons[job[v].g] = job[v].i BY <4>1, <2>1 DEF FrontsAre
      <4> QED BY <4>1, <4>2, <4>3, <4>4, <2>3
    <3> QED BY <3>1, <3>2
  <2> QED BY <2>4, <2>5, <2>6, <1>2, <1>8, <1>9, <1>10, <1>12 DEF FrontsAre, Aside
<1>17. HeldInv'
  <2> SUFFICES ASSUME NEW h \in Nat, NEW f \in Nat, IsGop(h)', f \in (Begin(h) .. Finish(h) - 1)',
                      Got(h, f)', Wanted(h, f)'
               PROVE  f \in store'
    BY DEF HeldInv
  <2>1. IsGop(h) /\ f \in Begin(h) .. Finish(h) - 1 BY <1>10
  <2>2. Got(h, f) BY <1>2, <1>9 DEF Got, Aside
  <2>3. Wanted(h, f) /\ ~(h = g /\ f = i)
    <3>1. CASE ~Taken(h)
      <4>1. Taken(g) BY <1>1, <1>3, ActiveTaken
      <4> QED BY <3>1, <4>1 DEF Wanted
    <3>2. CASE \E v \in Workers : job'[v].pc \in Active /\ job'[v].g = h /\ job'[v].i <= f
      <4>1. PICK v \in Workers : job'[v].pc \in Active /\ job'[v].g = h /\ job'[v].i <= f BY <3>2
      <4>2. CASE v = w
        <5>1. h = g /\ i + 1 <= f BY <4>1, <4>2, <1>7, <1>8
        <5>2. i <= f /\ f # i BY <5>1, <1>4
        <5> QED BY <5>1, <5>2, <1>1, <1>3 DEF Wanted
      <4>3. CASE v # w
        <5>1. job[v].pc \in Active /\ job[v].g = h /\ job[v].i <= f BY <4>1, <4>3, <1>8
        <5>2. h # g BY <5>1, <4>3, <1>0, <1>1, <1>3 DEF QueueInv
        <5> QED BY <5>1, <5>2 DEF Wanted
      <4> QED BY <4>2, <4>3
    <3> QED BY <3>1, <3>2, <1>8, <1>12 DEF Wanted
  <2>4. f \in store BY <2>1, <2>2, <2>3, <1>0 DEF HeldInv
  <2>5. f # i
    <3> SUFFICES ASSUME f = i PROVE FALSE OBVIOUS
    <3>1. h = g BY <2>1, <1>4, <1>0, OneGop
    <3> QED BY <3>1, <2>3
  <2> QED BY <2>4, <2>5, <1>6
<1>18. JobOf(n)
  <2>1. FedIs(n)
    <3>1. i = Begin(g) + Len(j.buf) /\ \A m \in 1 .. Len(j.buf) : j.buf[m] = Begin(g) + m - 1
      BY <1>3, <1>4 DEF FedIs
    <3>2. Len(j.buf) \in Nat /\ Len(n.buf) = Len(j.buf) + 1 /\ n.buf[Len(j.buf) + 1] = i
          /\ \A m \in 1 .. Len(j.buf) : n.buf[m] = j.buf[m]
      BY <1>4, <1>7, AppendProperties
    <3>3. n.i = Begin(n.g) + Len(n.buf) /\ n.i <= Finish(n.g)
      <4>1. n.i = i + 1 /\ n.g = g BY <1>7
      <4>2. i \in Nat /\ Begin(g) \in Nat /\ Finish(g) \in Nat /\ i < Finish(g) BY <1>4
      <4>3. i + 1 = Begin(g) + (Len(j.buf) + 1) /\ i + 1 <= Finish(g) BY <4>2, <3>1, <3>2
      <4> QED BY <4>1, <4>3, <3>2
    <3>4. ASSUME NEW m \in 1 .. Len(n.buf) PROVE n.buf[m] = Begin(n.g) + m - 1
      <4>1. CASE m \in 1 .. Len(j.buf) BY <4>1, <3>1, <3>2, <1>7
      <4>2. CASE m = Len(j.buf) + 1
        <5>1. i = Begin(g) + m - 1 BY <4>2, <3>1, <3>2, <1>4
        <5> QED BY <5>1, <4>2, <3>2, <1>7
      <4> QED BY <4>1, <4>2, <3>2
    <3> QED BY <3>3, <3>4 DEF FedIs
  <2>2. Runs(n) BY <1>3, <1>4, <1>7 DEF Runs
  <2>3. ~Seek => i < nRead
    <3> SUFFICES ASSUME ~Seek PROVE i < nRead OBVIOUS
    <3>1. i \in 0 .. nRead - 1 BY <1>0, <1>4 DEF ReaderInv, InOrderIs
    <3>2. nRead \in Nat BY <1>0 DEF TypeInv
    <3> QED BY <3>1, <3>2
  <2>4. Reached(n)
    <3>1. nRead \in Nat BY <1>0 DEF TypeInv
    <3> QED BY <3>1, <2>3, <1>3, <1>4, <1>7 DEF Reached
  <2>5. n.pc = "feed" => n.i < n.end BY <1>4, <1>7
  <2>6. n.pc = "publish" => abort \/ (g < nGops /\ n.i = End(g))
    <3> SUFFICES ASSUME n.pc = "publish", ~abort PROVE g < nGops /\ n.i = End(g) OBVIOUS
    <3>1. n.i = j.end BY <1>7
    <3>2. CASE g < nGops /\ j.end = End(g) BY <3>1, <3>2
    <3>3. CASE Pipe /\ j.end = Finish(g)
      <4>1. i < nRead BY <2>3, <3>3 DEF Seek, Pipe
      <4>2. nRead \in Nat BY <1>0 DEF TypeInv
      <4>3. Finish(g) <= nRead BY <4>1, <4>2, <3>1, <3>3, <1>4, <1>7
      <4>4. g < nGops /\ End(g) = Finish(g) BY <4>3, <3>3, <1>0, <1>4, EarlyEnd
      <4> QED BY <4>4, <3>1, <3>3
    <3> QED BY <3>2, <3>3, <1>3, <1>4 DEF Runs
  <2> QED BY <2>1, <2>2, <2>4, <2>5, <2>6, <1>7 DEF JobOf
<1>19. JobInv'
  <2>1. ASSUME NEW m, JobOf(m), m.pc = "code" => m.i # i PROVE JobOf(m)'
    <3>1. FedIs(m)' = FedIs(m) /\ Runs(m)' = Runs(m) /\ Reached(m)' = Reached(m)
      BY <1>2, <1>9, <1>10 DEF FedIs, Runs, Reached, Aside
    <3> QED BY <2>1, <3>1, <1>2, <1>6, <1>9, <1>10 DEF JobOf, Aside
  <2>2. ASSUME NEW v \in Workers, job'[v].pc \in Active PROVE JobOf(job[v])'
    <3>1. PICK m : m = job'[v] OBVIOUS
    <3>2. JobOf(m) /\ (m.pc = "code" => m.i # i)
      <4>1. CASE v = w BY <4>1, <3>1, <1>7, <1>8, <1>18
      <4>2. CASE v # w
        <5>1. m = job[v] /\ m.pc \in Active /\ JobOf(m) BY <4>2, <3>1, <2>2, <1>0, <1>8 DEF JobInv
        <5>2. ASSUME m.pc = "code", m.i = i PROVE FALSE
          <6>1. IsGop(m.g) /\ i \in Begin(m.g) .. Finish(m.g) - 1 BY <5>1, <5>2, FrameIs
          <6>2. m.g = g BY <6>1, <1>0, <1>4, OneGop
          <6> QED BY <6>2, <5>1, <4>2, <1>0, <1>1, <1>3 DEF QueueInv
        <5> QED BY <5>1, <5>2
      <4> QED BY <4>1, <4>2
    <3>3. JobOf(m)' BY <3>2, <2>1
    <3> QED BY <3>1, <3>3, Zenon DEF JobOf, FedIs, Runs, Reached
  <2> QED BY <2>2, <1>8 DEF JobInv
<1> QED BY <1>12, <1>13, <1>14, <1>15, <1>16, <1>17, <1>19 DEF IInv

\* A worker without a GOP, or that gives one up: what it had is done, or was cut
\* short by an abort.
LEMMA Dropping ==
  ASSUME IInv, NEW w \in Workers, NEW n, Aside, UNCHANGED <<store, cons, nextGop>>, cfg' = cfg,
         job[w].pc \notin {"unborn", "pull"}, JobIs(n), job' = [job EXCEPT ![w] = n],
         n.pc \notin Active, n.pc # "unborn", n.g = job[w].g,
         done' = done \/ (job[w].pc \in Active /\ done' = done \cup {job[w].g}),
         DoneInv', OutInv', data' \in [0 .. cfg.n -> Seq(Int)]
  PROVE  IInv'
<1>0. /\ TypeInv /\ BoundsInv /\ ReaderInv /\ QueueInv /\ FrontsInv /\ HeldInv /\ JobInv /\ cfg' = cfg
  BY DEF IInv, Aside
<1>1. /\ Workers' = Workers /\ JobsAre' /\ job'[w] = n /\ \A v \in Workers \ {w} : job'[v] = job[v]
  BY <1>0, JobMoves DEF TypeInv
<1>2. nGops' = nGops /\ Pipe' = Pipe /\ Seek' = Seek BY DEF Aside, nGops, Pipe, Seek
<1>3. /\ \A g : IsGop(g)' = IsGop(g) /\ Begin(g)' = Begin(g) /\ Finish(g)' = Finish(g)
      /\ \A g : Start(g)' = Start(g) /\ End(g)' = End(g)
  BY <1>0, <1>2 DEF IsGop, Begin, Finish, Start, End, Aside
<1>4. \A g : Taken(g)' = Taken(g)
  <2>1. \A g : g \in Workers /\ job'[g].g # None <=> g \in Workers /\ job[g].g # None BY <1>1
  <2> QED BY <2>1, <1>0, <1>1 DEF Taken
<1>5. \A v \in Workers : job'[v].pc \in Active => v # w /\ job'[v] = job[v] BY <1>1
<1>6. TypeInv'
  <2>1. done' \subseteq Int
    <3>1. job[w].g \in Int BY <1>0 DEF TypeInv, JobsAre, JobIs
    <3> QED BY <3>1, <1>0 DEF TypeInv
  <2> QED BY <1>0, <1>1, <2>1 DEF TypeInv, Aside
<1>7. BoundsInv' /\ ReaderInv' BY AsideKeeps
<1>8. QueueInv'
  <2>1. ASSUME NEW v \in Workers, job'[v].pc \in Active
        PROVE  IsGop(job[v].g)' /\ job'[v].g \notin done' /\ PullIs(job[v], v)'
    <3>1. v # w /\ job'[v] = job[v] BY <2>1, <1>5
    <3>2. IsGop(job[v].g) /\ job[v].g \notin done /\ PullIs(job[v], v) BY <2>1, <3>1, <1>0 DEF QueueInv
    <3>3. PullIs(job[v], v)' BY <3>1, <3>2, <1>0 DEF PullIs
    <3>4. IsGop(job[v].g)' BY <3>1, <3>2, <1>2 DEF IsGop
    <3>5. job[v].g # job[w].g \/ done' = done BY <2>1, <3>1, <1>0 DEF QueueInv
    <3> QED BY <3>1, <3>2, <3>3, <3>4, <3>5
  <2>2. \A v \in Workers, u \in Workers :
          job'[v].pc \in Active /\ job'[u].pc \in Active /\ u # v => job'[u].g # job'[v].g
    BY <1>0, <1>5 DEF QueueInv
  <2>3. \A g \in done' : Taken(g)'
    <3>1. \A g \in done : Taken(g) BY <1>0 DEF QueueInv
    <3>2. job[w].pc \in Active => Taken(job[w].g) BY ActiveTaken
    <3> QED BY <3>1, <3>2, <1>4
  <2>4. \A v \in Workers : job'[v].pc = "unborn" => job'[v].g = None BY <1>0, <1>1 DEF QueueInv
  <2> QED BY <1>1, <2>1, <2>2, <2>3, <2>4 DEF QueueInv
<1>9. FrontsInv'
  <2> SUFFICES ASSUME Seek PROVE FrontsAre' BY <1>2 DEF FrontsInv
  <2>1. FrontsAre BY <1>0 DEF FrontsInv
  <2>2. \A v \in Workers : job'[v].pc \in Active => cons'[job'[v].g] = job'[v].i
    BY <2>1, <1>5 DEF FrontsAre
  <2>3. \A g \in 0 .. nGops' - 1 :
          Start(g)' <= cons'[g] /\ cons'[g] <= rd'[g] /\ (~Taken(g)' => cons'[g] = Start(g)')
    BY <2>1, <1>2, <1>3, <1>4 DEF FrontsAre, Aside
  <2>4. \A f \in store' : \E g \in 0 .. nGops' - 1 : cons'[g] <= f /\ f < rd'[g]
    BY <2>1, <1>2 DEF FrontsAre, Aside
  <2> QED BY <2>2, <2>3, <2>4, <1>1 DEF FrontsAre
<1>10. HeldInv'
  <2>1. \A g, f : Wanted(g, f)' => Wanted(g, f)
    BY <1>1, <1>4, <1>5 DEF Wanted
  <2>2. \A g, f : Got(g, f)' = Got(g, f) BY <1>2 DEF Got, Aside
  <2> QED BY <2>1, <2>2, <1>0, <1>3 DEF HeldInv
<1>11. JobInv'
  <2>1. \A j : JobOf(j) => JobOf(j)'
    <3> SUFFICES ASSUME NEW j, JobOf(j) PROVE JobOf(j)' OBVIOUS
    <3>1. FedIs(j)' = FedIs(j) /\ Runs(j)' = Runs(j) /\ Reached(j)' = Reached(j)
      BY <1>2, <1>3 DEF FedIs, Runs, Reached, Aside
    <3> QED BY <3>1, <1>2, <1>3 DEF JobOf, Aside
  <2>2. ASSUME NEW v \in Workers, job'[v].pc \in Active PROVE JobOf(job[v])'
    <3>1. PICK j : j = job'[v] OBVIOUS
    <3>2. JobOf(j) BY <3>1, <2>2, <1>0, <1>5 DEF JobInv
    <3>3. JobOf(j)' BY <3>2, <2>1
    <3> QED BY <3>1, <3>3, Zenon DEF JobOf, FedIs, Runs, Reached
  <2> QED BY <2>2, <1>1 DEF JobInv
<1> QED BY <1>6, <1>7, <1>8, <1>9, <1>10, <1>11 DEF IInv

LEMMA StepPublish ==
  ASSUME IInv, NEW w \in Workers, Publish(w)
  PROVE  IInv'
<1>0. /\ TypeInv /\ BoundsInv /\ QueueInv /\ JobInv /\ DoneInv /\ OutInv /\ JobIs(job[w])
  BY DEF IInv, TypeInv, JobsAre
<1>1. /\ job[w].pc = "publish" /\ job[w].pc \in Active BY DEF Publish, At, Active
<1>2. PICK j, g : j = job[w] /\ g = j.g OBVIOUS
<1>3. /\ Aside /\ UNCHANGED <<store, cons, nextGop>> /\ cfg' = cfg
      /\ done' = done \cup {g} /\ data' = [data EXCEPT ![g] = j.buf]
  BY <1>2 DEF Publish, Aside, table, flags
<1>4. PICK n : n = [j EXCEPT !.pc = "pull", !.buf = <<>>] OBVIOUS
<1>5. job' = [job EXCEPT ![w] = n] BY <1>2, <1>4 DEF Publish, Moves
<1>6. JobIs(n) /\ n.pc = "pull" /\ n.g = g
  <2>1. <<>> \in Seq(Int) OBVIOUS
  <2> QED BY <2>1, <1>0, <1>2, <1>4 DEF JobIs, JobPcs
<1>7. /\ JobOf(j) /\ FedIs(j) /\ IsGop(g) /\ g \in Nat /\ g \notin done /\ j.buf \in Seq(Int)
      /\ j.i \in Nat /\ nGops \in Nat /\ nGops <= cfg.n /\ cfg.n \in Nat
  <2>1. JobOf(j) /\ IsGop(g) /\ g \notin done BY <1>0, <1>1, <1>2 DEF JobInv, QueueInv
  <2>2. FedIs(j) BY <2>1, <1>1, <1>2 DEF JobOf
  <2>3. g \in Nat /\ nGops \in Nat /\ nGops <= cfg.n /\ cfg.n \in Nat
    BY <2>1, <1>0, GopIs, SettingIs, GopsFit
  <2>4. j.buf \in Seq(Int) /\ j.i \in Nat BY <1>0, <1>2 DEF JobIs
  <2> QED BY <2>1, <2>2, <2>3, <2>4
<1>8. data' \in [0 .. cfg.n -> Seq(Int)]
  <2>1. data \in [0 .. cfg.n -> Seq(Int)] BY <1>0 DEF TypeInv
  <2> QED BY <2>1, <1>3, <1>7
<1>9. nGops' = nGops /\ \A h : Start(h)' = Start(h) /\ End(h)' = End(h)
  BY <1>3 DEF Aside, nGops, Start, End
<1>10. ~abort => g \in 0 .. nGops - 1 /\ Whole(j.buf, g) /\ data'[g] = j.buf
  <2> SUFFICES ASSUME ~abort PROVE g \in 0 .. nGops - 1 /\ Whole(j.buf, g) /\ data'[g] = j.buf OBVIOUS
  <2>1. g < nGops /\ j.i = End(g) BY <1>1, <1>2, <1>7 DEF JobOf
  <2>2. g \in 0 .. nGops - 1 /\ g \in 0 .. cfg.n BY <2>1, <1>7
  <2>3. Start(g) = Begin(g) /\ Start(g) \in Nat /\ End(g) \in Nat BY <2>2, <1>0, TableIs
  <2>4. j.i = Begin(g) + Len(j.buf) /\ \A m \in 1 .. Len(j.buf) : j.buf[m] = Begin(g) + m - 1
    BY <1>2, <1>7 DEF FedIs
  <2>5. Len(j.buf) \in Nat BY <1>7
  <2>6. Len(j.buf) = End(g) - Start(g) BY <2>1, <2>3, <2>4, <2>5
  <2>7. data'[g] = j.buf BY <2>2, <1>0, <1>3 DEF TypeInv
  <2> QED BY <2>2, <2>3, <2>4, <2>6, <2>7 DEF Whole
<1>11. \A h : h # g => data'[h] = data[h] BY <1>0, <1>3 DEF TypeInv
<1>12. DoneInv'
  <2> SUFFICES ASSUME ~abort, NEW h \in done'
               PROVE  h \in 0 .. nGops - 1 /\ (h >= emitted => Whole(data'[h], h))
    BY <1>9, <1>3 DEF DoneInv, Aside, Whole
  <2>1. CASE h = g BY <2>1, <1>10
  <2>2. CASE h # g BY <2>2, <1>0, <1>3, <1>11 DEF DoneInv
  <2> QED BY <2>1, <2>2
<1>13. OutInv'
  <2>1. main = "write" => emitted # g /\ emitted \in done BY <1>0, <1>7 DEF OutInv
  <2>2. main' = "write" => emitted' < nGops' /\ emitted' \in done' /\ Whole(data[emitted], emitted)'
    <3>1. main = "write" => emitted < nGops /\ Whole(data[emitted], emitted) BY <1>0 DEF OutInv
    <3>2. main = "write" => data'[emitted] = data[emitted] BY <2>1, <1>11
    <3> QED BY <3>1, <3>2, <2>1, <1>3, <1>9 DEF Aside, Whole
  <2>3. \E e \in {emitted', emitted' - 1} : OutOf(e)'
    <3>1. \A e : OutOf(e)' = OutOf(e) BY <1>3, <1>9 DEF Aside, OutOf
    <3> QED BY <3>1, <1>0, <1>3 DEF OutInv, Aside
  <2>4. \A m \in 1 .. Len(out') : out'[m] = m - 1 BY <1>0, <1>3 DEF OutInv, Aside
  <2>5. main' \notin {"wait", "plan"} BY <1>0, <1>1, <1>3 DEF OutInv, Aside, Active
  <2> QED BY <2>2, <2>3, <2>4, <2>5 DEF OutInv
<1>14. n.pc \notin Active /\ n.pc # "unborn" /\ job[w].pc \notin {"unborn", "pull"}
  BY <1>1, <1>6 DEF Active
<1> QED BY <1>1, <1>2, <1>3, <1>5, <1>6, <1>8, <1>12, <1>13, <1>14, Dropping

LEMMA StepLeave ==
  ASSUME IInv, NEW w \in Workers, Leave(w)
  PROVE  IInv'
<1>0. TypeInv /\ JobIs(job[w]) BY DEF IInv, TypeInv, JobsAre
<1>1. /\ Aside /\ UNCHANGED <<store, cons, nextGop, done, data>> /\ cfg' = cfg
      /\ job[w].pc = "leaving"
  BY DEF Leave, At, Aside, table, flags, output
<1>2. PICK n : n = [job[w] EXCEPT !.pc = "gone"] OBVIOUS
<1>3. job' = [job EXCEPT ![w] = n] BY <1>2 DEF Leave, Moves
<1>4. JobIs(n) /\ n.pc = "gone" /\ n.g = job[w].g BY <1>0, <1>2 DEF JobIs, JobPcs
<1>5. DoneInv' /\ OutInv' BY <1>1, OutputKeeps
<1>6. data' \in [0 .. cfg.n -> Seq(Int)] BY <1>0, <1>1 DEF TypeInv
<1>7. n.pc \notin Active /\ n.pc # "unborn" BY <1>4 DEF Active
<1> QED BY <1>1, <1>3, <1>4, <1>5, <1>6, <1>7, Dropping

-----------------------------------------------------------------------------
(* The main thread. *)

MainAside == UNCHANGED <<cfg, reader, bounds, nRead, store, rd, cons, eof, final, nextGop, done>>

\* A step of the main thread moves no frame and no GOP: an abort, or the start of
\* the workers, leaves what is known of them.
LEMMA MainKeeps ==
  ASSUME IInv, MainAside, abort => abort', streamStart' => Pipe,
         (JobsAre)', \A w \in Workers : /\ job'[w].g = job[w].g
                                        /\ (job'[w].pc \in Active => job'[w] = job[w])
                                        /\ (job'[w].pc = "unborn" => job[w].pc = "unborn")
  PROVE  BoundsInv' /\ ReaderInv' /\ QueueInv' /\ FrontsInv' /\ HeldInv' /\ JobInv'
<1>0. /\ TypeInv /\ BoundsInv /\ ReaderInv /\ QueueInv /\ FrontsInv /\ HeldInv /\ JobInv /\ cfg' = cfg
  BY DEF IInv, MainAside
<1>1. nGops' = nGops /\ Pipe' = Pipe /\ Seek' = Seek /\ Workers' = Workers
  BY DEF MainAside, nGops, Pipe, Seek, Workers
<1>2. /\ \A g : IsGop(g)' = IsGop(g) /\ Begin(g)' = Begin(g) /\ Finish(g)' = Finish(g)
      /\ \A g : Start(g)' = Start(g) /\ End(g)' = End(g)
  BY <1>0, <1>1 DEF IsGop, Begin, Finish, Start, End, MainAside
<1>3. \A g : Taken(g)' = Taken(g)
  <2>1. \A g : g \in Workers /\ job'[g].g # None <=> g \in Workers /\ job[g].g # None BY <1>1
  <2>2. nextGop' = nextGop BY DEF MainAside
  <2> QED BY <2>1, <2>2, <1>0, <1>1 DEF Taken
<1>4. BoundsInv'
  <2>1. PipeTable => PipeTable' BY <1>1 DEF PipeTable, MainAside
  <2> QED BY <2>1, <1>0, <1>1 DEF BoundsInv, MainAside
<1>5. ReaderInv'
  <2>1. InOrderIs => InOrderIs' BY DEF InOrderIs, MainAside
  <2>2. ToRead' = ToRead BY <1>1, <1>2 DEF ToRead, MainAside
  <2>3. SeekIs => SeekIs' BY <1>1, <1>2, <2>2 DEF SeekIs, MainAside
  <2> QED BY <2>1, <2>3, <1>0, <1>1 DEF ReaderInv, MainAside
<1>6. QueueInv'
  <2>1. ASSUME NEW w \in Workers, job'[w].pc \in Active
        PROVE  IsGop(job[w].g)' /\ job'[w].g \notin done' /\ PullIs(job[w], w)'
    <3>1. job'[w] = job[w] BY <2>1
    <3>2. IsGop(job[w].g) /\ job[w].g \notin done /\ PullIs(job[w], w) BY <2>1, <3>1, <1>0 DEF QueueInv
    <3>3. PullIs(job[w], w)' BY <3>1, <3>2, <1>0 DEF PullIs, MainAside
    <3>4. IsGop(job[w].g)' BY <3>1, <3>2, <1>1 DEF IsGop
    <3> QED BY <3>1, <3>2, <3>3, <3>4 DEF MainAside
  <2>2. \A w \in Workers, v \in Workers :
          job'[w].pc \in Active /\ job'[v].pc \in Active /\ v # w => job'[v].g # job'[w].g
    BY <1>0 DEF QueueInv
  <2>3. \A g \in done' : Taken(g)' BY <1>0, <1>3 DEF QueueInv, MainAside
  <2>4. \A w \in Workers : job'[w].pc = "unborn" => job'[w].g = None BY <1>0 DEF QueueInv
  <2> QED BY <1>1, <2>1, <2>2, <2>3, <2>4 DEF QueueInv
<1>7. FrontsInv'
  <2> SUFFICES ASSUME Seek PROVE FrontsAre' BY <1>1 DEF FrontsInv
  <2>1. FrontsAre BY <1>0 DEF FrontsInv
  <2>2. \A w \in Workers : job'[w].pc \in Active => cons'[job'[w].g] = job'[w].i
    BY <2>1 DEF FrontsAre, MainAside
  <2>3. \A g \in 0 .. nGops' - 1 :
          Start(g)' <= cons'[g] /\ cons'[g] <= rd'[g] /\ (~Taken(g)' => cons'[g] = Start(g)')
    BY <2>1, <1>1, <1>2, <1>3 DEF FrontsAre, MainAside
  <2>4. \A f \in store' : \E g \in 0 .. nGops' - 1 : cons'[g] <= f /\ f < rd'[g]
    BY <2>1, <1>1 DEF FrontsAre, MainAside
  <2> QED BY <2>2, <2>3, <2>4, <1>1 DEF FrontsAre
<1>8. HeldInv'
  <2>1. \A g, f : Wanted(g, f)' => Wanted(g, f) BY <1>1, <1>3 DEF Wanted
  <2>2. \A g, f : Got(g, f)' = Got(g, f) BY <1>1 DEF Got, MainAside
  <2> QED BY <2>1, <2>2, <1>0, <1>2 DEF HeldInv, MainAside
<1>9. JobInv'
  <2>1. \A j : JobOf(j) => JobOf(j)'
    <3> SUFFICES ASSUME NEW j, JobOf(j) PROVE JobOf(j)' OBVIOUS
    <3>1. FedIs(j)' = FedIs(j) /\ Runs(j)' = Runs(j) /\ Reached(j)' = Reached(j)
      BY <1>1, <1>2 DEF FedIs, Runs, Reached, MainAside
    <3> QED BY <3>1, <1>1, <1>2 DEF JobOf, MainAside
  <2>2. ASSUME NEW w \in Workers, job'[w].pc \in Active PROVE JobOf(job[w])'
    <3>1. PICK j : j = job'[w] OBVIOUS
    <3>2. JobOf(j) BY <3>1, <2>2, <1>0 DEF JobInv
    <3>3. JobOf(j)' BY <3>2, <2>1
    <3> QED BY <3>1, <3>3, Zenon DEF JobOf, FedIs, Runs, Reached
  <2> QED BY <2>2, <1>1 DEF JobInv
<1> QED BY <1>4, <1>5, <1>6, <1>7, <1>8, <1>9

\* The same, where the workers stay as they are.
LEMMA MainOnly ==
  ASSUME IInv, MainAside, abort => abort', streamStart' => Pipe, job' = job
  PROVE  BoundsInv' /\ ReaderInv' /\ QueueInv' /\ FrontsInv' /\ HeldInv' /\ JobInv'
<1>1. JobsAre BY DEF IInv, TypeInv
<1>2. (JobsAre)' BY <1>1 DEF JobsAre, Workers, MainAside
<1> QED BY <1>2, MainKeeps

\* What is written and what is done, where the main thread only turns.
LEMMA MainTurns ==
  ASSUME IInv, MainAside, abort => abort', job' = job, UNCHANGED <<data, emitted, out>>,
         main' \in {"wait", "plan", "emit"} => main' = main \/ (main = "wait" /\ main' = "plan"),
         main' = "write" => emitted < nGops /\ emitted \in done /\ Whole(data[emitted], emitted),
         main' \in {"join", "done"} => \/ abort'
                                       \/ main \in {"join", "emit"} /\ (main = "emit" => AllOut),
         main' = "write" => main = "emit"
  PROVE  DoneInv' /\ OutInv'
<1>0. DoneInv /\ OutInv BY DEF IInv
<1>1. nGops' = nGops /\ Workers' = Workers /\ \A g : Start(g)' = Start(g) /\ End(g)' = End(g)
  BY DEF MainAside, nGops, Workers, Start, End
<1>2. DoneInv' BY <1>0, <1>1 DEF DoneInv, MainAside, Whole
<1>3. OutInv'
  <2>1. main' = "write" => emitted' < nGops' /\ emitted' \in done' /\ Whole(data[emitted], emitted)'
    BY <1>1 DEF MainAside, Whole
  <2>2. PICK e \in {emitted, emitted - 1} : OutOf(e) BY <1>0 DEF OutInv
  <2>3. OutOf(e)'
    <3>1. e \in 0 .. nGops' /\ Len(out') = bounds'[e + 1] BY <2>2, <1>1 DEF OutOf, MainAside
    <3>2. main' \in {"wait", "plan", "emit", "write"} => e = emitted' BY <2>2 DEF OutOf
    <3>3. main' \in {"join", "done"} /\ ~abort' => e = emitted' /\ final' /\ emitted' >= nGops'
      BY <2>2, <1>1 DEF OutOf, MainAside, AllOut
    <3> QED BY <3>1, <3>2, <3>3 DEF OutOf
  <2>4. \A m \in 1 .. Len(out') : out'[m] = m - 1 BY <1>0 DEF OutInv
  <2>5. main' \in {"wait", "plan"} => \A w \in Workers : job'[w].pc = "unborn" BY <1>0 DEF OutInv
  <2> QED BY <2>1, <2>2, <2>3, <2>4, <2>5, <1>1 DEF OutInv
<1> QED BY <1>2, <1>3

\* Types of a step that leaves the jobs and what is written.
LEMMA MainTypes ==
  ASSUME TypeInv, MainAside, job' = job, UNCHANGED <<data, emitted, out>>,
         main' \in MainPcs, abort' \in BOOLEAN, streamStart' \in BOOLEAN
  PROVE  TypeInv'
<1>1. (JobsAre)' BY DEF TypeInv, JobsAre, Workers, MainAside
<1> QED BY <1>1 DEF TypeInv, MainAside

LEMMA StepWaitSplit == IInv /\ WaitSplit => IInv'
<1> SUFFICES ASSUME IInv, WaitSplit PROVE IInv' OBVIOUS
<1>0. TypeInv /\ BoundsInv /\ ReaderInv BY DEF IInv
<1>1. /\ MainAside /\ job' = job /\ UNCHANGED <<data, emitted, out>> /\ abort' = abort
      /\ main = "wait" /\ main' \in {"wait", "plan"}
  BY DEF WaitSplit, MainAside, table, output
<1>2. streamStart' = streamStart \/ streamStart' = (~final /\ ~cfg.carry) BY DEF WaitSplit
<1>3. streamStart' \in BOOLEAN /\ (streamStart' => Pipe)
  <2>1. /\ streamStart \in BOOLEAN /\ final \in BOOLEAN BY <1>0 DEF TypeInv
  <2>2. /\ (streamStart => Pipe) /\ (~Pipe => final) BY <1>0 DEF ReaderInv, BoundsInv
  <2>3. CASE streamStart' = streamStart BY <2>1, <2>2, <2>3
  <2>4. CASE streamStart' = (~final /\ ~cfg.carry)
    <3>1. (~final /\ ~cfg.carry) \in BOOLEAN OBVIOUS
    <3>2. streamStart' => ~final BY <2>4
    <3> QED BY <2>2, <2>4, <3>1, <3>2, Zenon
  <2> QED BY <1>2, <2>3, <2>4
<1>4. DoneInv' /\ OutInv' BY <1>1, MainTurns
<1>5. TypeInv' 
  <2>1. main' \in MainPcs /\ abort' \in BOOLEAN BY <1>0, <1>1 DEF MainPcs, TypeInv
  <2> QED BY <2>1, <1>0, <1>1, <1>3, MainTypes
<1>6. BoundsInv' /\ ReaderInv' /\ QueueInv' /\ FrontsInv' /\ HeldInv' /\ JobInv'
  BY <1>1, <1>3, MainOnly
<1> QED BY <1>4, <1>5, <1>6 DEF IInv

\* An abort, or the end of one.
LEMMA StepMainEnds == IInv /\ (StopEarly \/ WriteFail \/ Join) => IInv'
<1> SUFFICES ASSUME IInv, StopEarly \/ WriteFail \/ Join PROVE IInv' OBVIOUS
<1>0. TypeInv /\ ReaderInv BY DEF IInv
<1>1. /\ MainAside /\ job' = job /\ UNCHANGED <<data, emitted, out>> /\ streamStart' = streamStart
      /\ main' \in {"join", "done"} /\ (abort' = abort \/ abort' = TRUE)
      /\ (abort' \/ main = "join")
  BY DEF StopEarly, WriteFail, Join, MainAside, table, flags, output
<1>2. streamStart' \in BOOLEAN /\ (streamStart' => Pipe) BY <1>0, <1>1 DEF TypeInv, ReaderInv
<1>3. abort' \in BOOLEAN /\ (abort => abort')
  <2>1. abort \in BOOLEAN BY <1>0 DEF TypeInv
  <2>2. CASE abort' = abort BY <2>1, <2>2
  <2>3. CASE abort' = TRUE BY <2>3
  <2> QED BY <1>1, <2>2, <2>3
<1>4. DoneInv' /\ OutInv' BY <1>1, <1>3, MainTurns
<1>5. TypeInv'
  <2>1. main' \in MainPcs BY <1>1 DEF MainPcs
  <2> QED BY <2>1, <1>0, <1>1, <1>2, <1>3, MainTypes
<1>6. BoundsInv' /\ ReaderInv' /\ QueueInv' /\ FrontsInv' /\ HeldInv' /\ JobInv'
  BY <1>1, <1>2, <1>3, MainOnly
<1> QED BY <1>4, <1>5, <1>6 DEF IInv

LEMMA StepEmit == IInv /\ Emit => IInv'
<1> SUFFICES ASSUME IInv, Emit PROVE IInv' OBVIOUS
<1>0. TypeInv /\ ReaderInv /\ DoneInv BY DEF IInv
<1>1. /\ MainAside /\ job' = job /\ UNCHANGED <<data, emitted, out>> /\ streamStart' = streamStart
      /\ main = "emit" /\ main' \in {"join", "write", "emit"} /\ abort' = abort
      /\ (main' = "join" => abort \/ AllOut)
      /\ (main' = "write" => ~abort /\ emitted \in done)
  BY DEF Emit, MainAside, table, flags, output
<1>2. streamStart' \in BOOLEAN /\ (streamStart' => Pipe) BY <1>0, <1>1 DEF TypeInv, ReaderInv
<1>3. main' = "write" => emitted < nGops /\ emitted \in done /\ Whole(data[emitted], emitted)
  <2> SUFFICES ASSUME main' = "write"
               PROVE  emitted < nGops /\ emitted \in done /\ Whole(data[emitted], emitted)
    OBVIOUS
  <2>1. ~abort /\ emitted \in done BY <1>1
  <2>2. emitted \in Nat /\ nGops \in Nat BY <1>0, SettingIs DEF TypeInv
  <2>3. emitted \in 0 .. nGops - 1 /\ (emitted >= emitted => Whole(data[emitted], emitted))
    BY <2>1, <1>0 DEF DoneInv
  <2> QED BY <2>1, <2>2, <2>3
<1>4. DoneInv' /\ OutInv' BY <1>1, <1>3, MainTurns
<1>5. TypeInv'
  <2>1. main' \in MainPcs /\ abort' \in BOOLEAN BY <1>0, <1>1 DEF MainPcs, TypeInv
  <2> QED BY <2>1, <1>0, <1>1, <1>2, MainTypes
<1>6. BoundsInv' /\ ReaderInv' /\ QueueInv' /\ FrontsInv' /\ HeldInv' /\ JobInv'
  BY <1>1, <1>2, MainOnly
<1> QED BY <1>4, <1>5, <1>6 DEF IInv

LEMMA StepDispatch == IInv /\ Dispatch => IInv'
<1> SUFFICES ASSUME IInv, Dispatch PROVE IInv' OBVIOUS
<1>0. TypeInv /\ ReaderInv /\ DoneInv /\ OutInv /\ JobsAre BY DEF IInv, TypeInv
<1>1. /\ MainAside /\ UNCHANGED <<data, emitted, out>> /\ abort' = abort
      /\ main = "plan" /\ main' = "emit"
  BY DEF Dispatch, MainAside, table, flags, output
<1>2. /\ job' = [w \in Workers |-> [job[w] EXCEPT !.pc = "pull"]] /\ cfg' = cfg
      /\ Workers' = Workers
  BY <1>1 DEF Dispatch, MainAside, Workers
<1>3. streamStart' \in BOOLEAN /\ (streamStart' => Pipe)
  <2>1. streamStart \in BOOLEAN /\ (streamStart => Pipe) BY <1>0 DEF TypeInv, ReaderInv
  <2>2. streamStart' = IF cfg.wait THEN streamStart ELSE cfg.kind = "pipe" /\ ~cfg.carry BY DEF Dispatch
  <2>3. CASE cfg.wait BY <2>1, <2>2, <2>3
  <2>4. CASE ~cfg.wait
    <3>1. (cfg.kind = "pipe" /\ ~cfg.carry) \in BOOLEAN OBVIOUS
    <3>2. streamStart' => cfg.kind = "pipe" BY <2>2, <2>4
    <3> QED BY <2>2, <2>4, <3>1, <3>2, Zenon DEF Pipe
  <2> QED BY <2>3, <2>4
<1>4. \A w \in Workers : job[w].pc = "unborn" BY <1>0, <1>1 DEF OutInv
<1>5. ASSUME NEW w \in Workers
      PROVE  JobIs(job'[w]) /\ job'[w].g = job[w].g /\ job'[w].pc = "pull"
  <2>1. job'[w] = [job[w] EXCEPT !.pc = "pull"] BY <1>2
  <2>2. JobIs(job[w]) BY <1>0 DEF JobsAre
  <2> QED BY <2>1, <2>2 DEF JobIs, JobPcs
<1>6. (JobsAre)'
  <2>1. job' = [w \in Workers |-> job'[w]] BY <1>2
  <2> QED BY <2>1, <1>2, <1>5 DEF JobsAre
<1>7. TypeInv'
  <2>1. main' \in MainPcs BY <1>1 DEF MainPcs
  <2> QED BY <2>1, <1>0, <1>1, <1>3, <1>6 DEF TypeInv, MainAside
<1>8. BoundsInv' /\ ReaderInv' /\ QueueInv' /\ FrontsInv' /\ HeldInv' /\ JobInv'
  <2>1. \A w \in Workers : /\ job'[w].g = job[w].g
                           /\ (job'[w].pc \in Active => job'[w] = job[w])
                           /\ (job'[w].pc = "unborn" => job[w].pc = "unborn")
    BY <1>5 DEF Active
  <2>2. abort => abort' BY <1>1
  <2> QED BY <2>1, <2>2, <1>1, <1>3, <1>6, MainKeeps
<1>9. nGops' = nGops /\ \A g : Start(g)' = Start(g) /\ End(g)' = End(g)
  BY <1>1 DEF MainAside, nGops, Start, End
<1>10. DoneInv' BY <1>0, <1>1, <1>9 DEF DoneInv, MainAside, Whole
<1>11. OutInv'
  <2>1. PICK e \in {emitted, emitted - 1} : OutOf(e) BY <1>0 DEF OutInv
  <2>2. OutOf(e)' BY <2>1, <1>1, <1>9 DEF OutOf, MainAside
  <2>3. \A m \in 1 .. Len(out') : out'[m] = m - 1 BY <1>0, <1>1 DEF OutInv
  <2> QED BY <2>1, <2>2, <2>3, <1>1 DEF OutInv
<1> QED BY <1>7, <1>8, <1>10, <1>11 DEF IInv

\* A GOP is written: it comes after the GOPs before it, whole.
LEMMA StepWrite == IInv /\ Write => IInv'
<1> SUFFICES ASSUME IInv, Write PROVE IInv' OBVIOUS
<1>0. TypeInv /\ BoundsInv /\ ReaderInv /\ DoneInv /\ OutInv /\ JobsAre BY DEF IInv, TypeInv
<1>1. /\ MainAside /\ job' = job /\ abort' = abort /\ streamStart' = streamStart
      /\ main = "write" /\ emitted' = emitted + 1 /\ data' = [data EXCEPT ![emitted] = <<>>]
  BY DEF Write, MainAside, table, flags
<1>2. \/ out' = out \o data[emitted] /\ main' = "emit"
      \/ main' = "fail" /\ out' = out
  BY DEF Write
<1>3. PICK e : e = emitted OBVIOUS
<1>4. /\ e \in 0 .. nGops - 1 /\ e \in Nat /\ nGops \in Nat /\ nGops <= cfg.n /\ cfg.n \in Nat
      /\ Whole(data[e], e) /\ Len(out) = bounds[e + 1]
  <2>1. emitted < nGops /\ Whole(data[emitted], emitted) BY <1>0, <1>1 DEF OutInv
  <2>2. e \in Nat /\ nGops \in Nat /\ nGops <= cfg.n /\ cfg.n \in Nat
    BY <1>0, <1>3, SettingIs, GopsFit DEF TypeInv
  <2>3. PICK d \in {emitted, emitted - 1} : OutOf(d) BY <1>0 DEF OutInv
  <2>4. d = emitted BY <2>3, <1>1 DEF OutOf
  <2>5. Len(out) = bounds[e + 1] BY <2>3, <2>4, <1>3 DEF OutOf
  <2> QED BY <2>1, <2>2, <2>5, <1>3
<1>5. data[e] \in Seq(Int) /\ data' \in [0 .. cfg.n -> Seq(Int)] /\ out \in Seq(Int)
  <2>1. data \in [0 .. cfg.n -> Seq(Int)] /\ out \in Seq(Int) BY <1>0 DEF TypeInv
  <2>2. e \in 0 .. cfg.n BY <1>4
  <2>3. <<>> \in Seq(Int) OBVIOUS
  <2> QED BY <2>1, <2>2, <2>3, <1>1
<1>6. \A g : g # e => data'[g] = data[g]
  <2>1. data \in [0 .. cfg.n -> Seq(Int)] BY <1>0 DEF TypeInv
  <2> QED BY <2>1, <1>1, <1>3
<1>7. /\ Start(e) \in Nat /\ End(e) \in Nat /\ Start(e) = Len(out)
      /\ Len(data[e]) = End(e) - Start(e) /\ \A m \in 1 .. Len(data[e]) : data[e][m] = Start(e) + m - 1
  <2>1. Start(e) \in Nat /\ End(e) \in Nat BY <1>0, <1>4, TableIs
  <2> QED BY <2>1, <1>4 DEF Whole, Start
<1>8. out' \in Seq(Int) /\ \A m \in 1 .. Len(out') : out'[m] = m - 1
  <2>1. \A m \in 1 .. Len(out) : out[m] = m - 1 BY <1>0 DEF OutInv
  <2>2. CASE out' = out \o data[emitted]
    <3>1. PICK o, s : o = out /\ s = data[e] OBVIOUS
    <3>2. /\ o \in Seq(Int) /\ s \in Seq(Int) /\ Len(o) \in Nat /\ Len(s) \in Nat BY <3>1, <1>5, LenProperties
    <3>3. /\ o \o s \in Seq(Int) /\ Len(o \o s) = Len(o) + Len(s)
          /\ \A m \in 1 .. Len(o) + Len(s) :
               (o \o s)[m] = IF m <= Len(o) THEN o[m] ELSE s[m - Len(o)]
      BY <3>2, ConcatProperties
    <3>4. ASSUME NEW m \in 1 .. Len(o) + Len(s) PROVE (o \o s)[m] = m - 1
      <4>1. CASE m <= Len(o) BY <4>1, <3>1, <3>2, <3>3, <2>1
      <4>2. CASE ~(m <= Len(o))
        <5>1. m - Len(o) \in 1 .. Len(s) BY <4>2, <3>2
        <5>2. s[m - Len(o)] = Len(o) + (m - Len(o)) - 1 BY <5>1, <3>1, <1>7
        <5>3. Len(o) + (m - Len(o)) - 1 = m - 1 BY <3>2
        <5> QED BY <4>2, <5>2, <5>3, <3>3
      <4> QED BY <4>1, <4>2
    <3>5. out' = o \o s BY <2>2, <3>1, <1>3
    <3> QED BY <3>3, <3>4, <3>5
  <2>3. CASE out' = out BY <2>1, <2>3, <1>5
  <2> QED BY <2>2, <2>3, <1>2
<1>9. nGops' = nGops /\ bounds' = bounds /\ \A g : Start(g)' = Start(g) /\ End(g)' = End(g)
  BY <1>1 DEF MainAside, nGops, Start, End
<1>10. DoneInv'
  <2> SUFFICES ASSUME ~abort, NEW g \in done
               PROVE  g \in 0 .. nGops - 1 /\ (g >= e + 1 => Whole(data'[g], g))
    BY <1>1, <1>3, <1>9 DEF DoneInv, MainAside, Whole
  <2>1. g \in 0 .. nGops - 1 /\ (g >= e => Whole(data[g], g)) BY <1>0, <1>3 DEF DoneInv
  <2>2. g >= e + 1 => g >= e /\ g # e BY <2>1, <1>4
  <2> QED BY <2>1, <2>2, <1>6
<1>11. OutInv'
  <2>1. CASE out' = out \o data[emitted] /\ main' = "emit"
    <3>1. Len(out') = Len(out) + Len(data[e])
      <4>1. Len(out \o data[e]) = Len(out) + Len(data[e]) BY <1>5, ConcatProperties
      <4> QED BY <4>1, <2>1, <1>3
    <3>2. Len(out') = End(e) BY <3>1, <1>7
    <3>3. bounds'[e + 1 + 1] = End(e) BY <1>4, <1>9 DEF End
    <3>4. e + 1 \in 0 .. nGops' BY <1>4, <1>9
    <3>5. OutOf(e + 1)' BY <3>2, <3>3, <3>4, <1>1, <1>3, <2>1 DEF OutOf
    <3>6. e + 1 \in {emitted', emitted' - 1} BY <1>1, <1>3
    <3>7. \E d \in {emitted', emitted' - 1} : OutOf(d)' BY <3>5, <3>6 DEF OutOf
    <3> QED BY <3>7, <1>8, <2>1 DEF OutInv
  <2>2. CASE main' = "fail" /\ out' = out
    <3>1. OutOf(e)' BY <2>2, <1>4, <1>9 DEF OutOf
    <3>2. e \in {emitted', emitted' - 1} BY <1>1, <1>3, <1>4
    <3>3. \E d \in {emitted', emitted' - 1} : OutOf(d)' BY <3>1, <3>2 DEF OutOf
    <3> QED BY <3>3, <1>8, <2>2 DEF OutInv
  <2> QED BY <1>2, <2>1, <2>2
<1>12. TypeInv'
  <2>1. main' \in MainPcs /\ emitted' \in Nat BY <1>1, <1>2, <1>3, <1>4 DEF MainPcs
  <2>2. (JobsAre)' BY <1>0, <1>1 DEF JobsAre, Workers, MainAside
  <2> QED BY <2>1, <2>2, <1>0, <1>1, <1>5, <1>8 DEF TypeInv, MainAside
<1>13. BoundsInv' /\ ReaderInv' /\ QueueInv' /\ FrontsInv' /\ HeldInv' /\ JobInv'
  <2>1. (abort => abort') /\ (streamStart' => Pipe) BY <1>0, <1>1 DEF ReaderInv
  <2> QED BY <2>1, <1>1, MainOnly
<1> QED BY <1>8, <1>10, <1>11, <1>12, <1>13 DEF IInv

-----------------------------------------------------------------------------
(* The theorems. *)

\* No worker has a GOP, nothing is read.
LEMMA InitIs == Init => IInv
<1> SUFFICES ASSUME Init PROVE IInv OBVIOUS
<1>1. PICK c \in Settings, m \in Nat :
         /\ m = Len(c.starts) - 1 /\ cfg = c
         /\ reader = [pc |-> IF c.n = 0 THEN "ending" ELSE "space", gop |-> None]
         /\ main = IF c.wait THEN "wait" ELSE "plan"
         /\ nRead = 0 /\ store = {}
         /\ bounds = IF c.kind # "pipe" THEN c.starts ELSE <<0>>
         /\ rd = [g \in 0 .. c.n |-> IF g < m THEN c.starts[g + 1] ELSE 0]
         /\ cons = rd /\ eof = FALSE /\ abort = FALSE /\ final = (c.kind # "pipe")
         /\ streamStart = FALSE /\ nextGop = 0
         /\ job = [w \in 0 .. c.w - 1 |->
                     [pc |-> "unborn", k |-> NoPull, g |-> None, i |-> 0, end |-> 0,
                      pred |-> None, ahead |-> 0, buf |-> <<>>]]
         /\ done = {} /\ data = [g \in 0 .. c.n |-> <<>>] /\ emitted = 0 /\ out = <<>>
  <2>1. \A c \in Settings : Len(c.starts) - 1 \in Nat
    <3>1. \A c \in Settings : c.starts \in Seq(Nat) /\ Len(c.starts) > 0
      BY SettingsAssumption DEF SettingsAssumption
    <3> QED BY <3>1
  <2> QED BY <2>1 DEF Init
<1>2. /\ c.n \in Nat /\ c.keyint \in Nat \ {0} /\ c.w \in Nat \ {0}
      /\ c.starts \in Seq(Nat) /\ Len(c.starts) = m + 1 /\ c.starts[1] = 0
      /\ \A i \in 1 .. Len(c.starts) : \A j \in 1 .. i - 1 : c.starts[j] < c.starts[i]
      /\ (c.kind # "pipe" => c.w < Len(c.starts) /\ c.starts[Len(c.starts)] = c.n)
      /\ c.wait \in BOOLEAN
  <2>1. c.starts \in Seq(Nat) /\ Len(c.starts) > 0 BY SettingsAssumption DEF SettingsAssumption
  <2>2. Len(c.starts) = m + 1 BY <2>1, <1>1
  <2> QED BY <2>1, <2>2, SettingsAssumption, Zenon DEF SettingsAssumption
<1>3. Workers = 0 .. c.w - 1 /\ Pipe = (c.kind = "pipe") /\ Seek = (c.kind = "seek")
  BY <1>1 DEF Workers, Pipe, Seek
<1>4. /\ \A i \in 0 .. c.n : rd[i] \in Nat
      /\ \A w \in Workers : job[w].pc = "unborn" /\ job[w].g = None /\ JobIs(job[w])
  <2>1. \A i \in 0 .. c.n : i < m => c.starts[i + 1] \in Nat
    <3> SUFFICES ASSUME NEW i \in 0 .. c.n, i < m PROVE c.starts[i + 1] \in Nat OBVIOUS
    <3>1. i + 1 \in 1 .. Len(c.starts) BY <1>1, <1>2
    <3> QED BY <3>1, <1>2, ElementOfSeq
  <2>2. \A w \in Workers : job[w].pc = "unborn" /\ job[w].g = None /\ JobIs(job[w])
    <3>1. <<>> \in Seq(Int) /\ NoPull \in Int /\ None \in Int BY DEF NoPull, None
    <3> QED BY <3>1, <1>1, <1>3 DEF JobIs, JobPcs
  <2> QED BY <2>1, <2>2, <1>1
<1>5. TypeInv
  <2>1. bounds \in Seq(Nat) /\ Len(bounds) > 0
    <3>1. CASE c.kind # "pipe" BY <3>1, <1>1, <1>2
    <3>2. CASE c.kind = "pipe" BY <3>2, <1>1
    <3> QED BY <3>1, <3>2
  <2>2. rd \in [0 .. cfg.n -> Nat] /\ cons \in [0 .. cfg.n -> Nat] BY <1>1, <1>4
  <2>3. JobsAre BY <1>1, <1>3, <1>4 DEF JobsAre
  <2>4. data \in [0 .. cfg.n -> Seq(Int)] /\ out \in Seq(Int)
    <3>1. <<>> \in Seq(Int) OBVIOUS
    <3> QED BY <3>1, <1>1
  <2>5. main \in MainPcs BY <1>1 DEF MainPcs
  <2>6. final \in BOOLEAN BY <1>1
  <2>7. /\ reader = [pc |-> reader.pc, gop |-> reader.gop]
        /\ reader.pc \in {"space", "read", "ending", "gone"}
    BY <1>1
  <2> QED BY <2>1, <2>2, <2>3, <2>4, <2>5, <2>6, <2>7, <1>1 DEF TypeInv
<1>6. /\ nGops = IF Pipe THEN 0 ELSE m
      /\ bounds[1] = 0 /\ (~Pipe => c.n > 0 /\ bounds[nGops + 1] = c.n /\ bounds = c.starts)
  <2>1. CASE Pipe
    <3>1. bounds = <<0>> BY <2>1, <1>1, <1>3
    <3>2. Len(bounds) = 1 /\ bounds[1] = 0 BY <3>1
    <3> QED BY <2>1, <3>2 DEF nGops
  <2>2. CASE ~Pipe
    <3>0. c.kind # "pipe" BY <2>2, <1>3
    <3>1. bounds = c.starts /\ nGops = m BY <3>0, <1>1, <1>2 DEF nGops
    <3>2. c.starts[m + 1] = c.n /\ m >= 1
      <4>1. c.starts[Len(c.starts)] = c.n /\ c.w < m + 1 BY <3>0, <1>2
      <4> QED BY <4>1, <1>1, <1>2
    <3>3. 1 \in 1 .. (m + 1) - 1 /\ m + 1 \in 1 .. Len(c.starts) BY <3>2, <1>2
    <3>4. c.starts[1] < c.starts[m + 1] BY <3>3, <1>2
    <3> QED BY <2>2, <3>1, <3>2, <3>4, <1>2
  <2> QED BY <2>1, <2>2
<1>7. BoundsInv
  <2>1. Pipe => PipeTable
    <3> SUFFICES ASSUME Pipe PROVE PipeTable OBVIOUS
    <3>1. nGops = 0 /\ bounds[1] = 0 /\ nRead = 0 BY <1>1, <1>6
    <3>2. 0 * cfg.keyint = 0 /\ (0 + 1) * cfg.keyint = cfg.keyint /\ 0 < cfg.keyint BY <1>1, <1>2
    <3> QED BY <3>1, <3>2 DEF PipeTable
  <2>2. final /\ ~abort => bounds[nGops + 1] = cfg.n BY <1>1, <1>3, <1>6
  <2>3. nRead <= cfg.n BY <1>1, <1>2
  <2>4. ~Pipe => bounds = cfg.starts /\ final BY <1>1, <1>3
  <2> QED BY <2>1, <2>2, <2>3, <2>4, <1>6 DEF BoundsInv
<1>8. ASSUME Seek PROVE /\ \A g \in 0 .. nGops - 1 : rd[g] = Start(g) /\ Start(g) \in Nat /\ Start(g) < End(g)
                        /\ ~Pipe
  <2>1. ~Pipe /\ nGops = m BY <1>8, <1>3, <1>6
  <2>2. nGops <= cfg.n BY <1>5, <1>7, GopsFit
  <2>3. ASSUME NEW g \in 0 .. nGops - 1 PROVE rd[g] = Start(g)
    <3>0. m \in Nat /\ c.n \in Nat /\ m <= c.n /\ g \in 0 .. m - 1
      BY <2>1, <2>2, <1>1, <1>2, Zenon
    <3>1. g \in 0 .. c.n /\ g < m BY <3>0
    <3>2. rd[g] = c.starts[g + 1] BY <3>1, <1>1
    <3> QED BY <3>2, <2>1, <1>6 DEF Start
  <2> QED BY <2>1, <2>3, <1>5, <1>7, TableIs
<1>9. ReaderInv
  <2>1. ~Seek => InOrderIs
    <3>1. c.n # 0 => nRead < cfg.n BY <1>1, <1>2
    <3> QED BY <3>1, <1>1 DEF InOrderIs
  <2>2. Seek => SeekIs
    <3> SUFFICES ASSUME Seek PROVE SeekIs OBVIOUS
    <3>1. reader.pc = "space" BY <1>1, <1>2, <1>6, <1>8
    <3>2. \A g \in 0 .. nGops - 1 :
            Start(g) <= rd[g] /\ rd[g] <= End(g) /\ (rd[g] > Start(g) => rd[g] <= nRead)
      <4> SUFFICES ASSUME NEW g \in 0 .. nGops - 1
                   PROVE  Start(g) <= rd[g] /\ rd[g] <= End(g) /\ (rd[g] > Start(g) => rd[g] <= nRead)
        OBVIOUS
      <4>1. End(g) \in Nat BY <1>5, <1>7, TableIs
      <4> QED BY <4>1, <1>8
    <3> QED BY <3>1, <3>2 DEF SeekIs
  <2> QED BY <2>1, <2>2, <1>1 DEF ReaderInv
<1>10. \A g : ~Taken(g)
  <2>1. nextGop = 0 /\ 0 .. nextGop - 1 = {} BY <1>1
  <2> QED BY <2>1, <1>4 DEF Taken
<1>11. \A w \in Workers : job[w].pc \notin Active BY <1>4 DEF Active
<1>12. QueueInv /\ JobInv BY <1>1, <1>4, <1>11 DEF QueueInv, JobInv
<1>13. FrontsInv
  <2> SUFFICES ASSUME Seek PROVE FrontsAre BY DEF FrontsInv
  <2>1. \A g \in 0 .. nGops - 1 :
          Start(g) <= cons[g] /\ cons[g] <= rd[g] /\ (~Taken(g) => cons[g] = Start(g))
    <3>1. cons = rd BY <1>1
    <3>2. \A g \in 0 .. nGops - 1 : rd[g] = Start(g) /\ Start(g) \in Nat BY <1>8
    <3> QED BY <3>1, <3>2
  <2> QED BY <2>1, <1>1, <1>11 DEF FrontsAre
<1>14. HeldInv
  <2> SUFFICES ASSUME NEW g \in Nat, NEW f \in Nat, IsGop(g), f \in Begin(g) .. Finish(g) - 1, Got(g, f)
               PROVE  FALSE
    BY DEF HeldInv
  <2>1. CASE Seek
    <3>1. g \in 0 .. nGops - 1 BY <2>1, <1>8 DEF IsGop
    <3>2. rd[g] = Start(g) /\ Start(g) = Begin(g) /\ Begin(g) \in Nat /\ Finish(g) \in Nat
      BY <3>1, <2>1, <1>5, <1>7, <1>8, TableIs, GopIs
    <3> QED BY <3>2, <2>1 DEF Got
  <2>2. CASE ~Seek BY <2>2, <1>1 DEF Got
  <2> QED BY <2>1, <2>2
<1>15. DoneInv BY <1>1 DEF DoneInv
<1>16. OutInv
  <2>1. OutOf(0)
    <3>1. nGops \in Nat /\ Len(out) = 0 BY <1>1, <1>6
    <3>2. 0 \in 0 .. nGops BY <3>1
    <3> QED BY <3>1, <3>2, <1>1, <1>6 DEF OutOf
  <2>2. 0 \in {emitted, emitted - 1} BY <1>1
  <2>3. \E e \in {emitted, emitted - 1} : OutOf(e) BY <2>1, <2>2, Zenon
  <2>4. main # "write" BY <1>1
  <2>5. \A m_1 \in 1 .. Len(out) : out[m_1] = m_1 - 1 BY <1>1
  <2> QED BY <2>3, <2>4, <2>5, <1>4 DEF OutInv
<1> QED BY <1>5, <1>7, <1>9, <1>12, <1>13, <1>14, <1>15, <1>16 DEF IInv

LEMMA StepStutters == IInv /\ UNCHANGED vars => IInv'
<1> SUFFICES ASSUME IInv, UNCHANGED vars PROVE IInv' OBVIOUS
<1>1. TypeInv /\ DoneInv /\ OutInv BY DEF IInv
<1>2. /\ MainAside /\ job' = job /\ UNCHANGED <<main, abort, streamStart, data, emitted, out>>
  BY DEF vars, MainAside
<1>3. ReaderInv BY DEF IInv
<1>4. BoundsInv' /\ ReaderInv' /\ QueueInv' /\ FrontsInv' /\ HeldInv' /\ JobInv'
  BY <1>2, <1>3, MainOnly DEF ReaderInv
<1>5. TypeInv' BY <1>1, <1>2, MainTypes DEF TypeInv
<1>6. nGops' = nGops /\ Workers' = Workers /\ \A g : Start(g)' = Start(g) /\ End(g)' = End(g)
  BY <1>2 DEF MainAside, nGops, Workers, Start, End
<1>7. DoneInv' BY <1>1, <1>2, <1>6 DEF DoneInv, MainAside, Whole
<1>8. OutInv'
  <2>1. \A e : OutOf(e)' = OutOf(e) BY <1>2, <1>6 DEF OutOf, MainAside
  <2>2. main' = "write" => emitted' < nGops' /\ emitted' \in done' /\ Whole(data[emitted], emitted)'
    BY <1>1, <1>2, <1>6 DEF OutInv, Whole, MainAside
  <2>3. \E e \in {emitted', emitted' - 1} : OutOf(e)' BY <2>1, <1>1, <1>2 DEF OutInv
  <2>4. \A m \in 1 .. Len(out') : out'[m] = m - 1 BY <1>1, <1>2 DEF OutInv
  <2>5. main' \in {"wait", "plan"} => \A w \in Workers' : job'[w].pc = "unborn"
    BY <1>1, <1>2, <1>6 DEF OutInv
  <2> QED BY <2>2, <2>3, <2>4, <2>5 DEF OutInv
<1> QED BY <1>4, <1>5, <1>7, <1>8 DEF IInv

LEMMA StepWorker == ASSUME IInv, NEW w \in Workers, WorkerNext(w) PROVE IInv'
<1>1. CASE Pull(w) \/ WaitGop(w) \/ WaitFirst(w) BY <1>1, StepTakes
<1>2. CASE Predecessor(w) \/ Import(w) BY <1>2, StepCarries
<1>3. CASE Feed(w) BY <1>3, StepFeed
<1>4. CASE Code(w) BY <1>4, StepCode
<1>5. CASE Publish(w) BY <1>5, StepPublish
<1>6. CASE Leave(w) BY <1>6, StepLeave
<1> QED BY <1>1, <1>2, <1>3, <1>4, <1>5, <1>6 DEF WorkerNext

\* The invariant: frames of GOPs are apart, what is read and wanted is held, what a
\* worker has fed is its GOP so far, what is done and not written is whole, what is
\* written is the GOPs before the next (encode_threaded, gop_worker, y4m_reader,
\* seek_reader).
THEOREM GopInvariant == Spec => []IInv
<1>1. IInv /\ [Next]_vars => IInv'
  <2> SUFFICES ASSUME IInv, [Next]_vars PROVE IInv' OBVIOUS
  <2>1. CASE ReaderNext
    <3>1. CASE ReaderSpace \/ SeekSpace \/ ReaderFail BY <3>1, StepReaderTurns
    <3>2. CASE ReaderPublish BY <3>2, StepReaderPublish
    <3>3. CASE SeekPublish BY <3>3, StepSeekPublish
    <3>4. CASE ReaderEnd BY <3>4, StepReaderEnd
    <3> QED BY <2>1, <3>1, <3>2, <3>3, <3>4 DEF ReaderNext
  <2>2. CASE MainNext
    <3>1. CASE WaitSplit BY <3>1, StepWaitSplit
    <3>2. CASE StopEarly \/ WriteFail \/ Join BY <3>2, StepMainEnds
    <3>3. CASE Dispatch BY <3>3, StepDispatch
    <3>4. CASE Emit BY <3>4, StepEmit
    <3>5. CASE Write BY <3>5, StepWrite
    <3> QED BY <2>2, <3>1, <3>2, <3>3, <3>4, <3>5 DEF MainNext
  <2>3. CASE \E w \in Workers : WorkerNext(w) BY <2>3, StepWorker
  <2>4. CASE UNCHANGED vars BY <2>4, StepStutters
  <2> QED BY <2>1, <2>2, <2>3, <2>4 DEF Next
<1> QED BY <1>1, InitIs, PTL DEF Spec

\* The stream is the input, for every input, table of GOPs, number of workers,
\* window and fault: the frames written are the first of the input in order, a
\* whole number of GOPs of them, and all of them unless something failed.
THEOREM GopOutput == Spec => []OutputIsInput
<1>1. IInv => OutputIsInput
  <2> SUFFICES ASSUME IInv PROVE OutputIsInput OBVIOUS
  <2>0. TypeInv /\ BoundsInv /\ OutInv BY DEF IInv
  <2>1. out = [i \in 1 .. Len(out) |-> i - 1]
    <3>1. out \in Seq(Int) BY <2>0 DEF TypeInv
    <3>2. out = [i \in 1 .. Len(out) |-> out[i]] BY <3>1
    <3>3. \A i \in 1 .. Len(out) : out[i] = i - 1 BY <2>0 DEF OutInv
    <3> QED BY <3>2, <3>3
  <2>2. PICK e \in {emitted, emitted - 1} : OutOf(e) BY <2>0 DEF OutInv
  <2>3. e \in 0 .. nGops /\ Len(out) = bounds[e + 1] BY <2>2 DEF OutOf
  <2>4. bounds \in Seq(Nat) /\ Len(bounds) = nGops + 1 /\ nGops \in Nat /\ emitted \in Nat
    BY <2>0, SettingIs DEF TypeInv, nGops
  <2>5. e + 1 \in DOMAIN bounds BY <2>3, <2>4
  <2>6. main = "done" /\ ~abort => Len(out) = cfg.n
    <3> SUFFICES ASSUME main = "done", ~abort PROVE Len(out) = cfg.n OBVIOUS
    <3>1. e = emitted /\ final /\ emitted >= nGops BY <2>2 DEF OutOf
    <3>2. e = nGops BY <3>1, <2>3, <2>4
    <3>3. bounds[nGops + 1] = cfg.n BY <3>1, <2>0 DEF BoundsInv
    <3> QED BY <3>2, <3>3, <2>3
  <2> QED BY <2>1, <2>3, <2>5, <2>6 DEF OutputIsInput
<1> QED BY <1>1, GopInvariant, PTL

-----------------------------------------------------------------------------
(* The store is bounded: the invariant of StoreBounded. *)

\* The window a reader in stream order starts with, and the bounds of the store.
FirstWindow == IF cfg.window > 0 THEN cfg.window ELSE (cfg.w + 1) * cfg.keyint
InOrderMost == Larger(StoreCap(cfg), FirstWindow)
SeekMost    == (cfg.w + 1) * cfg.readahead

\* The window only narrows, and there is room for a frame that is being read.
RoomInv ==
  /\ IsFiniteSet(store) /\ window \in Nat /\ window <= FirstWindow
  /\ (~cfg.wait => main # "wait" /\ ~predispatch)
  /\ (~Seek /\ ~cfg.wait => /\ Cardinality(store) <= InOrderMost
                            /\ (reader.pc = "read" => Cardinality(store) < InOrderMost))

\* A seek reader reads ahead in GOPs that are handed out, and in the next one.
HandedOrNext(g) == Static(cfg) \/ \E k \in 0 .. nextGop : HandOut(cfg, k) = g
HasWorker(g)    == \E w \in Workers : job[w].pc \in Active /\ job[w].g = g
LeadIs ==
  /\ Cardinality(store) <= SeekMost
  /\ (reader.pc = "read" =>
        /\ Cardinality(store) < SeekMost
        /\ rd[reader.gop] < cons[reader.gop] + cfg.readahead /\ HandedOrNext(reader.gop))
  /\ \A g \in 0 .. nGops - 1 : /\ rd[g] <= cons[g] + cfg.readahead
                               /\ (cons[g] < rd[g] => HandedOrNext(g))
  /\ (~abort => \A g \in done : cons[g] = End(g))
  /\ (~abort /\ ~Static(cfg) => \A g \in 0 .. nGops - 1 : Taken(g) => g \in done \/ HasWorker(g))
LeadInv == Seek => LeadIs

SInv == RoomInv /\ LeadInv

LEMMA LargerIs ==
  ASSUME NEW a \in Nat, NEW b \in Nat
  PROVE  Larger(a, b) \in Nat /\ Larger(a, b) >= a /\ Larger(a, b) >= b
  BY DEF Larger

LEMMA SmallerIs ==
  ASSUME NEW a \in Nat, NEW b \in Nat
  PROVE  Smaller(a, b) \in Nat /\ Smaller(a, b) <= a
  BY DEF Smaller

\* The bounds are numbers.
LEMMA BoundsAre ==
  ASSUME TypeInv
  PROVE  /\ FirstWindow \in Nat /\ StoreCap(cfg) \in Nat /\ InOrderMost \in Nat /\ SeekMost \in Nat
         /\ InOrderMost >= FirstWindow /\ InOrderMost >= StoreCap(cfg)
<1>1. /\ cfg.keyint \in Nat /\ cfg.w \in Nat /\ cfg.w + 1 \in Nat /\ cfg.window \in Nat
      /\ cfg.ceiling \in Nat /\ cfg.readahead \in Nat /\ Infinite \in Nat
  BY SettingIs, InfiniteAssumption
<1>2. (cfg.w + 1) * cfg.keyint \in Nat /\ (cfg.w + 1) * cfg.readahead \in Nat /\ 2 * cfg.keyint \in Nat
  BY <1>1, Times
<1>3. FirstWindow \in Nat /\ SeekMost \in Nat BY <1>1, <1>2 DEF FirstWindow, SeekMost
<1>4. StoreCap(cfg) \in Nat BY <1>1, <1>2, LargerIs DEF StoreCap
<1> QED BY <1>3, <1>4, LargerIs DEF InOrderMost

\* A step that adds no frame and starts no read.
LEMMA RoomKept ==
  ASSUME IInv, SInv, cfg' = cfg, store' \subseteq store, window' \in Nat, window' <= window,
         reader'.pc = "read" => reader.pc = "read" \/ Seek,
         ~cfg.wait => main' # "wait" /\ ~predispatch'
  PROVE  RoomInv'
<1>1. TypeInv /\ RoomInv /\ FirstWindow \in Nat /\ InOrderMost \in Nat BY BoundsAre DEF IInv, SInv
<1>2. FirstWindow' = FirstWindow /\ InOrderMost' = InOrderMost /\ Seek' = Seek
  BY DEF FirstWindow, InOrderMost, StoreCap, Seek
<1>3. IsFiniteSet(store') /\ Cardinality(store') <= Cardinality(store)
      /\ Cardinality(store') \in Nat /\ Cardinality(store) \in Nat
  BY <1>1, FS_Subset, FS_CardinalityType DEF RoomInv
<1>4. window' <= FirstWindow' BY <1>1, <1>2 DEF RoomInv
<1>5. ~Seek /\ ~cfg.wait => /\ Cardinality(store') <= InOrderMost
                            /\ (reader'.pc = "read" => Cardinality(store') < InOrderMost)
  BY <1>1, <1>3 DEF RoomInv
<1> QED BY <1>1, <1>2, <1>3, <1>4, <1>5 DEF RoomInv

\* A step that reads no frame and picks no GOP to read from.
LEMMA LeadKept ==
  ASSUME IInv, SInv, UNCHANGED <<cfg, bounds, rd>>, store' \subseteq store,
         nextGop' \in Nat, nextGop <= nextGop', reader'.pc = "read" => reader' = reader,
         \A g \in 0 .. nGops - 1 : cons'[g] \in Nat /\ cons[g] <= cons'[g],
         Seek /\ ~abort' => \A g \in done' : cons'[g] = End(g),
         Seek /\ ~abort' /\ ~Static(cfg) => \A g \in 0 .. nGops - 1 : Taken(g)' => g \in done' \/ HasWorker(g)'
  PROVE  LeadInv'
<1>1. TypeInv /\ BoundsInv /\ ReaderInv /\ FrontsInv /\ RoomInv /\ LeadInv BY DEF IInv, SInv
<1>2. nGops' = nGops /\ Seek' = Seek /\ SeekMost' = SeekMost /\ \A g : End(g)' = End(g)
  BY DEF nGops, Seek, SeekMost, End
<1> SUFFICES ASSUME Seek PROVE LeadIs' BY <1>2 DEF LeadInv
<1>3. LeadIs /\ SeekIs /\ nGops \in Nat /\ nGops <= cfg.n /\ cfg.n \in Nat /\ cfg.readahead \in Nat
  BY <1>1, SettingIs, GopsFit DEF LeadInv, ReaderInv
<1>4. IsFiniteSet(store') /\ Cardinality(store') <= Cardinality(store)
      /\ Cardinality(store') \in Nat /\ Cardinality(store) \in Nat /\ SeekMost \in Nat
  BY <1>1, BoundsAre, FS_Subset, FS_CardinalityType DEF RoomInv
<1>5. \A g : HandedOrNext(g) => HandedOrNext(g)'
  <2>1. nextGop \in Nat BY <1>1 DEF TypeInv
  <2>2. 0 .. nextGop \subseteq 0 .. nextGop' BY <2>1
  <2> QED BY <2>2 DEF HandedOrNext
<1>6. \A g \in 0 .. nGops - 1 : rd[g] \in Nat /\ cons[g] \in Nat
  <2>1. \A g \in 0 .. nGops - 1 : g \in 0 .. cfg.n BY <1>3
  <2> QED BY <2>1, <1>1 DEF TypeInv
<1>7. \A g \in 0 .. nGops - 1 : /\ rd'[g] <= cons'[g] + cfg.readahead
                                /\ (cons'[g] < rd'[g] => HandedOrNext(g)')
  <2> SUFFICES ASSUME NEW g \in 0 .. nGops - 1
               PROVE  rd[g] <= cons'[g] + cfg.readahead /\ (cons'[g] < rd[g] => HandedOrNext(g)')
    OBVIOUS
  <2>1. rd[g] <= cons[g] + cfg.readahead /\ (cons[g] < rd[g] => HandedOrNext(g)) BY <1>3 DEF LeadIs
  <2>2. PICK a, b, c : a = cons[g] /\ b = cons'[g] /\ c = rd[g] OBVIOUS
  <2>3. a \in Nat /\ b \in Nat /\ c \in Nat /\ a <= b BY <1>6, <2>2
  <2>4. c <= b + cfg.readahead BY <1>3, <2>1, <2>2, <2>3
  <2>5. b < c => a < c BY <2>3
  <2> QED BY <1>5, <2>1, <2>2, <2>4, <2>5
<1>8. reader'.pc = "read" =>
        /\ Cardinality(store') < SeekMost
        /\ rd'[reader'.gop] < cons'[reader'.gop] + cfg.readahead /\ HandedOrNext(reader.gop)'
  <2> SUFFICES ASSUME reader'.pc = "read"
               PROVE  /\ Cardinality(store') < SeekMost
                      /\ rd[reader.gop] < cons'[reader.gop] + cfg.readahead /\ HandedOrNext(reader.gop)'
    OBVIOUS
  <2>1. reader.pc = "read" OBVIOUS
  <2>2. reader.gop \in 0 .. nGops - 1 BY <1>3, <2>1 DEF SeekIs, ToRead
  <2>3. PICK a, b, c : a = cons[reader.gop] /\ b = cons'[reader.gop] /\ c = rd[reader.gop] OBVIOUS
  <2>4. a \in Nat /\ b \in Nat /\ c \in Nat /\ a <= b BY <1>6, <2>2, <2>3
  <2>5. c < a + cfg.readahead /\ HandedOrNext(reader.gop) /\ Cardinality(store) < SeekMost
    BY <1>3, <2>1, <2>3 DEF LeadIs
  <2>6. c < b + cfg.readahead BY <1>3, <2>4, <2>5
  <2>7. Cardinality(store') < SeekMost BY <1>4, <2>5
  <2> QED BY <1>5, <2>3, <2>5, <2>6, <2>7
<1>9. reader'.pc = "read" => HandedOrNext(reader.gop)' /\ reader'.gop = reader.gop BY <1>8
<1>10. Cardinality(store') <= SeekMost BY <1>3, <1>4 DEF LeadIs
<1>11. reader'.pc = "read" =>
        /\ Cardinality(store)' < SeekMost'
        /\ rd'[reader'.gop] < cons'[reader'.gop] + cfg'.readahead /\ HandedOrNext(reader.gop)'
  BY <1>2, <1>8, <1>9
<1>12. Cardinality(store)' <= SeekMost' BY <1>2, <1>10
<1>13. \A g \in 0 .. nGops' - 1 : /\ rd'[g] <= cons'[g] + cfg'.readahead
                                  /\ (cons'[g] < rd'[g] => HandedOrNext(g)')
  BY <1>2, <1>7
<1>14. ~abort' => \A g \in done' : cons'[g] = End(g)' BY <1>2
<1>15. ~abort' /\ ~Static(cfg') => \A g \in 0 .. nGops' - 1 : Taken(g)' => g \in done' \/ HasWorker(g)'
  BY <1>2
<1> QED BY <1>11, <1>12, <1>13, <1>14, <1>15 DEF LeadIs

\* Who a GOP is being read for: its worker, or, for the next GOP, the worker to come.
OwnerOf(g) == IF Static(cfg) THEN g
              ELSE IF Taken(g) THEN CHOOSE w \in Workers : job[w].pc \in Active /\ job[w].g = g
              ELSE cfg.w

\* GOPs that are read ahead or picked have owners of their own.
LEMMA OwnersApart ==
  ASSUME IInv, SInv, Seek, ~abort,
         NEW g \in 0 .. nGops - 1, HandedOrNext(g), g \in done => cons[g] # End(g),
         NEW h \in 0 .. nGops - 1, HandedOrNext(h), h \in done => cons[h] # End(h)
  PROVE  OwnerOf(g) \in 0 .. cfg.w /\ (OwnerOf(g) = OwnerOf(h) => g = h)
<1>1. /\ TypeInv /\ BoundsInv /\ LeadIs /\ nGops \in Nat /\ cfg.w \in Nat \ {0} /\ nextGop \in Nat
  BY SettingIs DEF IInv, SInv, LeadInv, TypeInv
<1>2. g \notin done /\ h \notin done BY <1>1 DEF LeadIs
<1>3. CASE Static(cfg)
  <2>1. nGops = cfg.w BY <1>1, <1>3 DEF Static, nGops, BoundsInv, Pipe
  <2> QED BY <1>1, <1>3, <2>1 DEF OwnerOf
<1>4. CASE ~Static(cfg)
  <2>1. \A x \in {g, h} : Taken(x) =>
          OwnerOf(x) \in Workers /\ job[OwnerOf(x)].g = x
    <3> SUFFICES ASSUME NEW x \in {g, h}, Taken(x)
                 PROVE  OwnerOf(x) \in Workers /\ job[OwnerOf(x)].g = x
      OBVIOUS
    <3>1. HasWorker(x) BY <1>1, <1>2, <1>4 DEF LeadIs
    <3> QED BY <3>1, <1>4 DEF OwnerOf, HasWorker
  <2>2. \A x \in {g, h} : ~Taken(x) => OwnerOf(x) = cfg.w /\ x = HandOut(cfg, nextGop)
    <3> SUFFICES ASSUME NEW x \in {g, h}, ~Taken(x)
                 PROVE  OwnerOf(x) = cfg.w /\ x = HandOut(cfg, nextGop)
      OBVIOUS
    <3>1. PICK k \in 0 .. nextGop : HandOut(cfg, k) = x BY <1>4 DEF HandedOrNext
    <3>2. k \notin 0 .. nextGop - 1 BY <3>1, <1>4 DEF Taken
    <3>3. k = nextGop BY <3>2, <1>1
    <3> QED BY <3>1, <3>3, <1>4 DEF OwnerOf
  <2>3. cfg.w \notin Workers /\ Workers \subseteq 0 .. cfg.w BY <1>1 DEF Workers
  <2>4. OwnerOf(g) \in 0 .. cfg.w
    <3>1. CASE Taken(g) BY <2>1, <2>3, <3>1
    <3>2. CASE ~Taken(g) BY <1>1, <2>2, <3>2
    <3> QED BY <3>1, <3>2
  <2>5. ASSUME OwnerOf(g) = OwnerOf(h) PROVE g = h
    <3>1. CASE Taken(g) /\ Taken(h) BY <2>1, <2>5, <3>1
    <3>2. CASE ~Taken(g) /\ ~Taken(h) BY <2>2, <3>2
    <3>3. CASE Taken(g) /\ ~Taken(h) BY <2>1, <2>2, <2>3, <2>5, <3>3
    <3>4. CASE ~Taken(g) /\ Taken(h) BY <2>1, <2>2, <2>3, <2>5, <3>4
    <3> QED BY <3>1, <3>2, <3>3, <3>4
  <2> QED BY <2>4, <2>5
<1> QED BY <1>3, <1>4

\* A frame of a seek reader's store: its GOP, and its place behind the GOP's worker.
GopOf(f) == CHOOSE g \in 0 .. nGops - 1 : cons[g] <= f /\ f < rd[g]

\* Where the reader picks a GOP to read from, the store has room for the frame: every
\* frame in it takes a place of its own in the read-ahead of one of w + 1 GOPs, and the
\* frame to be read takes another one.
LEMMA PickFits ==
  ASSUME IInv, SInv, Seek, ~abort, NEW p \in Candidates
  PROVE  HandedOrNext(p) /\ rd[p] < cons[p] + cfg.readahead /\ Cardinality(store) < SeekMost
<1>1. /\ TypeInv /\ BoundsInv /\ LeadIs /\ SeekIs /\ FrontsAre /\ IsFiniteSet(store)
      /\ nGops \in Nat /\ nGops <= cfg.n /\ cfg.n \in Nat /\ cfg.w \in Nat /\ cfg.readahead \in Nat
  BY SettingIs, GopsFit DEF IInv, SInv, LeadInv, RoomInv, FrontsInv, ReaderInv
<1>2. /\ p \in 0 .. nGops - 1 /\ rd[p] < End(p) /\ Lead(p) < cfg.readahead
      /\ (Static(cfg) \/ Position(p) < nextGop + 1)
  BY DEF Candidates, ToRead
<1>3. HandedOrNext(p)
  <2>1. Position(p) \in 0 .. nGops - 1 /\ HandOut(cfg, Position(p)) = p
    BY <1>1, <1>2, PositionIs
  <2>2. nextGop \in Nat BY <1>1 DEF TypeInv
  <2>3. Position(p) < nextGop + 1 => Position(p) \in 0 .. nextGop BY <1>1, <2>1, <2>2
  <2> QED BY <1>2, <2>1, <2>3 DEF HandedOrNext
<1>4. \A g \in 0 .. nGops - 1 : /\ rd[g] \in Nat /\ cons[g] \in Nat /\ End(g) \in Nat
                                /\ cons[g] <= rd[g] /\ rd[g] <= End(g)
                                /\ rd[g] <= cons[g] + cfg.readahead
                                /\ (cons[g] < rd[g] => HandedOrNext(g))
  <2> SUFFICES ASSUME NEW g \in 0 .. nGops - 1
               PROVE  /\ rd[g] \in Nat /\ cons[g] \in Nat /\ End(g) \in Nat
                      /\ cons[g] <= rd[g] /\ rd[g] <= End(g)
                      /\ rd[g] <= cons[g] + cfg.readahead
                      /\ (cons[g] < rd[g] => HandedOrNext(g))
    OBVIOUS
  <2>1. g \in 0 .. cfg.n BY <1>1
  <2>2. rd[g] \in Nat /\ cons[g] \in Nat BY <1>1, <2>1 DEF TypeInv
  <2>3. End(g) \in Nat BY <1>1, TableIs
  <2>4. cons[g] <= rd[g] BY <1>1 DEF FrontsAre
  <2>5. rd[g] <= End(g) BY <1>1 DEF SeekIs
  <2>6. rd[g] <= cons[g] + cfg.readahead /\ (cons[g] < rd[g] => HandedOrNext(g))
    BY <1>1 DEF LeadIs
  <2> QED BY <2>2, <2>3, <2>4, <2>5, <2>6
<1>5. rd[p] < cons[p] + cfg.readahead BY <1>1, <1>2, <1>4 DEF Lead
<1>6. \A g \in 0 .. nGops - 1 : g = p \/ cons[g] < rd[g] =>
        HandedOrNext(g) /\ (g \in done => cons[g] # End(g))
  <2>1. cons[p] # End(p) BY <1>2, <1>4
  <2>2. \A g \in 0 .. nGops - 1 : cons[g] < rd[g] => cons[g] # End(g)
    <3> SUFFICES ASSUME NEW g \in 0 .. nGops - 1, cons[g] < rd[g] PROVE cons[g] # End(g) OBVIOUS
    <3>1. cons[g] \in Nat /\ rd[g] \in Nat /\ End(g) \in Nat /\ rd[g] <= End(g) BY <1>4
    <3> QED BY <3>1
  <2> QED BY <1>3, <1>4, <2>1, <2>2
<1>7. \A f \in store : GopOf(f) \in 0 .. nGops - 1 /\ cons[GopOf(f)] <= f /\ f < rd[GopOf(f)]
  BY <1>1 DEF FrontsAre, GopOf
<1> DEFINE Place(f) == f - cons[GopOf(f)]
           P == (0 .. cfg.w) \X (0 .. cfg.readahead - 1)
           x == <<OwnerOf(p), Lead(p)>>
           F == [f \in store |-> <<OwnerOf(GopOf(f)), Place(f)>>]
<1>8. \A f \in store : /\ f \in Nat /\ Place(f) \in 0 .. cfg.readahead - 1
                       /\ cons[GopOf(f)] \in Nat
                       /\ (GopOf(f) = p => Place(f) # Lead(p))
  <2> SUFFICES ASSUME NEW f \in store
               PROVE  /\ f \in Nat /\ Place(f) \in 0 .. cfg.readahead - 1
                      /\ cons[GopOf(f)] \in Nat /\ (GopOf(f) = p => Place(f) # Lead(p))
    OBVIOUS
  <2>1. PICK c, r : c = cons[GopOf(f)] /\ r = rd[GopOf(f)] OBVIOUS
  <2>2. f \in Nat BY <1>1 DEF TypeInv
  <2>3. c \in Nat /\ r \in Nat /\ c <= f /\ f < r /\ r <= c + cfg.readahead BY <1>4, <1>7, <2>1
  <2>4. f - c \in 0 .. cfg.readahead - 1 /\ f - c < r - c BY <1>1, <2>2, <2>3
  <2>5. GopOf(f) = p => Lead(p) = r - c BY <2>1 DEF Lead
  <2>6. f - c # r - c BY <2>2, <2>3
  <2> QED BY <2>1, <2>2, <2>3, <2>4, <2>5, <2>6
<1>9. \A f \in store : LET g == GopOf(f) IN
        g \in 0 .. nGops - 1 /\ HandedOrNext(g) /\ (g \in done => cons[g] # End(g))
  <2> SUFFICES ASSUME NEW f \in store
               PROVE  GopOf(f) \in 0 .. nGops - 1 /\ HandedOrNext(GopOf(f))
                      /\ (GopOf(f) \in done => cons[GopOf(f)] # End(GopOf(f)))
    OBVIOUS
  <2>1. PICK g \in 0 .. nGops - 1 : g = GopOf(f) BY <1>7
  <2>2. cons[g] \in Nat /\ rd[g] \in Nat /\ cons[g] <= f /\ f < rd[g] /\ f \in Nat
    BY <1>4, <1>7, <1>8, <2>1
  <2>3. cons[g] < rd[g] BY <2>2
  <2> QED BY <1>6, <2>1, <2>3
<1>10. \A f \in store : /\ OwnerOf(GopOf(f)) \in 0 .. cfg.w
                        /\ (OwnerOf(GopOf(f)) = OwnerOf(p) => GopOf(f) = p)
  BY <1>2, <1>6, <1>9, OwnersApart
<1>11. \A f, e \in store : OwnerOf(GopOf(f)) = OwnerOf(GopOf(e)) => GopOf(f) = GopOf(e)
  BY <1>9, OwnersApart
<1>12. OwnerOf(p) \in 0 .. cfg.w BY <1>2, <1>6, OwnersApart
<1>13. Lead(p) \in 0 .. cfg.readahead - 1
  <2>1. PICK c, r : c = cons[p] /\ r = rd[p] OBVIOUS
  <2>2. c \in Nat /\ r \in Nat /\ c <= r /\ r - c < cfg.readahead BY <1>2, <1>4, <2>1 DEF Lead
  <2> QED BY <1>1, <2>1, <2>2 DEF Lead
<1>14. F \in Injection(store, P \ {x})
  <2>1. ASSUME NEW f \in store PROVE F[f] \in P \ {x}
    <3>1. F[f] = <<OwnerOf(GopOf(f)), Place(f)>> OBVIOUS
    <3>2. F[f] \in P BY <3>1, <1>8, <1>10
    <3>3. F[f] # x
      <4> SUFFICES ASSUME OwnerOf(GopOf(f)) = OwnerOf(p), Place(f) = Lead(p) PROVE FALSE
        BY <3>1
      <4>1. GopOf(f) = p BY <1>10
      <4> QED BY <4>1, <1>8
    <3> QED BY <3>2, <3>3
  <2>2. ASSUME NEW f \in store, NEW e \in store, F[f] = F[e] PROVE f = e
    <3>1. OwnerOf(GopOf(f)) = OwnerOf(GopOf(e)) /\ Place(f) = Place(e) BY <2>2
    <3>2. GopOf(f) = GopOf(e) BY <3>1, <1>11
    <3>3. PICK c : c = cons[GopOf(f)] OBVIOUS
    <3>4. f - c = e - c /\ c \in Nat /\ f \in Nat /\ e \in Nat BY <1>8, <3>1, <3>2, <3>3
    <3> QED BY <3>4
  <2>3. F \in [store -> P \ {x}] BY <2>1
  <2> HIDE DEF F, P, x
  <2>4. \A f, e \in store : F[f] = F[e] => f = e BY <2>2
  <2> QED BY <2>3, <2>4 DEF Injection, IsInjective
<1>15. IsFiniteSet(P) /\ Cardinality(P) = SeekMost /\ x \in P
  <2>1. IsFiniteSet(0 .. cfg.w) /\ Cardinality(0 .. cfg.w) = cfg.w + 1
    <3>1. 0 \in Int /\ cfg.w \in Int /\ ~(0 > cfg.w) /\ cfg.w - 0 + 1 = cfg.w + 1 BY <1>1
    <3> QED BY <3>1, FS_Interval
  <2>2. IsFiniteSet(0 .. cfg.readahead - 1) /\ Cardinality(0 .. cfg.readahead - 1) = cfg.readahead
    <3>1. PICK r \in Nat : r = cfg.readahead BY <1>1
    <3>2. 0 \in Int /\ r - 1 \in Int /\ (IF 0 > r - 1 THEN 0 ELSE r - 1 - 0 + 1) = r OBVIOUS
    <3>3. IsFiniteSet(0 .. r - 1) /\ Cardinality(0 .. r - 1) = r BY <3>2, FS_Interval
    <3> QED BY <3>1, <3>3
  <2>3. IsFiniteSet(P) /\ Cardinality(P) = Cardinality(0 .. cfg.w) * Cardinality(0 .. cfg.readahead - 1)
    BY <2>1, <2>2, FS_Product
  <2> QED BY <2>1, <2>2, <2>3, <1>12, <1>13 DEF SeekMost
<1>16. IsFiniteSet(P \ {x}) /\ Cardinality(P \ {x}) = SeekMost - 1 BY <1>15, FS_RemoveElement
<1> HIDE DEF F, P, x
<1>17. Cardinality(store) <= SeekMost - 1 BY <1>14, <1>16, FS_Injection
<1>18. Cardinality(store) \in Nat /\ SeekMost \in Nat BY <1>1, FS_CardinalityType, BoundsAre
<1> QED BY <1>3, <1>5, <1>17, <1>18

-----------------------------------------------------------------------------
(* The steps of the reader. *)

\* A reader in stream order goes on to read where the window, or its valve below the
\* ceiling, leaves room.
LEMMA SpaceBounded ==
  ASSUME IInv, SInv, ReaderSpace
  PROVE  SInv'
<1>1. /\ TypeInv /\ RoomInv /\ ~Seek /\ Seek' = Seek
      /\ UNCHANGED <<cfg, main, store, window, predispatch>>
  BY DEF IInv, SInv, ReaderSpace, Seek, flags
<1>2. CASE reader'.pc # "read"
  <2>1. RoomInv' BY <1>1, <1>2, RoomKept DEF RoomInv
  <2> QED BY <2>1, <1>1 DEF SInv, LeadInv
<1>3. CASE reader'.pc = "read"
  <2>1. ~NoSpace
    <3>1. reader = [pc |-> reader.pc, gop |-> reader.gop] /\ reader.pc = "space"
      BY <1>1 DEF TypeInv, ReaderSpace
    <3>2. reader' # [reader EXCEPT !.pc = "ending"] /\ reader' # reader BY <3>1, <1>3
    <3> QED BY <3>2 DEF ReaderSpace
  <2>2. /\ FirstWindow \in Nat /\ StoreCap(cfg) \in Nat /\ InOrderMost \in Nat
        /\ InOrderMost >= FirstWindow /\ InOrderMost >= StoreCap(cfg)
        /\ window \in Nat /\ window <= FirstWindow /\ Cardinality(store) \in Nat
    BY <1>1, BoundsAre, FS_CardinalityType DEF RoomInv
  <2>3. Larger(StoreCap(cfg), window) <= InOrderMost
    BY <2>2 DEF Larger
  <2>4. Larger(StoreCap(cfg), window) \in Nat BY <2>2, LargerIs
  <2>5. ~cfg.wait => Cardinality(store) < InOrderMost
    <3>1. ~cfg.wait => Cardinality(store) < window \/ Cardinality(store) < Larger(StoreCap(cfg), window)
      BY <1>1, <2>1, <2>2, <2>4 DEF NoSpace, RoomInv
    <3> QED BY <3>1, <2>2, <2>3, <2>4
  <2>6. InOrderMost' = InOrderMost /\ FirstWindow' = FirstWindow
    BY <1>1 DEF InOrderMost, FirstWindow, StoreCap
  <2>7. RoomInv' BY <1>1, <2>2, <2>5, <2>6 DEF RoomInv
  <2> QED BY <2>7, <1>1 DEF SInv, LeadInv
<1> QED BY <1>2, <1>3

\* One frame is one more.
LEMMA OneMore ==
  ASSUME IsFiniteSet(store), NEW f
  PROVE  /\ IsFiniteSet(store \cup {f}) /\ Cardinality(store) \in Nat
         /\ Cardinality(store \cup {f}) \in Nat /\ Cardinality(store \cup {f}) <= Cardinality(store) + 1
<1>1. IsFiniteSet(store \cup {f})
      /\ Cardinality(store \cup {f}) = IF f \in store THEN Cardinality(store) ELSE Cardinality(store) + 1
  BY FS_AddElement
<1> QED BY <1>1, FS_CardinalityType

LEMMA ReadBounded ==
  ASSUME IInv, SInv, ReaderPublish
  PROVE  SInv'
<1>1. /\ TypeInv /\ RoomInv /\ ~Seek /\ Seek' = Seek /\ reader.pc = "read"
      /\ UNCHANGED <<cfg, main, window, predispatch>> /\ store' = store \cup {nRead}
  BY DEF IInv, SInv, ReaderPublish, Seek, flags
<1>2. reader'.pc # "read"
  <2>1. reader = [pc |-> reader.pc, gop |-> reader.gop] BY <1>1 DEF TypeInv
  <2> QED BY <2>1 DEF ReaderPublish
<1>3. /\ IsFiniteSet(store') /\ Cardinality(store) \in Nat /\ Cardinality(store') \in Nat
      /\ Cardinality(store') <= Cardinality(store) + 1
  BY <1>1, OneMore DEF RoomInv
<1>4. InOrderMost' = InOrderMost /\ FirstWindow' = FirstWindow /\ InOrderMost \in Nat
  BY <1>1, BoundsAre DEF InOrderMost, FirstWindow, StoreCap
<1>5. ~cfg.wait => Cardinality(store') <= InOrderMost
  <2>1. ~cfg.wait => Cardinality(store) < InOrderMost BY <1>1 DEF RoomInv
  <2> QED BY <2>1, <1>3, <1>4
<1>6. RoomInv' BY <1>1, <1>2, <1>3, <1>4, <1>5 DEF RoomInv
<1> QED BY <1>6, <1>1 DEF SInv, LeadInv

\* The seek reader picks a GOP.
LEMMA PickBounded ==
  ASSUME IInv, SInv, SeekSpace
  PROVE  SInv'
<1>1. /\ TypeInv /\ BoundsInv /\ FrontsInv /\ RoomInv /\ LeadIs /\ Seek /\ Seek' = Seek
      /\ UNCHANGED <<cfg, main, bounds, store, rd, cons, window, predispatch, abort, nextGop, job, done>>
  BY DEF IInv, SInv, LeadInv, SeekSpace, Seek, flags, table, output
<1>2. RoomInv' BY <1>1, RoomKept DEF RoomInv
<1>3. CASE reader'.pc # "read"
  <2>1. \A g : Taken(g)' = Taken(g) /\ HasWorker(g)' = HasWorker(g)
    BY <1>1 DEF Taken, HasWorker, Workers
  <2>2. nextGop \in Nat /\ \A g \in 0 .. nGops - 1 : cons[g] \in Nat
    <3>1. nGops \in Nat /\ nGops <= cfg.n /\ cfg.n \in Nat BY <1>1, SettingIs, GopsFit
    <3>2. \A g \in 0 .. nGops - 1 : g \in 0 .. cfg.n BY <3>1
    <3> QED BY <3>2, <1>1 DEF TypeInv
  <2>3. ~abort => \A g \in done : cons[g] = End(g) BY <1>1 DEF LeadIs
  <2>4. ~abort /\ ~Static(cfg) => \A g \in 0 .. nGops - 1 : Taken(g) => g \in done \/ HasWorker(g)
    BY <1>1 DEF LeadIs
  <2>5. LeadInv' BY <1>1, <1>3, <2>1, <2>2, <2>3, <2>4, LeadKept
  <2> QED BY <1>2, <2>5 DEF SInv
<1>4. CASE reader'.pc = "read"
  <2>1. ~abort /\ Candidates # {} /\ reader' = [pc |-> "read", gop |-> SeekPick]
    <3>1. reader = [pc |-> reader.pc, gop |-> reader.gop] /\ reader.pc = "space"
      BY <1>1 DEF TypeInv, SeekSpace
    <3>2. reader' # [reader EXCEPT !.pc = "ending"] /\ reader' # reader BY <3>1, <1>4
    <3> QED BY <3>2 DEF SeekSpace
  <2>2. PICK p \in Candidates : p = SeekPick BY <1>1, <2>1, SeekPickIs
  <2>3. HandedOrNext(p) /\ rd[p] < cons[p] + cfg.readahead /\ Cardinality(store) < SeekMost
    BY <1>1, <2>1, PickFits
  <2>4. reader'.gop = p BY <2>1, <2>2
  <2>5. /\ SeekMost' = SeekMost /\ nGops' = nGops /\ \A g : HandedOrNext(g)' = HandedOrNext(g)
        /\ \A g : Taken(g)' = Taken(g) /\ HasWorker(g)' = HasWorker(g) /\ End(g)' = End(g)
    BY <1>1 DEF SeekMost, nGops, HandedOrNext, Taken, HasWorker, Workers, End
  <2>6. HandedOrNext(reader.gop)' BY <2>3, <2>4, <1>1 DEF HandedOrNext
  <2>7. LeadIs' BY <1>1, <2>3, <2>4, <2>5, <2>6 DEF LeadIs
  <2> QED BY <1>2, <2>7, <1>1 DEF SInv, LeadInv
<1> QED BY <1>3, <1>4

\* The seek reader has read a frame.
LEMMA SeekBounded ==
  ASSUME IInv, SInv, SeekPublish
  PROVE  SInv'
<1>1. /\ TypeInv /\ BoundsInv /\ ReaderInv /\ RoomInv /\ LeadIs /\ Seek /\ Seek' = Seek
      /\ reader.pc = "read"
      /\ UNCHANGED <<cfg, main, bounds, cons, window, predispatch, abort, nextGop, job, done>>
  BY DEF IInv, SInv, LeadInv, SeekPublish, Seek, flags, table, output
<1>2. PICK p, i : p = reader.gop /\ i = rd[p] OBVIOUS
<1>3. store' = store \cup {i} /\ rd' = [rd EXCEPT ![p] = i + 1] /\ reader' = [reader EXCEPT !.pc = "space"]
  BY <1>2 DEF SeekPublish
<1>4. reader'.pc = "space"
  <2>1. reader = [pc |-> reader.pc, gop |-> reader.gop] BY <1>1 DEF TypeInv
  <2> QED BY <2>1, <1>3
<1>5. /\ nGops \in Nat /\ nGops <= cfg.n /\ cfg.n \in Nat /\ cfg.readahead \in Nat /\ SeekMost \in Nat
  BY <1>1, SettingIs, GopsFit, BoundsAre
<1>6. p \in 0 .. nGops - 1 BY <1>1, <1>2 DEF ReaderInv, SeekIs, ToRead
<1>7. \A g \in 0 .. nGops - 1 : g \in 0 .. cfg.n /\ rd[g] \in Nat /\ cons[g] \in Nat
  <2>1. \A g \in 0 .. nGops - 1 : g \in 0 .. cfg.n BY <1>5
  <2> QED BY <2>1, <1>1 DEF TypeInv
<1>8. /\ IsFiniteSet(store') /\ Cardinality(store) \in Nat /\ Cardinality(store') \in Nat
      /\ Cardinality(store') <= Cardinality(store) + 1
  BY <1>1, <1>3, OneMore DEF RoomInv
<1>9. /\ SeekMost' = SeekMost /\ nGops' = nGops /\ FirstWindow' = FirstWindow
      /\ \A g : HandedOrNext(g)' = HandedOrNext(g)
      /\ \A g : Taken(g)' = Taken(g) /\ HasWorker(g)' = HasWorker(g) /\ End(g)' = End(g)
  BY <1>1 DEF SeekMost, nGops, FirstWindow, HandedOrNext, Taken, HasWorker, Workers, End
<1>10. RoomInv' BY <1>1, <1>4, <1>8, <1>9 DEF RoomInv
<1>11. /\ Cardinality(store) < SeekMost /\ HandedOrNext(p) /\ i < cons[p] + cfg.readahead
  BY <1>1, <1>2 DEF LeadIs
<1>12. Cardinality(store') <= SeekMost BY <1>5, <1>8, <1>11
<1>13. \A g \in 0 .. nGops - 1 : /\ rd'[g] <= cons[g] + cfg.readahead
                                 /\ (cons[g] < rd'[g] => HandedOrNext(g))
  <2> SUFFICES ASSUME NEW g \in 0 .. nGops - 1
               PROVE  rd'[g] <= cons[g] + cfg.readahead /\ (cons[g] < rd'[g] => HandedOrNext(g))
    OBVIOUS
  <2>1. CASE g = p
    <3>1. rd'[p] = i + 1
      <4>1. rd \in [0 .. cfg.n -> Nat] /\ p \in 0 .. cfg.n BY <1>1, <1>6, <1>7 DEF TypeInv
      <4> QED BY <4>1, <1>3
    <3>2. i \in Nat /\ cons[p] \in Nat BY <1>2, <1>6, <1>7
    <3>3. i + 1 <= cons[p] + cfg.readahead BY <1>5, <1>11, <3>2
    <3> QED BY <2>1, <3>1, <3>3, <1>11
  <2>2. CASE g # p
    <3>1. rd'[g] = rd[g]
      <4>1. rd \in [0 .. cfg.n -> Nat] /\ g \in 0 .. cfg.n BY <1>1, <1>7 DEF TypeInv
      <4> QED BY <2>2, <4>1, <1>3
    <3> QED BY <3>1, <1>1 DEF LeadIs
  <2> QED BY <2>1, <2>2
<1>14. LeadIs' BY <1>1, <1>4, <1>9, <1>12, <1>13 DEF LeadIs
<1> QED BY <1>10, <1>14, <1>1 DEF SInv, LeadInv

\* The reader ends: nothing is read any more.
LEMMA EndBounded ==
  ASSUME IInv, SInv, ReaderEnd \/ ReaderFail
  PROVE  SInv'
<1>1. /\ TypeInv /\ BoundsInv /\ RoomInv /\ LeadInv
      /\ UNCHANGED <<cfg, main, store, rd, cons, window, predispatch, nextGop, job, done>>
      /\ (abort => abort')
  BY DEF IInv, SInv, ReaderEnd, ReaderFail, flags, table, output
<1>2. reader'.pc = "gone"
  <2>1. reader = [pc |-> reader.pc, gop |-> reader.gop] BY <1>1 DEF TypeInv
  <2> QED BY <2>1 DEF ReaderEnd, ReaderFail
<1>3. RoomInv' BY <1>1, <1>2, RoomKept DEF RoomInv
<1>4. LeadInv'
  <2>1. Seek' = Seek BY <1>1 DEF Seek
  <2> SUFFICES ASSUME Seek PROVE LeadInv' BY <2>1 DEF LeadInv
  <2>2. bounds' = bounds
    <3>1. final BY <1>1 DEF BoundsInv, Pipe, Seek
    <3> QED BY <3>1 DEF ReaderEnd, ReaderFail, table
  <2>3. \A g : Taken(g)' = Taken(g) /\ HasWorker(g)' = HasWorker(g)
    BY <1>1 DEF Taken, HasWorker, Workers
  <2>4. nextGop \in Nat /\ \A g \in 0 .. nGops - 1 : cons[g] \in Nat
    <3>1. nGops \in Nat /\ nGops <= cfg.n /\ cfg.n \in Nat BY <1>1, SettingIs, GopsFit
    <3>2. \A g \in 0 .. nGops - 1 : g \in 0 .. cfg.n BY <3>1
    <3> QED BY <3>2, <1>1 DEF TypeInv
  <2>5. ~abort' => \A g \in done : cons[g] = End(g) BY <1>1 DEF LeadInv, LeadIs
  <2>6. ~abort' /\ ~Static(cfg) => \A g \in 0 .. nGops - 1 : Taken(g) => g \in done \/ HasWorker(g)
    BY <1>1 DEF LeadInv, LeadIs
  <2> QED BY <1>1, <1>2, <2>2, <2>3, <2>4, <2>5, <2>6, LeadKept
<1> QED BY <1>3, <1>4 DEF SInv

-----------------------------------------------------------------------------
(* The steps of the workers and of the main thread. *)

\* A step of another thread than the reader: the frames that are retired, the GOPs that
\* are done, the pulls and the workers.
LEMMA OthersKeep ==
  ASSUME IInv, SInv, UNCHANGED <<cfg, reader, bounds, rd>>, abort => abort',
         store' \subseteq store, window' \in Nat, window' <= window,
         ~cfg.wait => main' # "wait" /\ ~predispatch', nextGop' \in Nat, nextGop <= nextGop',
         \A g \in 0 .. nGops - 1 : cons'[g] \in Nat /\ cons[g] <= cons'[g],
         Seek /\ ~abort' => \A g \in done' : cons'[g] = End(g),
         Seek /\ ~abort' /\ ~Static(cfg) => \A g \in 0 .. nGops - 1 : Taken(g)' => g \in done' \/ HasWorker(g)'
  PROVE  SInv'
  BY RoomKept, LeadKept DEF SInv

LEMMA FrontsAreNat ==
  ASSUME IInv
  PROVE  \A g \in 0 .. nGops - 1 : g \in 0 .. cfg.n /\ cons[g] \in Nat /\ rd[g] \in Nat
<1>1. TypeInv /\ nGops \in Nat /\ nGops <= cfg.n /\ cfg.n \in Nat BY SettingIs, GopsFit DEF IInv
<1>2. \A g \in 0 .. nGops - 1 : g \in 0 .. cfg.n BY <1>1
<1> QED BY <1>1, <1>2 DEF TypeInv

\* Every worker keeps its GOP.
KeepGops == \A v \in Workers : (job'[v].pc \in Active <=> job[v].pc \in Active) /\ job'[v].g = job[v].g

LEMMA SameGops ==
  ASSUME IInv, SInv, UNCHANGED <<cfg, bounds, nextGop, done>>, abort => abort', KeepGops
  PROVE  Seek /\ ~abort' /\ ~Static(cfg) => \A g \in 0 .. nGops - 1 : Taken(g)' => g \in done' \/ HasWorker(g)'
<1> SUFFICES ASSUME Seek, ~abort', ~Static(cfg), NEW g \in 0 .. nGops - 1, Taken(g)'
             PROVE  g \in done' \/ HasWorker(g)'
  OBVIOUS
<1>1. Taken(g) BY DEF Taken
<1>2. g \in done \/ HasWorker(g) BY <1>1 DEF SInv, LeadInv, LeadIs
<1>3. HasWorker(g) => HasWorker(g)' BY DEF HasWorker, KeepGops, Workers
<1> QED BY <1>2, <1>3

LEMMA SameBounded ==
  ASSUME IInv, SInv, UNCHANGED <<cfg, reader, bounds, store, rd, cons, nextGop, done>>, abort => abort',
         window' \in Nat, window' <= window, ~cfg.wait => main' # "wait" /\ ~predispatch', KeepGops
  PROVE  SInv'
<1>1. nextGop \in Nat /\ nextGop <= nextGop BY DEF IInv, TypeInv
<1>2. \A g \in 0 .. nGops - 1 : cons[g] \in Nat /\ cons[g] <= cons[g] BY FrontsAreNat
<1>3. Seek /\ ~abort' => \A g \in done : cons[g] = End(g) BY DEF SInv, LeadInv, LeadIs
<1>4. Seek /\ ~abort' /\ ~Static(cfg) => \A g \in 0 .. nGops - 1 : Taken(g)' => g \in done' \/ HasWorker(g)'
  BY SameGops
<1> QED BY <1>1, <1>2, <1>3, <1>4, OthersKeep

\* What no worker touches.
LEMMA WorkerAside ==
  ASSUME SInv, Aside, UNCHANGED <<window, predispatch>>
  PROVE  /\ UNCHANGED <<cfg, reader, bounds, rd>> /\ (abort => abort')
         /\ window' \in Nat /\ window' <= window /\ (~cfg.wait => main' # "wait" /\ ~predispatch')
  BY DEF SInv, RoomInv, Aside

\* A worker that turns to the next part of its GOP, or leaves.
LEMMA TurnsBounded ==
  ASSUME IInv, SInv, NEW w \in Workers, Predecessor(w) \/ Import(w) \/ Feed(w) \/ Leave(w)
  PROVE  SInv'
<1>1. Aside /\ UNCHANGED <<window, predispatch, store, cons, nextGop, done>>
  BY DEF Predecessor, Import, Feed, Leave, Aside, table, flags, output
<1>2. /\ job = [v \in Workers |-> job[v]] /\ JobIs(job[w])
  BY DEF IInv, TypeInv, JobsAre
<1>3. PICK j : j = job[w] OBVIOUS
<1>4. /\ j = [pc |-> j.pc, k |-> j.k, g |-> j.g, i |-> j.i, end |-> j.end, pred |-> j.pred,
              ahead |-> j.ahead, buf |-> j.buf]
  BY <1>2, <1>3 DEF JobIs
<1>5. \E n : job' = [job EXCEPT ![w] = n] /\ n.g = j.g /\ (n.pc \in Active <=> j.pc \in Active)
  <2>1. CASE Predecessor(w)
    <3>1. j.pc = "carry" BY <2>1, <1>3 DEF Predecessor, At
    <3>2. PICK p, q : p = (IF j.k # NoPull /\ j.k >= cfg.w THEN pullGop[j.k - cfg.w] ELSE None)
                      /\ q = (IF p = None THEN 0 ELSE Ahead(j.k - cfg.w + 1, j.k - 1)) OBVIOUS
    <3>3. PICK n : n = [j EXCEPT !.pc = IF p = None THEN "feed" ELSE "import", !.pred = p, !.ahead = q]
      OBVIOUS
    <3>4. job' = [job EXCEPT ![w] = n] BY <2>1, <1>3, <3>2, <3>3 DEF Predecessor, Moves
    <3>5. n.g = j.g /\ n.pc \in {"feed", "import"} BY <1>4, <3>3
    <3> QED BY <3>1, <3>4, <3>5 DEF Active
  <2>2. CASE Import(w)
    <3>1. j.pc = "import" BY <2>2, <1>3 DEF Import, At
    <3>2. job' = job \/ job' = [job EXCEPT ![w] = [j EXCEPT !.pc = "feed"]]
      BY <2>2, <1>3 DEF Import, Moves
    <3>3. CASE job' = job
      <4>1. job' = [job EXCEPT ![w] = j] BY <3>3, <1>2, <1>3
      <4> QED BY <4>1
    <3>4. CASE job' = [job EXCEPT ![w] = [j EXCEPT !.pc = "feed"]]
      <4>1. PICK n : n = [j EXCEPT !.pc = "feed"] OBVIOUS
      <4>2. n.g = j.g /\ n.pc = "feed" BY <1>4, <4>1
      <4> QED BY <3>1, <3>4, <4>1, <4>2 DEF Active
    <3> QED BY <3>2, <3>3, <3>4
  <2>3. CASE Feed(w)
    <3>1. j.pc = "feed" BY <2>3, <1>3 DEF Feed, At
    <3>2. CASE ~abort /\ ~Ready(j.i) /\ ~eof
      <4>1. job' = [job EXCEPT ![w] = j] BY <2>3, <3>2, <1>3 DEF Feed, Starves, Moves
      <4> QED BY <4>1
    <3>3. CASE ~(~abort /\ ~Ready(j.i) /\ ~eof)
      <4>1. PICK n : n = [j EXCEPT !.pc = IF ~abort /\ Ready(j.i) THEN "code" ELSE "publish"] OBVIOUS
      <4>2. job' = [job EXCEPT ![w] = n] BY <2>3, <3>3, <4>1, <1>3 DEF Feed, GoesOn, Moves
      <4>3. n.g = j.g /\ n.pc \in {"code", "publish"} BY <1>4, <4>1
      <4> QED BY <3>1, <4>2, <4>3 DEF Active
    <3> QED BY <3>2, <3>3
  <2>4. CASE Leave(w)
    <3>1. j.pc = "leaving" BY <2>4, <1>3 DEF Leave, At
    <3>2. PICK n : n = [j EXCEPT !.pc = "gone"] OBVIOUS
    <3>3. job' = [job EXCEPT ![w] = n] BY <2>4, <1>3, <3>2 DEF Leave, Moves
    <3>4. n.g = j.g /\ n.pc = "gone" BY <1>4, <3>2
    <3> QED BY <3>1, <3>3, <3>4 DEF Active
  <2> QED BY <2>1, <2>2, <2>3, <2>4
<1>6. KeepGops BY <1>2, <1>3, <1>5 DEF KeepGops
<1> QED BY <1>1, <1>6, WorkerAside, SameBounded

\* A worker takes a GOP, or leaves where there is none for it.
LEMMA TakesBounded ==
  ASSUME IInv, SInv, NEW w \in Workers, Pull(w) \/ WaitGop(w) \/ WaitFirst(w)
  PROVE  SInv'
<1>0. TypeInv /\ BoundsInv /\ nGops \in Nat BY SettingIs DEF IInv
<1>1. UNCHANGED <<window, predispatch>> BY DEF Pull, WaitGop, WaitFirst, flags
<1>2. PICK n : Takes(w, n) BY TakesIs
<1>3. /\ Aside /\ UNCHANGED <<store, cons, done>> /\ JobIs(n) /\ job' = [job EXCEPT ![w] = n]
      /\ StartedAs(n) /\ LeavesFor(n) /\ (Fresh(w, n) \/ Stays(w, n)) /\ cfg' = cfg
  BY <1>2 DEF Takes, Aside
<1>4. /\ Workers' = Workers /\ job'[w] = n /\ \A v \in Workers \ {w} : job'[v] = job[v]
  BY <1>0, <1>3, JobMoves DEF TypeInv
<1>5. nextGop' \in Nat /\ nextGop <= nextGop'
  BY <1>0, <1>3 DEF TypeInv, Fresh, Stays
<1>6. ASSUME Seek, ~abort, ~Static(cfg), NEW g \in 0 .. nGops - 1, Taken(g)'
      PROVE  g \in done' \/ HasWorker(g)'
  <2>1. g = n.g => HasWorker(g)'
    <3>1. g = n.g => n.g < nGops BY <1>0
    <3>2. g = n.g => n.pc # "leaving" BY <3>1, <1>3, <1>6 DEF LeavesFor
    <3>3. g = n.g => n.pc \in Active BY <3>2, <1>3 DEF StartedAs
    <3> QED BY <3>3, <1>4 DEF HasWorker
  <2>2. g # None BY DEF None
  <2>3. Taken(g) \/ g = n.g BY <2>2, <1>3, <1>6, TakenStays
  <2>4. CASE Taken(g) /\ g # n.g
    <3>1. g \in done \/ HasWorker(g) BY <2>4, <1>6 DEF SInv, LeadInv, LeadIs
    <3>2. CASE g \in done BY <3>2, <1>3
    <3>3. CASE HasWorker(g)
      <4>1. PICK v \in Workers : job[v].pc \in Active /\ job[v].g = g BY <3>3 DEF HasWorker
      <4>2. v # w
        <5>1. v = w => Stays(w, n) BY <4>1, <1>3 DEF Fresh, Active
        <5> QED BY <5>1, <4>1, <2>4 DEF Stays
      <4> QED BY <4>1, <4>2, <1>4 DEF HasWorker
    <3> QED BY <3>1, <3>2, <3>3
  <2> QED BY <2>1, <2>3, <2>4
<1>7. \A g \in 0 .. nGops - 1 : cons'[g] \in Nat /\ cons[g] <= cons'[g] BY <1>3, FrontsAreNat
<1>8. Seek /\ ~abort' => \A g \in done' : cons'[g] = End(g) BY <1>3 DEF SInv, LeadInv, LeadIs, Aside
<1>9. Seek /\ ~abort' /\ ~Static(cfg) => \A g \in 0 .. nGops - 1 : Taken(g)' => g \in done' \/ HasWorker(g)'
  BY <1>3, <1>6 DEF Aside
<1> QED BY <1>1, <1>3, <1>5, <1>7, <1>8, <1>9, WorkerAside, OthersKeep

\* A frame is retired: the front of its GOP moves on.
LEMMA CodeBounded ==
  ASSUME IInv, SInv, NEW w \in Workers, Code(w)
  PROVE  SInv'
<1>0. /\ TypeInv /\ BoundsInv /\ QueueInv /\ FrontsInv /\ JobIs(job[w]) /\ nextGop \in Nat /\ nextGop <= nextGop
      /\ job = [v \in Workers |-> job[v]]
  BY DEF IInv, TypeInv, JobsAre
<1>1. /\ job[w].pc = "code" /\ job[w].pc \in Active BY DEF Code, At, Active
<1>2. /\ Aside /\ UNCHANGED <<window, predispatch, nextGop, done>> /\ cfg' = cfg /\ bounds' = bounds
  BY DEF Code, Aside, table, flags, output
<1>3. PICK j, g, i : j = job[w] /\ g = j.g /\ i = j.i OBVIOUS
<1>4. /\ store' \subseteq store /\ cons' = [cons EXCEPT ![g] = IF Seek THEN i + 1 ELSE @]
  BY <1>3 DEF Code
<1>5. PICK n : n = [j EXCEPT !.buf = Append(@, IF i \in store THEN i ELSE None), !.i = @ + 1,
                              !.pc = IF i + 1 = j.end THEN "publish" ELSE "feed"]
  OBVIOUS
<1>6. job' = [job EXCEPT ![w] = n] BY <1>3, <1>5 DEF Code, Moves
<1>7. n.g = g /\ n.pc \in {"publish", "feed"}
  <2>1. JobIs(j) BY <1>0, <1>3
  <2> QED BY <2>1, <1>3, <1>5 DEF JobIs
<1>8. KeepGops BY <1>0, <1>1, <1>3, <1>6, <1>7 DEF KeepGops, Active
<1>9. g \notin done /\ i \in Nat /\ (Seek => cons[g] = i)
  BY <1>0, <1>1, <1>3 DEF QueueInv, FrontsInv, FrontsAre, JobIs
<1>10. \A h \in 0 .. nGops - 1 : cons'[h] \in Nat /\ cons[h] <= cons'[h]
  <2> SUFFICES ASSUME NEW h \in 0 .. nGops - 1 PROVE cons'[h] \in Nat /\ cons[h] <= cons'[h] OBVIOUS
  <2>1. h \in 0 .. cfg.n /\ cons[h] \in Nat /\ cons \in [0 .. cfg.n -> Nat] BY <1>0, FrontsAreNat DEF TypeInv
  <2>2. CASE h = g /\ Seek
    <3>1. cons'[h] = i + 1 /\ cons[h] = i BY <2>1, <2>2, <1>4, <1>9
    <3> QED BY <3>1, <1>9
  <2>3. CASE ~(h = g /\ Seek)
    <3>1. cons'[h] = cons[h] BY <2>1, <2>3, <1>4
    <3> QED BY <3>1, <2>1
  <2> QED BY <2>2, <2>3
<1>11. Seek /\ ~abort' => \A h \in done' : cons'[h] = End(h)
  <2> SUFFICES ASSUME Seek, ~abort', NEW h \in done PROVE cons'[h] = End(h) BY <1>2
  <2>1. h # g BY <1>9
  <2>2. cons'[h] = cons[h] BY <2>1, <1>4, <1>0 DEF TypeInv
  <2> QED BY <2>2, <1>2 DEF SInv, LeadInv, LeadIs, Aside
<1>12. Seek /\ ~abort' /\ ~Static(cfg) => \A h \in 0 .. nGops - 1 : Taken(h)' => h \in done' \/ HasWorker(h)'
  BY <1>2, <1>8, SameGops DEF Aside
<1> QED BY <1>0, <1>2, <1>4, <1>10, <1>11, <1>12, WorkerAside, OthersKeep

\* A GOP is done: its front is at its end.
LEMMA PublishBounded ==
  ASSUME IInv, SInv, NEW w \in Workers, Publish(w)
  PROVE  SInv'
<1>0. /\ TypeInv /\ BoundsInv /\ QueueInv /\ FrontsInv /\ JobInv /\ JobIs(job[w])
      /\ nextGop \in Nat /\ nextGop <= nextGop /\ job = [v \in Workers |-> job[v]]
  BY DEF IInv, TypeInv, JobsAre
<1>1. /\ job[w].pc = "publish" /\ job[w].pc \in Active BY DEF Publish, At, Active
<1>2. PICK j, g : j = job[w] /\ g = j.g OBVIOUS
<1>3. /\ Aside /\ UNCHANGED <<window, predispatch, store, cons, nextGop>> /\ cfg' = cfg /\ bounds' = bounds
      /\ done' = done \cup {g}
  BY <1>2 DEF Publish, Aside, table, flags
<1>4. \A v \in Workers \ {w} : job'[v] = job[v] BY <1>0 DEF Publish, Moves
<1>5. Seek /\ ~abort => cons[g] = End(g)
  <2>1. cons[g] = j.i \/ ~Seek BY <1>0, <1>1, <1>2 DEF FrontsInv, FrontsAre
  <2>2. ~abort => j.i = End(g) BY <1>0, <1>1, <1>2 DEF JobInv, JobOf
  <2> QED BY <2>1, <2>2
<1>6. \A h \in 0 .. nGops - 1 : cons'[h] \in Nat /\ cons[h] <= cons'[h] BY <1>3, FrontsAreNat
<1>7. Seek /\ ~abort' => \A h \in done' : cons'[h] = End(h)
  BY <1>3, <1>5 DEF SInv, LeadInv, LeadIs, Aside
<1>8. Seek /\ ~abort' /\ ~Static(cfg) => \A h \in 0 .. nGops - 1 : Taken(h)' => h \in done' \/ HasWorker(h)'
  <2> SUFFICES ASSUME Seek, ~abort', ~Static(cfg), NEW h \in 0 .. nGops - 1, Taken(h)'
               PROVE  h \in done' \/ HasWorker(h)'
    OBVIOUS
  <2>1. Taken(h) BY <1>3 DEF Taken
  <2>2. h \in done \/ HasWorker(h) BY <2>1, <1>3 DEF SInv, LeadInv, LeadIs, Aside
  <2>3. CASE h \in done BY <2>3, <1>3
  <2>4. CASE HasWorker(h)
    <3>1. PICK v \in Workers : job[v].pc \in Active /\ job[v].g = h BY <2>4 DEF HasWorker
    <3>2. v = w => h \in done' BY <3>1, <1>2, <1>3
    <3>3. v # w => HasWorker(h)' BY <3>1, <1>3, <1>4 DEF HasWorker, Workers
    <3> QED BY <3>2, <3>3
  <2> QED BY <2>2, <2>3, <2>4
<1>9. store' \subseteq store /\ nextGop' \in Nat /\ nextGop <= nextGop' BY <1>0, <1>3
<1> QED BY <1>3, <1>6, <1>7, <1>8, <1>9, WorkerAside, OthersKeep

\* The main thread: it narrows the window and starts the workers.
LEMMA MainBounded ==
  ASSUME IInv, SInv, MainNext
  PROVE  SInv'
<1>1. /\ TypeInv /\ RoomInv /\ job = [v \in Workers |-> job[v]] /\ \A v \in Workers : JobIs(job[v])
      /\ FirstWindow \in Nat /\ window \in Nat /\ Workers' = Workers
  BY BoundsAre
     DEF IInv, SInv, RoomInv, TypeInv, JobsAre, Workers, MainNext, WaitSplit, StopEarly, Dispatch,
         Emit, Write, WriteFail, Join
<1>2. UNCHANGED <<cfg, reader, bounds, store, rd, cons, nextGop, done>>
  BY DEF MainNext, WaitSplit, StopEarly, Dispatch, Emit, Write, WriteFail, Join, table, output
<1>3. abort => abort'
  BY DEF MainNext, WaitSplit, StopEarly, Dispatch, Emit, Write, WriteFail, Join, flags
<1>4. CASE WaitSplit
  <2>1. window' = window /\ job' = job /\ cfg.wait BY <1>1, <1>4 DEF WaitSplit, RoomInv
  <2>2. KeepGops BY <2>1 DEF KeepGops
  <2> QED BY <1>1, <1>2, <1>3, <2>1, <2>2, SameBounded
<1>5. CASE Dispatch
  <2>1. \A v \in Workers : job[v].pc = "unborn" BY <1>5 DEF IInv, OutInv, Dispatch
  <2>2. \A v \in Workers : job'[v].pc = "pull" /\ job'[v].g = job[v].g
    <3> SUFFICES ASSUME NEW v \in Workers PROVE job'[v].pc = "pull" /\ job'[v].g = job[v].g OBVIOUS
    <3>1. job'[v] = [job[v] EXCEPT !.pc = "pull"] BY <1>5 DEF Dispatch
    <3> QED BY <3>1, <1>1 DEF JobIs
  <2>3. KeepGops BY <2>1, <2>2 DEF KeepGops, Active
  <2>4. window' \in Nat /\ window' <= window
    <3>1. (cfg.w + 1) * cfg.readahead \in Nat BY <1>1, BoundsAre DEF SeekMost
    <3>2. window' = window \/ window' = Smaller(window, (cfg.w + 1) * cfg.readahead)
      BY <1>5 DEF Dispatch
    <3> QED BY <3>1, <3>2, <1>1, SmallerIs
  <2>5. ~cfg.wait => main' # "wait" /\ ~predispatch' BY <1>1, <1>5 DEF Dispatch, RoomInv
  <2> QED BY <1>2, <1>3, <2>3, <2>4, <2>5, SameBounded
<1>6. CASE StopEarly \/ Emit \/ Write \/ WriteFail \/ Join
  <2>1. window' = window /\ predispatch' = predispatch /\ job' = job /\ (main' = main \/ main' # "wait")
    BY <1>6 DEF StopEarly, Emit, Write, WriteFail, Join, flags
  <2>2. KeepGops BY <2>1 DEF KeepGops
  <2>3. ~cfg.wait => main' # "wait" /\ ~predispatch' BY <1>1, <2>1 DEF RoomInv
  <2> QED BY <1>1, <1>2, <1>3, <2>1, <2>2, <2>3, SameBounded
<1> QED BY <1>4, <1>5, <1>6 DEF MainNext

LEMMA StutterBounded ==
  ASSUME IInv, SInv, UNCHANGED vars
  PROVE  SInv'
<1>1. /\ UNCHANGED <<cfg, reader, bounds, store, rd, cons, nextGop, done, abort, window, main, predispatch, job>>
  BY DEF vars
<1>2. KeepGops BY <1>1 DEF KeepGops
<1>3. window' \in Nat /\ window' <= window /\ (~cfg.wait => main' # "wait" /\ ~predispatch')
  BY <1>1 DEF SInv, RoomInv
<1> QED BY <1>1, <1>2, <1>3, SameBounded

\* Nothing is read, no GOP is handed out.
LEMMA InitBounded == Init => SInv
<1> SUFFICES ASSUME Init PROVE SInv OBVIOUS
<1>0. IInv BY InitIs
<1>1. PICK c \in Settings :
         /\ cfg = c
         /\ reader = [pc |-> IF c.n = 0 THEN "ending" ELSE "space", gop |-> None]
         /\ main = IF c.wait THEN "wait" ELSE "plan"
         /\ store = {} /\ cons = rd /\ predispatch = FALSE /\ nextGop = 0 /\ done = {}
         /\ window = IF c.kind # "pipe" /\ c.window = 0
                       THEN Smaller(IF c.window > 0 THEN c.window ELSE (c.w + 1) * c.keyint,
                                    (c.w + 1) * c.readahead)
                       ELSE IF c.window > 0 THEN c.window ELSE (c.w + 1) * c.keyint
  BY DEF Init
<1>2. /\ FirstWindow \in Nat /\ InOrderMost \in Nat /\ SeekMost \in Nat /\ cfg.readahead \in Nat
      /\ cfg.w \in Nat \ {0} /\ cfg.keyint \in Nat \ {0} /\ cfg.window \in Nat /\ StoreCap(cfg) \in Nat
      /\ InOrderMost >= FirstWindow
  BY <1>0, BoundsAre, SettingIs DEF IInv
<1>3. window \in Nat /\ window <= FirstWindow
  <2>1. window = FirstWindow \/ window = Smaller(FirstWindow, SeekMost)
    BY <1>1 DEF FirstWindow, SeekMost
  <2>2. PICK a, b \in Nat : a = FirstWindow /\ b = SeekMost BY <1>2
  <2>3. Smaller(a, b) \in Nat /\ Smaller(a, b) <= a BY SmallerIs
  <2>4. CASE window = FirstWindow BY <2>4, <1>2
  <2>5. CASE window = Smaller(FirstWindow, SeekMost) BY <2>2, <2>3, <2>5
  <2> QED BY <2>1, <2>4, <2>5
<1>4. reader.pc # "read" BY <1>1
<1>5. IsFiniteSet(store) /\ Cardinality(store) = 0 BY <1>1, FS_EmptySet
<1>6. RoomInv BY <1>1, <1>2, <1>3, <1>4, <1>5 DEF RoomInv
<1>7. \A g \in 0 .. nGops - 1 : rd[g] <= cons[g] + cfg.readahead /\ ~(cons[g] < rd[g])
  BY <1>0, <1>1, <1>2, FrontsAreNat
<1>8. ~Static(cfg) => \A g : ~Taken(g)
  <2>1. 0 .. nextGop - 1 = {} BY <1>1
  <2> QED BY <2>1 DEF Taken
<1>9. LeadIs BY <1>1, <1>2, <1>4, <1>5, <1>7, <1>8 DEF LeadIs
<1> QED BY <1>6, <1>9 DEF SInv, LeadInv

\* Beside the invariant: in stream order the window only narrows and there is room for
\* a frame that is being read; a seek reader is ahead only of GOPs that have a worker,
\* and of the next one, by the read-ahead at most (y4m_reader, seek_reader, seek_pick).
THEOREM GopStoreInvariant == Spec => [](IInv /\ SInv)
<1>1. IInv /\ SInv /\ [Next]_vars => SInv'
  <2> SUFFICES ASSUME IInv, SInv, [Next]_vars PROVE SInv' OBVIOUS
  <2>1. CASE ReaderNext
    BY <2>1, SpaceBounded, ReadBounded, PickBounded, SeekBounded, EndBounded DEF ReaderNext
  <2>2. CASE MainNext BY <2>2, MainBounded
  <2>3. CASE \E w \in Workers : WorkerNext(w)
    BY <2>3, TakesBounded, TurnsBounded, CodeBounded, PublishBounded DEF WorkerNext
  <2>4. CASE UNCHANGED vars BY <2>4, StutterBounded
  <2> QED BY <2>1, <2>2, <2>3, <2>4 DEF Next
<1> QED BY <1>1, InitBounded, GopInvariant, PTL DEF Spec

\* The store is bounded, for every input, number of workers, window and read-ahead: by
\* the ceiling or the first window in stream order, valve and all; with a seek reader
\* by the read-ahead of the GOPs in flight and one more (y4m_reader, seek_pick).
THEOREM GopStore == Spec => []StoreBounded
<1>1. SInv => StoreBounded
  BY DEF SInv, RoomInv, LeadInv, LeadIs, StoreBounded, InOrderMost, SeekMost, FirstWindow
<1> QED BY <1>1, GopStoreInvariant, PTL

=============================================================================
