--------------------------- MODULE StairBufProofs ---------------------------
(***************************************************************************)
(* What is proved of the buffers a burst reads, in every wide ring whose   *)
(* list 0 is shorter than the reference buffer's window: the planes a live *)
(* burst borrowed, its own pictures' and the motion it reads are written   *)
(* by nobody else until it retires (BuffersKept).                          *)
(***************************************************************************)
EXTENDS StairRingProofs

-----------------------------------------------------------------------------
(* The parts of the invariants.                                            *)

LEMMA PooledIs ==
    ASSUME IInv, Pooled
    PROVE  /\ cfg.wide /\ cfg.ref \in Nat /\ Window \in Nat /\ cfg.ref < Window
           /\ NRefB(cfg.bframes) \in 0 .. 3 /\ PerLaunch = 1 + NRefB(cfg.bframes)
           /\ PoolSize = cfg.ring * PerLaunch /\ cfg.ring \in Nat /\ cfg.ring >= 2
           /\ cfg.bframes \in 2 .. 7 /\ NLeaf = cfg.bframes
<1>1. /\ cfg.ref \in Nat /\ cfg.ref >= 1 /\ cfg.bframes \in 2 .. 7 /\ cfg.cap \in Nat
      /\ cfg.ring \in Nat /\ cfg.ring >= 2
    BY SettingsAssumption DEF IInv, TypeInv
<1>2. NRefB(cfg.bframes) \in 0 .. 3
  <2>1. PICK b \in 2 .. 7 : b = cfg.bframes
      BY <1>1
  <2>2. NRefB(b) = Heads(b)
      BY NRefBIs
  <2> QED
      BY <2>1, <2>2 DEF Heads
<1>3. Window \in Nat /\ cfg.ref < Window
  <2>1. Window = Min({cfg.ref + 1 + cfg.bframes, cfg.cap})
      BY DEF Window, Pooled
  <2>2. PICK y \in Nat : y = cfg.ref + 1 + cfg.bframes
      BY <1>1
  <2>3. Min({y, cfg.cap}) = IF y <= cfg.cap THEN y ELSE cfg.cap
      BY <1>1 DEF Min
  <2> QED
      BY <1>1, <2>1, <2>2, <2>3 DEF Pooled
<1> QED
    BY <1>1, <1>2, <1>3 DEF Pooled, PerLaunch, PoolSize, NLeaf

\* A burst has prepared no more reference B's than a launch has bags for.
LEMMA CountIs ==
    ASSUME IInv, ChainInv, Pooled, NEW s \in Slots, bur[s].seq > 0
    PROVE  Count(s) \in Nat /\ Count(s) < PerLaunch /\ RefBs(s) \in Nat /\ RefBs(s) < PerLaunch
<1>1. ChainOf(s)
    BY DEF ChainInv
<1>2. PICK n, b : n = bur[s].nbuf /\ b = cfg.bframes
    OBVIOUS
<1>3. b \in 2 .. 7 /\ n \in 1 .. b
    BY <1>1, <1>2, PooledIs DEF ChainOf
<1>4. NRefB(n) = Heads(n) /\ NRefB(b) = Heads(b)
    BY <1>3, NRefBIs
<1>5. Heads(n) <= Heads(b) /\ Heads(n) \in Nat /\ Heads(b) \in Nat
    BY <1>3 DEF Heads
<1>6. RefBs(s) = Heads(n) /\ PerLaunch = 1 + Heads(b)
    BY <1>2, <1>4 DEF RefBs, PerLaunch
<1>7. Count(s) \in Nat /\ Count(s) <= RefBs(s)
    BY <1>1, MarkedIs
<1> QED
    BY <1>5, <1>6, <1>7

LEMMA RoomOf ==
    ASSUME NEW a \in Nat, NEW r \in Nat, NEW p \in Nat, NEW c \in Nat, a + 1 <= r, c < p, p <= 4
    PROVE  a * p + c < r * p
<1>1. p = 1 \/ p = 2 \/ p = 3 \/ p = 4
    OBVIOUS
<1> QED
    BY <1>1

\* A launch and a prepare always find a bag that is free or can be let go.
LEMMA Serves ==
    ASSUME IInv, RInv, Pooled, PoolInv
    PROVE  PoolServes
<1>1. SUFFICES ASSUME Swept = {} PROVE FALSE
    BY DEF PoolServes
<1>2. free = {} /\ \A x \in pend : ~LetGo(x)
    BY <1>1 DEF Swept
<1>3. Bags = pend
    BY <1>2 DEF Bags
<1>4. IsFiniteSet(pend) /\ Cardinality(pend) = PoolSize /\ \A x \in pend : x.seq \in 0 .. seq
    BY <1>3 DEF PoolInv
<1>5. PICK r \in Nat, p \in Nat, c \in Nat : r = cfg.ring /\ p = PerLaunch /\ c = Count(slot)
    BY PooledIs, MarkedIs, PartsIs DEF ChainInv, IInv, TypeInv
<1>6. PoolSize = r * p /\ p \in 1 .. 4 /\ r >= 2 /\ c < p
    BY <1>5, PooledIs DEF PoolInv
<1>7. pend # {}
  <2>1. r * p # 0
    <3>1. 0 * p + 0 < r * p
        BY <1>6, RoomOf
    <3> QED
        BY <3>1
  <2> QED
      BY <1>4, <1>6, <2>1, FS_EmptySet
<1>8. LiveSlots # {}
    BY <1>2, <1>7 DEF LetGo
<1>9. PICK o : o = Oldest /\ o \in LiveSlots /\ \A t \in LiveSlots : bur[o].seq <= bur[t].seq
    BY <1>8, OldestIs DEF IInv
<1>10. /\ o \in Slots /\ bur[o].live /\ seq \in Nat /\ bur[o].seq \in Nat
       /\ Ago(o) \in 0 .. r - 1 /\ Ago(o) < seq /\ bur[o].seq = seq - Ago(o)
  <2>1. o \in Slots /\ bur[o].live /\ seq \in Nat /\ bur[o].seq \in Nat /\ Ago(o) \in 0 .. r - 1
      BY <1>5, <1>9, AgoIs, Zenon DEF LiveSlots, IInv, TypeInv, BurstIs
  <2> QED
      BY <2>1 DEF IInv, PlaceInv
<1>11. pend = ParkedSince(bur[o].seq)
  <2>1. ASSUME NEW x \in pend PROVE x.seq >= bur[o].seq
    <3>1. PICK t \in LiveSlots : ~(x.seq < bur[t].seq)
        BY <1>2, <2>1 DEF LetGo
    <3>2. bur[t].seq \in Nat /\ x.seq \in Nat /\ bur[o].seq <= bur[t].seq
      <4>1. bur[t].seq \in Nat
          BY Zenon DEF LiveSlots, IInv, TypeInv, BurstIs
      <4>2. x.seq \in 0 .. seq
          BY <1>4
      <4> QED
          BY <1>9, <1>10, <4>1, <4>2
    <3> QED
        BY <1>10, <3>1, <3>2
  <2> QED
      BY <2>1 DEF ParkedSince
<1>12. PICK a \in Nat : a = Ago(o) /\ a + 1 <= r /\ seq - bur[o].seq = a /\ bur[o].seq \in 0 .. seq
    BY <1>5, <1>10
<1>13. Cardinality(pend) <= a * p + c
    BY <1>5, <1>11, <1>12 DEF PoolInv
<1>14. a * p + c < r * p
    BY <1>6, <1>12, RoomOf
<1>15. a * p \in Nat /\ r * p \in Nat
    OBVIOUS
<1> QED
    BY <1>4, <1>6, <1>13, <1>14, <1>15

LEMMA TakenIs ==
    ASSUME PoolInv, seq \in Nat, PoolServes
    PROVE  Taken \in Swept
<1>1. \A y \in Swept : y.seq \in 0 .. seq
    BY DEF Swept, PoolInv, Bags
<1>2. PICK S : S = {seq - y.seq : y \in Swept}
    BY Zenon
<1>3. S \subseteq Nat /\ S # {}
    BY <1>1, <1>2 DEF PoolServes
<1>4. PICK m \in S : \A n \in S : m <= n
    BY <1>3, Least, Zenon
<1>5. PICK x \in Swept : m = seq - x.seq
    BY <1>2, <1>4
<1>6. \A y \in Swept : y.seq <= x.seq
  <2>1. SUFFICES ASSUME NEW y \in Swept PROVE y.seq <= x.seq
      OBVIOUS
  <2>2. seq - x.seq <= seq - y.seq
      BY <1>2, <1>4, <1>5, Zenon
  <2> QED
      BY <1>1, <2>2
<1> QED
    BY <1>5, <1>6 DEF Taken

-----------------------------------------------------------------------------
(* Buffers change places.                                                   *)

\* The plane of the target k goes to the entry d with the half-pel and motion
\* planes of the bag b, whose plane is the next target; what the entry had makes
\* the bag n.
Trades(D, B, T, E, C, U, d, b, n, k) ==
  /\ d \in DOMAIN D /\ b \in B /\ k \in DOMAIN T
  /\ DOMAIN E = DOMAIN D /\ E[d].plane = T[k] /\ E[d].aux = b.aux
  /\ \A e \in DOMAIN D : e # d => E[e].plane = D[e].plane /\ E[e].aux = D[e].aux
  /\ C = (B \ {b}) \cup {n} /\ n.plane = D[d].plane /\ n.aux = D[d].aux
  /\ DOMAIN U = DOMAIN T /\ U[k] = b.plane /\ \A l \in DOMAIN T : l # k => U[l] = T[l]

LEMMA TradeKeeps ==
    ASSUME NEW D, NEW B, NEW T, NEW E, NEW C, NEW U, NEW d, NEW b, NEW n, NEW k,
           Apart(D, B, T), Trades(D, B, T, E, C, U, d, b, n, k)
    PROVE  Apart(E, C, U)
<1>1. PlanesApart(D, B, T) /\ AuxesApart(D, B) /\ PlanesKnown(D, B, T)
    BY DEF Apart
<1>2. PlanesKnown(E, C, U)
    BY <1>1 DEF Trades, PlanesKnown
<1>3. AuxesApart(E, C)
    BY <1>1 DEF Trades, AuxesApart
<1>4. PlanesApart(E, C, U)
  <2>1. \A e, f \in DOMAIN E : E[e].plane = E[f].plane => e = f
      BY <1>1 DEF Trades, PlanesApart
  <2>2. \A y, z \in C : y.plane = z.plane => y = z
      BY <1>1 DEF Trades, PlanesApart
  <2>3. \A l, m \in DOMAIN U : U[l] = U[m] => l = m
      BY <1>1 DEF Trades, PlanesApart
  <2>4. \A e \in DOMAIN E : \A y \in C : E[e].plane # y.plane
      BY <1>1 DEF Trades, PlanesApart
  <2>5. \A e \in DOMAIN E : \A l \in DOMAIN U : E[e].plane # U[l]
      BY <1>1 DEF Trades, PlanesApart
  <2>6. \A y \in C : \A l \in DOMAIN U : y.plane # U[l]
      BY <1>1 DEF Trades, PlanesApart
  <2> QED
      BY <2>1, <2>2, <2>3, <2>4, <2>5, <2>6 DEF PlanesApart
<1> QED
    BY <1>2, <1>3, <1>4 DEF Apart

\* With nothing in flight the entry's plane is the next target itself.
LEMMA SwapKeeps ==
    ASSUME NEW D, NEW B, NEW T, NEW E, NEW U, Apart(D, B, T), NEW d \in DOMAIN D, NEW k \in DOMAIN T,
           DOMAIN E = DOMAIN D, E[d].plane = T[k],
           \A e \in DOMAIN D : E[e].aux = D[e].aux /\ (e # d => E[e].plane = D[e].plane),
           DOMAIN U = DOMAIN T, U[k] = D[d].plane, \A l \in DOMAIN T : l # k => U[l] = T[l]
    PROVE  Apart(E, B, U)
<1>1. PlanesApart(D, B, T) /\ AuxesApart(D, B) /\ PlanesKnown(D, B, T)
    BY DEF Apart
<1>2. PlanesKnown(E, B, U) /\ AuxesApart(E, B)
    BY <1>1 DEF PlanesKnown, AuxesApart
<1>3. PlanesApart(E, B, U)
    BY <1>1 DEF PlanesApart
<1> QED
    BY <1>2, <1>3 DEF Apart

\* The slide moves nothing.
LEMMA SlidMoves ==
    ASSUME IInv, WindowInv
    PROVE  /\ DOMAIN dpb = 1 .. DpbSize /\ DOMAIN Slid = DOMAIN dpb
           /\ \A e \in DOMAIN dpb : /\ Slid[e].plane = dpb[e].plane /\ Slid[e].aux = dpb[e].aux
                                    /\ Slid[e].pic = dpb[e].pic
<1>1. PICK D, v : D = dpb /\ v = Victim
    OBVIOUS
<1>2. /\ DOMAIN D = 1 .. DpbSize /\ D = [i \in 1 .. DpbSize |-> D[i]]
      /\ \A i \in 1 .. DpbSize : EntryIs(D[i])
    BY <1>1, UsedIs DEF WindowInv
<1>3. PICK S : S = Slid /\ (S = D \/ S = [D EXCEPT ![v].used = FALSE])
    BY <1>1, Zenon DEF Slid
<1>4. ASSUME NEW T, T = [D EXCEPT ![v].used = FALSE], NEW e \in DOMAIN D
      PROVE  DOMAIN T = DOMAIN D /\ T[e].plane = D[e].plane /\ T[e].aux = D[e].aux /\ T[e].pic = D[e].pic
  <2>1. DOMAIN T = DOMAIN D /\ (e # v => T[e] = D[e])
      BY <1>2, <1>4
  <2>2. CASE e = v
    <3>1. PICK w : w = D[e]
        OBVIOUS
    <3>2. T[e] = [w EXCEPT !.used = FALSE] /\ EntryIs(w)
        BY <1>2, <1>4, <2>2, <3>1
    <3> QED
        BY <2>1, <3>1, <3>2 DEF EntryIs
  <2> QED
      BY <2>1, <2>2
<1>5. DOMAIN S = DOMAIN D
    BY <1>2, <1>3
<1>6. \A e \in DOMAIN D : S[e].plane = D[e].plane /\ S[e].aux = D[e].aux /\ S[e].pic = D[e].pic
  <2>1. CASE S = D
      BY <2>1
  <2>2. CASE S = [D EXCEPT ![v].used = FALSE]
      BY <1>4, <2>2
  <2> QED
      BY <1>3, <2>1, <2>2
<1> QED
    BY <1>1, <1>2, <1>3, <1>5, <1>6

\* The picture p in plane takes the entry d, the bag b is taken and n is parked.
Put(d, b, n, plane, p) ==
  /\ d \in DOMAIN dpb /\ ~Slid[d].used /\ b \in Swept
  /\ DOMAIN dpb' = DOMAIN dpb
  /\ dpb'[d].plane = plane /\ dpb'[d].aux = b.aux /\ dpb'[d].pic = p
  /\ \A e \in DOMAIN dpb : e # d => /\ dpb'[e].plane = dpb[e].plane /\ dpb'[e].aux = dpb[e].aux
                                    /\ dpb'[e].pic = dpb[e].pic
  /\ free' = Swept \ {b} /\ pend' = Parked \cup {n}
  /\ n.plane = dpb[d].plane /\ n.aux = dpb[d].aux /\ n.seq = seq
  /\ NextTarget = b.plane /\ TargetAux = b.aux

LEMMA PutsIs ==
    ASSUME IInv, RInv, Pooled, PoolInv, NEW p, NEW plane, NEW before, Enter(p, plane, before)
    PROVE  \E d, b, n : Put(d, b, n, plane, p)
<1>1. WindowInv /\ PoolServes /\ seq \in Nat
    BY Serves, PartsIs DEF IInv, TypeInv
<1>2. PICK T, d : T = Slid /\ d = Min({i \in DOMAIN T : ~T[i].used})
    BY Zenon
<1>3. d \in 1 .. DpbSize /\ ~T[d].used /\ Handout = d
    BY <1>1, <1>2, HandoutIs
<1>4. /\ DOMAIN dpb = 1 .. DpbSize /\ DOMAIN T = DOMAIN dpb /\ T = [i \in 1 .. DpbSize |-> T[i]]
      /\ \A e \in DOMAIN dpb : T[e].plane = dpb[e].plane /\ T[e].aux = dpb[e].aux /\ T[e].pic = dpb[e].pic
    BY <1>1, <1>2, SlidMoves, SlidIs, Zenon
<1>5. PICK b : b = Taken /\ b \in Swept
    BY <1>1, TakenIs
<1>6. TargetAux = b.aux /\ NextTarget = b.plane
    BY <1>1, <1>5 DEF TargetAux, NextTarget
<1>7. PICK n : n = [plane |-> dpb[d].plane, aux |-> dpb[d].aux, seq |-> seq]
    BY Zenon
<1>8. free' = Swept \ {b} /\ pend' = Parked \cup {n}
    BY <1>1, <1>3, <1>5, <1>7 DEF Enter
<1>9. PICK x : x = [used |-> TRUE, pic |-> p, fn |-> nextFn, plane |-> plane, aux |-> b.aux]
    BY Zenon
<1>10. dpb' = [T EXCEPT ![d] = x]
    BY <1>2, <1>3, <1>6, <1>9 DEF Enter
<1>11. DOMAIN dpb' = DOMAIN dpb /\ dpb'[d] = x /\ \A e \in DOMAIN dpb : e # d => dpb'[e] = T[e]
    BY <1>3, <1>4, <1>10
<1>12. n.plane = dpb[d].plane /\ n.aux = dpb[d].aux /\ n.seq = seq
    BY <1>7
<1>13. x.plane = plane /\ x.aux = b.aux /\ x.pic = p
    BY <1>9
<1>14. Put(d, b, n, plane, p)
    BY <1>2, <1>3, <1>4, <1>5, <1>6, <1>8, <1>11, <1>12, <1>13, ZenonT(30) DEF Put
<1> QED
    BY <1>14

LEMMA SeqIs ==
    ASSUME IInv, NEW s \in LiveSlots
    PROVE  s \in Slots /\ bur[s].seq \in Nat /\ seq \in Nat /\ bur[s].seq <= seq /\ bur[s].seq > 0
<1>0. cfg \in Settings /\ slot \in Slots /\ s \in Slots /\ bur[s].live /\ seq \in Nat /\ bur[s].seq \in Nat
    BY Zenon DEF LiveSlots, IInv, TypeInv, BurstIs
<1>1. s \in Slots /\ bur[s].live /\ seq \in Nat /\ bur[s].seq \in Nat /\ Ago(s) \in Nat
    BY <1>0, AgoIs, CfgIs
<1>2. Ago(s) < seq /\ bur[s].seq = seq - Ago(s)
    BY <1>1 DEF IInv, PlaceInv
<1> QED
    BY <1>1, <1>2

\* The bags behind a picture's entry.
LEMMA PutBags ==
    ASSUME IInv, PoolInv, OwnsInv, NEW d, NEW b, NEW n, NEW plane, NEW p, Put(d, b, n, plane, p)
    PROVE  /\ Bags' = (Bags \ {b}) \cup {n} /\ b \in Bags /\ n \notin Bags
           /\ b \notin pend' /\ free' \cap pend' = {}
<1>1. Bags = Swept \cup Parked /\ Swept \cap Parked = {}
    BY DEF PoolInv, Bags, Swept, Parked
<1>2. b \in Swept /\ free' = Swept \ {b} /\ pend' = Parked \cup {n}
    BY DEF Put
<1>3. n \notin Bags
  <2>1. d \in DOMAIN dpb /\ n.plane = dpb[d].plane
      BY DEF Put
  <2> QED
      BY <2>1 DEF OwnsInv, Apart, PlanesApart
<1> QED
    BY <1>1, <1>2, <1>3 DEF Bags

LEMMA PutPool ==
    ASSUME IInv, PoolInv, OwnsInv, NEW d, NEW b, NEW n, NEW plane, NEW p, Put(d, b, n, plane, p)
    PROVE  /\ IsFiniteSet(Bags') /\ Cardinality(Bags') = PoolSize
           /\ \A x \in Bags' : x.seq \in 0 .. seq
           /\ \A q \in Nat : /\ Cardinality(ParkedSince(q)') \in Nat /\ Cardinality(ParkedSince(q)) \in Nat
                             /\ Cardinality(ParkedSince(q)') <= Cardinality(ParkedSince(q)) + 1
<1>1. Bags' = (Bags \ {b}) \cup {n} /\ b \in Bags /\ n \notin Bags
    BY PutBags
<1>2. IsFiniteSet(Bags) /\ Cardinality(Bags) = PoolSize /\ Cardinality(Bags) \in Nat
    BY FS_CardinalityType DEF PoolInv
<1>3. PICK C : C = Bags \ {b}
    BY Zenon
<1>4. IsFiniteSet(C) /\ Cardinality(C) = Cardinality(Bags) - 1
    BY <1>1, <1>2, <1>3, FS_RemoveElement
<1>5. IsFiniteSet(C \cup {n}) /\ Cardinality(C \cup {n}) = Cardinality(C) + 1
    BY <1>1, <1>3, <1>4, FS_AddElement
<1>6. IsFiniteSet(Bags') /\ Cardinality(Bags') = PoolSize
    BY <1>1, <1>2, <1>3, <1>4, <1>5
<1>7. \A x \in Bags' : x.seq \in 0 .. seq
  <2>1. n.seq \in 0 .. seq
      BY DEF Put, IInv, TypeInv
  <2> QED
      BY <1>1, <2>1 DEF PoolInv
<1>8. ASSUME NEW q \in Nat
      PROVE  /\ Cardinality(ParkedSince(q)') \in Nat /\ Cardinality(ParkedSince(q)) \in Nat
             /\ Cardinality(ParkedSince(q)') <= Cardinality(ParkedSince(q)) + 1
  <2>1. PICK P : P = ParkedSince(q)
      OBVIOUS
  <2>2. IsFiniteSet(P)
    <3>1. P \subseteq Bags
        BY <2>1 DEF ParkedSince, Bags
    <3> QED
        BY <1>2, <3>1, FS_Subset
  <2>3. ParkedSince(q)' \subseteq P \cup {n}
      BY <2>1 DEF ParkedSince, Put, Parked
  <2>4. IsFiniteSet(P \cup {n}) /\ Cardinality(P \cup {n}) <= Cardinality(P) + 1 /\ Cardinality(P) \in Nat
    <3>1. Cardinality(P) \in Nat
        BY <2>2, FS_CardinalityType
    <3>2. CASE n \in P
      <4>1. P \cup {n} = P
          BY <3>2
      <4>2. PICK k \in Nat : k = Cardinality(P)
          BY <3>1
      <4>3. Cardinality(P \cup {n}) = k /\ IsFiniteSet(P \cup {n})
          BY <2>2, <4>1, <4>2
      <4> QED
          BY <4>2, <4>3
    <3>3. CASE n \notin P
        BY <2>2, <3>1, <3>3, FS_AddElement
    <3> QED
        BY <3>2, <3>3
  <2>5. Cardinality(P \cup {n}) \in Nat
      BY <2>4, FS_CardinalityType
  <2>6. Cardinality(ParkedSince(q)') \in Nat /\ Cardinality(ParkedSince(q)') <= Cardinality(P \cup {n})
      BY <2>3, <2>4, FS_Subset, FS_CardinalityType
  <2> QED
      BY <2>1, <2>4, <2>5, <2>6
<1> QED
    BY <1>6, <1>7, <1>8

\* What is kept since a live burst's launch stays kept.
LEMMA PutKeeps ==
    ASSUME IInv, PoolInv, OwnsInv, NEW d, NEW b, NEW n, NEW plane, NEW p, Put(d, b, n, plane, p),
           NEW s \in LiveSlots, NEW q, q = bur[s].seq, NEW x, NEW a, Keeps(q, x, a)
    PROVE  Keeps(q, x, a)'
<1>1. /\ DOMAIN dpb' = DOMAIN dpb /\ d \in DOMAIN dpb /\ pend' = Parked \cup {n}
      /\ n.plane = dpb[d].plane /\ n.aux = dpb[d].aux /\ n.seq = seq
      /\ \A e \in DOMAIN dpb : e # d => dpb'[e].plane = dpb[e].plane /\ dpb'[e].aux = dpb[e].aux
    BY DEF Put
<1>2. q \in Nat /\ q <= seq /\ seq \in Nat
    BY SeqIs
<1>3. CASE \E e \in DOMAIN dpb : dpb[e].plane = x /\ dpb[e].aux = a
  <2>1. PICK e \in DOMAIN dpb : dpb[e].plane = x /\ dpb[e].aux = a
      BY <1>3
  <2>2. CASE e = d
    <3>1. n \in pend' /\ n.plane = x /\ n.aux = a /\ n.seq >= q
        BY <1>1, <1>2, <2>1, <2>2
    <3> QED
        BY <3>1 DEF Keeps
  <2>3. CASE e # d
      BY <1>1, <2>1, <2>3 DEF Keeps
  <2> QED
      BY <2>2, <2>3
<1>4. CASE \E y \in pend : y.plane = x /\ y.aux = a /\ y.seq >= q
  <2>1. PICK y \in pend : y.plane = x /\ y.aux = a /\ y.seq >= q
      BY <1>4
  <2>2. y.seq \in Nat
      BY DEF PoolInv, Bags
  <2>3. ~LetGo(y)
      BY <1>2, <2>1, <2>2 DEF LetGo
  <2>4. y \in pend'
      BY <1>1, <2>3 DEF Parked
  <2> QED
      BY <2>1, <2>4 DEF Keeps
<1> QED
    BY <1>3, <1>4 DEF Keeps

\* Beside what the picture takes with it, every place is an old one.
LEMMA PutShelved ==
    ASSUME IInv, PoolInv, OwnsInv, NEW d, NEW b, NEW n, NEW plane, NEW p, Put(d, b, n, plane, p)
    PROVE  /\ \A x : Shelved(x)' => x = plane \/ (Shelved(x) /\ x # b.plane)
           /\ \A x, a : Holds(x, a)' => (x = plane /\ a = b.aux) \/ (Holds(x, a) /\ a # b.aux)
<1>1. /\ DOMAIN dpb' = DOMAIN dpb /\ d \in DOMAIN dpb /\ dpb'[d].plane = plane /\ dpb'[d].aux = b.aux
      /\ n.plane = dpb[d].plane /\ n.aux = dpb[d].aux
      /\ \A e \in DOMAIN dpb : e # d => dpb'[e].plane = dpb[e].plane /\ dpb'[e].aux = dpb[e].aux
    BY DEF Put
<1>2. Bags' = (Bags \ {b}) \cup {n} /\ b \in Bags
    BY PutBags
<1>3. PlanesApart(dpb, Bags, Target) /\ AuxesApart(dpb, Bags)
    BY DEF OwnsInv, Apart
<1>4. /\ \A e \in DOMAIN dpb : dpb[e].plane # b.plane /\ dpb[e].aux # b.aux
      /\ \A y \in Bags : y # b => y.plane # b.plane /\ y.aux # b.aux
    BY <1>2, <1>3 DEF PlanesApart, AuxesApart
<1>5. ASSUME NEW x, Shelved(x)' PROVE x = plane \/ (Shelved(x) /\ x # b.plane)
    BY <1>1, <1>2, <1>4, <1>5 DEF Shelved
<1>6. ASSUME NEW x, NEW a, Holds(x, a)' PROVE (x = plane /\ a = b.aux) \/ (Holds(x, a) /\ a # b.aux)
    BY <1>1, <1>2, <1>4, <1>6 DEF Holds
<1> QED
    BY <1>5, <1>6

-----------------------------------------------------------------------------
(* What a burst has been lent stays.                                        *)

\* Only the plane named is written, and no entry or bag has it.
Spares(plane) ==
  /\ Planes' = Planes /\ Auxes' = Auxes /\ ~Shelved(plane)
  /\ \A x \in Planes : x # plane => planeOf'[x] = planeOf[x]
Retains(q) == \A x, a : Keeps(q, x, a) => Keeps(q, x, a)'

LEMMA KeepsIs ==
    ASSUME OwnsInv, NEW q, NEW x, NEW a, Keeps(q, x, a)
    PROVE  Holds(x, a) /\ Shelved(x) /\ x \in Planes /\ a \in Auxes
<1>1. PlanesKnown(dpb, Bags, Target)
    BY DEF OwnsInv, Apart
<1> QED
    BY <1>1 DEF Keeps, Holds, Shelved, PlanesKnown, Bags

LEMMA ShelvedIs ==
    ASSUME OwnsInv, NEW x, Shelved(x)
    PROVE  x \in Planes
<1>1. PlanesKnown(dpb, Bags, Target)
    BY DEF OwnsInv, Apart
<1> QED
    BY <1>1 DEF Shelved, PlanesKnown

LEMMA LentStays ==
    ASSUME OwnsInv, NEW plane, Spares(plane), NEW q, Retains(q), NEW r, Lent(q, r)
    PROVE  Lent(q, r)'
<1>1. PICK x \in Planes : Keeps(q, x, r.aux) /\ planeOf[x] = r.pic /\ (r.plane # NoBuffer => x = r.plane)
    BY DEF Lent
<1>2. Shelved(x)
    BY <1>1, KeepsIs
<1>3. planeOf'[x] = r.pic /\ Keeps(q, x, r.aux)' /\ x \in Planes'
    BY <1>1, <1>2 DEF Spares, Retains
<1> QED
    BY <1>1, <1>3 DEF Lent

\* The same of one of the burst's own B pictures.
LEMMA OwnStays ==
    ASSUME OwnsInv, NEW plane, Spares(plane), NEW s \in Slots, NEW i, NEW q, q = bur[s].seq, Retains(q),
           OwnKept(s, i),
           bur'[s].seq = bur[s].seq, bur'[s].bs[i] = bur[s].bs[i], leaf'[s][i] = leaf[s][i],
           leaf[s][i] \in Planes, plane # leaf[s][i]
    PROVE  OwnKept(s, i)'
<1>1. PICK x : x = bur[s].bs[i]
    OBVIOUS
<1>2. planeOf[x.plane] = x.pic /\ IF x.ref THEN Keeps(q, x.plane, x.aux) ELSE x.plane = leaf[s][i]
    BY <1>1 DEF OwnKept
<1>3. CASE x.ref
  <2>1. Keeps(q, x.plane, x.aux)' /\ Shelved(x.plane) /\ x.plane \in Planes
      BY <1>1, <1>2, <1>3, KeepsIs DEF Retains
  <2>2. planeOf'[x.plane] = x.pic
      BY <1>2, <2>1 DEF Spares
  <2> QED
      BY <1>1, <1>3, <2>1, <2>2 DEF OwnKept
<1>4. CASE ~x.ref
  <2>1. planeOf'[x.plane] = x.pic
      BY <1>2, <1>4 DEF Spares
  <2> QED
      BY <1>1, <1>2, <1>4, <2>1 DEF OwnKept
<1> QED
    BY <1>3, <1>4

LEMMA LentOfStays ==
    ASSUME OwnsInv, NEW plane, Spares(plane), NEW s \in Slots, NEW q, q = bur[s].seq, Retains(q), LentOf(s),
           Same(bur'[s], bur[s]), bur'[s].bs = bur[s].bs, bur'[s].col \subseteq bur[s].col,
           \A i \in 1 .. Len(bur[s].bs) :
               leaf'[s][i] = leaf[s][i] /\ leaf[s][i] \in Planes /\ plane # leaf[s][i]
    PROVE  LentOf(s)'
<1>1. /\ bur'[s].seq = q /\ bur'[s].refs = bur[s].refs /\ bur'[s].plane = bur[s].plane
      /\ bur'[s].pic = bur[s].pic
    BY DEF Same
<1>2. \A r : Lent(q, r) => Lent(q, r)'
    BY LentStays
<1>3. \A i \in 1 .. Len(bur[s].bs) : OwnKept(s, i)'
    BY <1>1, OwnStays DEF LentOf
<1>4. \A r \in bur'[s].refs \cup bur'[s].col : Lent(q, r)'
    BY <1>1, <1>2 DEF LentOf
<1>5. \A i \in 1 .. Len(bur[s].bs) : \A r \in bur[s].bs[i].refs : Lent(q, r)'
    BY <1>2 DEF LentOf
<1>6. planeOf'[bur[s].plane] = bur[s].pic /\ \E a \in Auxes' : Keeps(q, bur[s].plane, a)'
  <2>0. PICK y : y = bur[s].plane
      OBVIOUS
  <2>1. PICK a \in Auxes : Keeps(q, y, a)
      BY <2>0 DEF LentOf
  <2>2. Shelved(y) /\ y \in Planes
      BY <2>1, KeepsIs
  <2>3. y # plane /\ planeOf[y] = bur[s].pic
      BY <2>0, <2>2 DEF LentOf, Spares
  <2>4. planeOf'[y] = bur[s].pic
      BY <2>2, <2>3 DEF Spares
  <2>5. a \in Auxes'
      BY <2>1 DEF Spares
  <2>6. \A u, v : Keeps(q, u, v) => Keeps(q, u, v)'
      BY <1>1 DEF Retains
  <2>7. Keeps(q, y, a)'
      BY <2>1, <2>6
  <2> QED
      BY <1>1, <2>0, <2>4, <2>5, <2>7
<1> QED
    BY <1>1, <1>3, <1>4, <1>5, <1>6 DEF LentOf, Spares, Lent, Keeps

-----------------------------------------------------------------------------
(* Steps that leave the buffers where they are.                             *)

Rests ==
  /\ UNCHANGED <<cfg, slot, seq, dpb, nextFn, rec, leaf, free, pend, planeOf, last>>
  /\ auxOf' = [x \in Auxes |-> auxOf'[x]]
  /\ \A s \in Slots : /\ Same(bur'[s], bur[s]) /\ bur'[s].bs = bur[s].bs /\ bur'[s].col \subseteq bur[s].col
                      /\ (bur'[s].live => bur[s].live) /\ (bur[s].err => bur'[s].err)
  /\ (api' = "begin" => api = "begin" /\ group' = group /\ prepped' = prepped)
  /\ (api' \in {"bill", "ring", "begin"} => last # 0)

\* The leaves of a burst's prepared B pictures.
LEMMA LeafIs ==
    ASSUME IInv, RInv, OwnsInv, NEW s \in LiveSlots, NEW i, i \in 1 .. Len(bur[s].bs)
    PROVE  i \in 1 .. NLeaf /\ <<s, i>> \in Keys /\ leaf[s][i] \in Planes /\ leaf[s][i] = Target[<<s, i>>]
<1>1. ChainOf(s) /\ BurstIs(bur[s]) /\ cfg \in Settings /\ s \in Slots /\ bur[s].seq > 0
    BY PartsIs, SeqIs, Zenon DEF ChainInv, IInv, TypeInv
<1>2. i \in 1 .. NLeaf
  <2>1. PICK n, b : n = bur[s].nbuf /\ b = cfg.bframes
      OBVIOUS
  <2>2. n \in 0 .. 7 /\ b \in 2 .. 7 /\ Len(bur[s].bs) \in Nat /\ n \in 1 .. b
      BY <1>1, <2>1, CfgIs DEF BurstIs, ChainOf
  <2>3. Len(Plan[0][n]) = n
      BY <2>2, PlanTable, Zenon DEF PlanFits
  <2>4. PlanOf(s) = Plan[0][n] /\ Len(bur[s].bs) <= n
      BY <1>1, <2>1, <2>3 DEF ChainOf, PlanOf
  <2>5. PICK k \in Nat : k = Len(bur[s].bs)
      BY <2>2
  <2> QED
      BY <2>1, <2>2, <2>4, <2>5 DEF NLeaf
<1>3. <<s, i>> \in Keys
    BY <1>1, <1>2 DEF Keys
<1>4. Target[<<s, i>>] = leaf[s][i]
  <2>1. s # NoSlot
      BY <1>1, CfgIs DEF Slots, NoSlot
  <2> QED
      BY <1>3, <2>1 DEF Target
<1>5. PlanesKnown(dpb, Bags, Target) /\ DOMAIN Target = Keys
    BY DEF OwnsInv, Apart, Target
<1> QED
    BY <1>2, <1>3, <1>4, <1>5 DEF PlanesKnown

LEMMA RestsIs ==
    ASSUME IInv, Rests
    PROVE  /\ (Pooled' <=> Pooled) /\ PerLaunch' = PerLaunch /\ PoolSize' = PoolSize /\ NLeaf' = NLeaf
           /\ Slots' = Slots /\ Planes' = Planes /\ Auxes' = Auxes /\ Keys' = Keys
           /\ Bags' = Bags /\ Target' = Target /\ Used' = Used /\ Slid' = Slid
           /\ LiveSlots' \subseteq LiveSlots /\ (Sound' => Sound)
           /\ \A s \in Slots : /\ Marked(s)' = Marked(s) /\ Count(s)' = Count(s)
                               /\ \A p : OwnPic(s, p) <=> OwnPic(s, p)'
<1>1. cfg' = cfg /\ Slots' = Slots
    BY DEF Rests, Slots
<1>2. (Pooled' <=> Pooled) /\ PerLaunch' = PerLaunch /\ PoolSize' = PoolSize /\ NLeaf' = NLeaf
    BY <1>1 DEF Pooled, PerLaunch, PoolSize, NLeaf
<1>3. Window' = Window /\ DpbSize' = DpbSize
    BY <1>1 DEF Window, DpbSize
<1>4. Planes' = Planes /\ Auxes' = Auxes /\ Keys' = Keys
    BY <1>1, <1>2, <1>3 DEF Planes, Auxes, Keys, PoolBag
<1>5. Bags' = Bags /\ Used' = Used /\ Victim' = Victim
    BY DEF Rests, Bags, Used, Victim
<1>6. Target' = Target
    BY <1>4 DEF Rests, Target
<1>7. Slid' = Slid
    BY <1>3, <1>5 DEF Rests, Slid
<1>8. LiveSlots' \subseteq LiveSlots /\ (Sound' => Sound)
    BY <1>1 DEF Rests, LiveSlots, Sound
<1>9. ASSUME NEW s \in Slots
      PROVE  /\ Marked(s)' = Marked(s) /\ Count(s)' = Count(s) /\ \A p : OwnPic(s, p) <=> OwnPic(s, p)'
  <2>1. bur'[s].bs = bur[s].bs /\ Same(bur'[s], bur[s])
      BY DEF Rests
  <2> QED
      BY <1>1, <2>1, PreparedKept
<1> QED
    BY <1>1, <1>2, <1>4, <1>5, <1>6, <1>7, <1>8, <1>9

LEMMA RestsOwns ==
    ASSUME IInv, Rests, OwnsInv
    PROVE  OwnsInv'
<1>1. /\ Slots' = Slots /\ Planes' = Planes /\ Auxes' = Auxes /\ NLeaf' = NLeaf /\ Bags' = Bags
      /\ Target' = Target /\ dpb' = dpb /\ leaf' = leaf /\ planeOf' = planeOf
      /\ auxOf' = [x \in Auxes |-> auxOf'[x]]
    BY RestsIs DEF Rests
<1>2. Apart(dpb, Bags, Target)'
  <2>1. PlanesApart(dpb, Bags, Target)' /\ AuxesApart(dpb, Bags)'
      BY <1>1 DEF OwnsInv, Apart, PlanesApart, AuxesApart
  <2>2. PlanesKnown(dpb, Bags, Target)'
      BY <1>1 DEF OwnsInv, Apart, PlanesKnown
  <2> QED
      BY <2>1, <2>2 DEF Apart
<1> QED
    BY <1>1, <1>2 DEF OwnsInv

LEMMA RestsPool ==
    ASSUME IInv, Rests, PoolInv
    PROVE  PoolInv'
<1>1. /\ Bags' = Bags /\ PoolSize' = PoolSize /\ PerLaunch' = PerLaunch /\ free' = free /\ pend' = pend
      /\ seq' = seq
    BY RestsIs DEF Rests
<1>2. PICK t \in Slots : t = slot
    BY DEF IInv, TypeInv
<1>3. Count(slot)' = Count(slot)
  <2>1. Count(t)' = Count(t) /\ slot' = t
      BY <1>2, RestsIs DEF Rests
  <2> QED
      BY <1>2, <2>1 DEF Count, Marked
<1>4. \A q : ParkedSince(q)' = ParkedSince(q)
    BY <1>1 DEF ParkedSince
<1> QED
    BY <1>1, <1>3, <1>4 DEF PoolInv

LEMMA RestsLast ==
    ASSUME IInv, Rests, LastInv
    PROVE  LastInv'
<1>1. Used' = Used /\ dpb' = dpb /\ nextFn' = nextFn /\ last' = last
    BY RestsIs DEF Rests
<1>2. PICK t \in Slots : t = slot
    BY DEF IInv, TypeInv
<1>3. Count(slot)' = Count(slot)
  <2>1. Count(t)' = Count(t) /\ slot' = t
      BY <1>2, RestsIs DEF Rests
  <2> QED
      BY <1>2, <2>1 DEF Count, Marked
<1>4. Among(last, 1 + Count(slot))' <=> Among(last, 1 + Count(slot))
    BY <1>1, <1>3 DEF Among
<1> QED
    BY <1>1, <1>4 DEF LastInv, Rests

LEMMA RestsPics ==
    ASSUME IInv, Rests, PicsInv
    PROVE  PicsInv'
<1>1. Planes' = Planes /\ Bags' = Bags /\ dpb' = dpb /\ planeOf' = planeOf /\ last' = last /\ rec' = rec
    BY RestsIs DEF Rests
<1>2. PICK t \in Slots : t = slot
    BY DEF IInv, TypeInv
<1>3. ASSUME NEW p, Entered(p) PROVE Entered(p)'
  <2>1. (bur'[t].live => bur[t].live) /\ bur'[t].group = bur[t].group /\ slot' = t
      BY <1>2 DEF Rests, Same
  <2>2. OwnPic(t, p) => OwnPic(t, p)'
      BY RestsIs
  <2>3. OwnPic(slot, p) => OwnPic(slot, p)'
      BY <1>2, <2>1, <2>2 DEF OwnPic, OwnRef, Marked
  <2> QED
      BY <1>1, <1>2, <1>3, <2>1, <2>3 DEF Entered
<1>4. \A x : Shelved(x)' <=> Shelved(x)
    BY <1>1 DEF Shelved
<1>5. api' = "begin" => planeOf'[rec'] = AnchorOf(group')
    BY <1>1 DEF PicsInv, Rests
<1>6. \A d \in DOMAIN dpb' : planeOf'[dpb'[d].plane] = dpb'[d].pic
    BY <1>1 DEF PicsInv
<1>8. ASSUME NEW x \in Planes', Shelved(x)' PROVE Entered(planeOf[x])'
  <2>1. PICK p : p = planeOf[x]
      OBVIOUS
  <2>2. Entered(p)
      BY <1>1, <1>4, <1>8, <2>1 DEF PicsInv
  <2>3. Entered(p)' /\ planeOf'[x] = p
      BY <1>1, <1>3, <2>1, <2>2
  <2> QED
      BY <2>3 DEF Entered, OwnPic, OwnRef
<1>7. \A x, y \in Planes' :
         Shelved(x)' /\ Shelved(y)' /\ planeOf'[x] = planeOf'[y] /\ planeOf'[x] # 0 => x = y
    BY <1>1, <1>4 DEF PicsInv
<1> QED
    BY <1>5, <1>6, <1>7, <1>8 DEF PicsInv, AnchorOf

LEMMA RestsRetains ==
    ASSUME IInv, Rests, OwnsInv
    PROVE  Spares(NoBuffer) /\ \A q : Retains(q)
<1>1. Planes' = Planes /\ Auxes' = Auxes /\ dpb' = dpb /\ pend' = pend /\ planeOf' = planeOf
    BY RestsIs DEF Rests
<1>2. ~Shelved(NoBuffer)
  <2>1. NoBuffer \notin Planes
      BY DEF NoBuffer, Planes
  <2> QED
      BY <2>1, ShelvedIs
<1>3. Spares(NoBuffer)
    BY <1>1, <1>2 DEF Spares
<1>4. ASSUME NEW q PROVE Retains(q)
    BY <1>1 DEF Retains, Keeps
<1> QED
    BY <1>3, <1>4

LEMMA RestsLent ==
    ASSUME IInv, RInv, Rests, OwnsInv, LentInv
    PROVE  LentInv'
<1>1. SUFFICES ASSUME NEW s \in LiveSlots' PROVE LentOf(s)'
    BY DEF LentInv
<1>2. s \in LiveSlots /\ LentOf(s) /\ s \in Slots
    BY <1>1, RestsIs, SeqIs DEF LentInv
<1>3. PICK q : q = bur[s].seq
    OBVIOUS
<1>4. Spares(NoBuffer) /\ Retains(q)
    BY RestsRetains
<1>5. Same(bur'[s], bur[s]) /\ bur'[s].bs = bur[s].bs /\ bur'[s].col \subseteq bur[s].col
    BY <1>2 DEF Rests
<1>6. ASSUME NEW i \in 1 .. Len(bur[s].bs)
      PROVE  leaf'[s][i] = leaf[s][i] /\ leaf[s][i] \in Planes /\ NoBuffer # leaf[s][i]
  <2>1. leaf[s][i] \in Planes /\ leaf' = leaf
      BY <1>2, <1>6, LeafIs, Zenon DEF Rests
  <2> QED
      BY <2>1 DEF Planes, NoBuffer
<1> QED
    BY <1>2, <1>3, <1>4, <1>5, <1>6, LentOfStays

LEMMA RestsReady ==
    ASSUME IInv, Rests, ReadyInv
    PROVE  ReadyInv'
<1>1. SUFFICES ASSUME api' = "begin", NEW r \in prepped'.refs PROVE StaysIn(Slid, r)'
    BY DEF ReadyInv
<1>2. api = "begin" /\ prepped' = prepped
    BY <1>1 DEF Rests
<1>3. Slid' = Slid /\ dpb' = dpb
    BY RestsIs DEF Rests
<1>4. StaysIn(Slid, r)
    BY <1>1, <1>2 DEF ReadyInv
<1> QED
    BY <1>3, <1>4 DEF StaysIn

LEMMA RestsKeeps ==
    ASSUME IInv, RInv, WInv, LInv, Rests, Pooled /\ Sound' => FilledInv'
    PROVE  WInv' /\ LInv'
<1>1. (Pooled' <=> Pooled) /\ (Sound' => Sound)
    BY RestsIs
<1>2. CASE ~Pooled
    BY <1>1, <1>2 DEF WInv, LInv
<1>3. CASE Pooled
  <2>1. OwnsInv' /\ PoolInv' /\ LastInv' /\ PicsInv'
      BY <1>3, RestsOwns, RestsPool, RestsLast, RestsPics DEF WInv
  <2>2. ASSUME Sound' PROVE LentInv' /\ FilledInv' /\ ReadyInv'
      BY <1>1, <1>3, <2>2, RestsLent, RestsReady DEF WInv, LInv
  <2> QED
      BY <1>1, <2>1, <2>2 DEF WInv, LInv
<1> QED
    BY <1>2, <1>3

\* What is awaited stays awaited, or has come.
LEMMA RestsFilled ==
    ASSUME IInv, Rests, FilledInv,
           \A x \in Planes, a \in Auxes : Holds(x, a) =>
               /\ Awaited(planeOf[x]) => Awaited(planeOf[x])' \/ auxOf'[a] = planeOf[x]
               /\ auxOf[a] = planeOf[x] => auxOf'[a] = planeOf[x]
    PROVE  FilledInv'
<1>1. Planes' = Planes /\ Auxes' = Auxes /\ Bags' = Bags /\ dpb' = dpb /\ planeOf' = planeOf
    BY RestsIs DEF Rests
<1>2. \A x, a : Holds(x, a)' <=> Holds(x, a)
    BY <1>1 DEF Holds
<1> QED
    BY <1>1, <1>2 DEF FilledInv

LEMMA RestsWait ==
    ASSUME IInv, RInv, WInv, LInv, Rests, auxOf' = auxOf,
           Sound' => \A s \in LiveSlots : \/ bur[s].coded = Len(bur[s].bs)
                                          \/ bur'[s].live /\ bur'[s].coded = bur[s].coded
    PROVE  WInv' /\ LInv'
<1>1. SUFFICES ASSUME Pooled, Sound' PROVE FilledInv'
    BY RestsKeeps
<1>2. FilledInv /\ Slots' = Slots
    BY <1>1, RestsIs DEF LInv
<1>3. ASSUME NEW p, Awaited(p) PROVE Awaited(p)'
  <2>1. PICK s \in LiveSlots : \E i \in Marked(s) : bur[s].bs[i].pic = p /\ i > bur[s].coded
      BY <1>3 DEF Awaited
  <2>2. PICK i \in Marked(s) : bur[s].bs[i].pic = p /\ i > bur[s].coded
      BY <2>1
  <2>3. s \in Slots /\ ChainOf(s) /\ BurstIs(bur[s])
      BY PartsIs, SeqIs DEF ChainInv, IInv, TypeInv
  <2>4. i \in 1 .. Len(bur[s].bs) /\ Len(bur[s].bs) \in Nat
      BY <2>2, <2>3 DEF Marked, BurstIs
  <2>5. ~(bur[s].coded = Len(bur[s].bs))
      BY <2>2, <2>4
  <2>6. bur'[s].live /\ bur'[s].coded = bur[s].coded /\ bur'[s].bs = bur[s].bs
    <3>1. bur'[s].live /\ bur'[s].coded = bur[s].coded
        BY <1>1, <2>5
    <3>2. bur'[s].bs = bur[s].bs
        BY <2>3 DEF Rests
    <3> QED
        BY <3>1, <3>2
  <2>7. s \in LiveSlots'
      BY <1>2, <2>3, <2>6 DEF LiveSlots
  <2>8. i \in Marked(s)'
      BY <2>2, <2>6 DEF Marked
  <2>9. bur'[s].bs[i].pic = p /\ i > bur'[s].coded
      BY <2>2, <2>6
  <2> QED
      BY <2>7, <2>8, <2>9 DEF Awaited
<1>4. ASSUME NEW x \in Planes PROVE Awaited(planeOf[x]) => Awaited(planeOf[x])'
  <2>1. PICK p : p = planeOf[x]
      OBVIOUS
  <2>2. Awaited(p) => Awaited(p)'
      BY <1>3
  <2>3. planeOf'[x] = p
      BY <2>1 DEF Rests
  <2> QED
      BY <2>1, <2>2, <2>3 DEF Awaited
<1> QED
    BY <1>2, <1>4, RestsFilled

\* The steps of a burst's threads, and of the caller, that move no buffer.
LEMMA SlideRests ==
    ASSUME IInv, RInv, WInv, Pooled, NEW s \in Slots, NEW e, Becomes(s, e), e.bs = bur[s].bs,
           e.col \subseteq bur[s].col, e.live => bur[s].live, bur[s].err => e.err,
           UNCHANGED <<cfg, group, slot, seq, dpb, nextFn, rec, leaf, free, pend, planeOf, last, prepped>>,
           auxOf' = [x \in Auxes |-> auxOf'[x]], api' = api \/ api' \notin {"bill", "ring", "begin"}
    PROVE  Rests
<1>1. \A t \in Slots : Same(bur'[t], bur[t]) /\ (t # s => bur'[t] = bur[t])
    BY BecomesIs DEF IInv
<1>2. bur'[s] = e
    BY BecomesIs DEF IInv
<1>3. api' \in {"bill", "ring", "begin"} => last # 0 /\ api' = api
    BY DEF WInv, LastInv
<1> QED
    BY <1>1, <1>2, <1>3 DEF Rests

LEMMA SlideKeeps ==
    ASSUME IInv, RInv, WInv, LInv, NEW s \in Slots, NEW e, Becomes(s, e), e.bs = bur[s].bs,
           e.col \subseteq bur[s].col, e.live => bur[s].live, bur[s].err => e.err,
           UNCHANGED <<cfg, group, slot, seq, buffers, last, prepped>>,
           api' = api \/ api' \notin {"bill", "ring", "begin"},
           ~e.err => bur[s].coded = Len(bur[s].bs) \/ (e.live = bur[s].live /\ e.coded = bur[s].coded)
    PROVE  WInv' /\ LInv'
<1>1. CASE ~Pooled
  <2>1. ~Pooled'
      BY <1>1 DEF Pooled
  <2> QED
      BY <2>1 DEF WInv, LInv
<1>2. CASE Pooled
  <2>1. OwnsInv /\ Slots' = Slots
      BY <1>2 DEF WInv, Slots
  <2>2. Rests
    <3>1. auxOf' = [x \in Auxes |-> auxOf'[x]]
        BY <2>1 DEF OwnsInv, buffers
    <3> QED
        BY <1>2, <3>1, SlideRests DEF buffers
  <2>3. bur'[s] = e /\ \A t \in Slots : t # s => bur'[t] = bur[t]
      BY BecomesIs DEF IInv
  <2>4. ASSUME Sound', NEW t \in LiveSlots
        PROVE  bur[t].coded = Len(bur[t].bs) \/ (bur'[t].live /\ bur'[t].coded = bur[t].coded)
    <3>1. t \in Slots /\ bur[t].live
        BY <2>4 DEF LiveSlots
    <3>2. CASE t = s
      <4>1. ~e.err
          BY <2>1, <2>3, <2>4 DEF Sound
      <4> QED
          BY <2>3, <3>1, <3>2, <4>1
    <3>3. CASE t # s
        BY <2>3, <3>1, <3>3
    <3> QED
        BY <3>2, <3>3
  <2> QED
      BY <2>2, <2>4, RestsWait DEF buffers
<1> QED
    BY <1>1, <1>2

LEMMA ThreadBuffers ==
    ASSUME IInv, RInv, WInv, LInv, NEW s \in Slots,
           Analyze(s) \/ Publish(s) \/ WaitPrev(s) \/ Bail(s) \/ Fire(s) \/ WaitRefB(s) \/ StreamRefB(s) \/ End(s)
    PROVE  WInv' /\ LInv'
<1>0. TypeInv /\ BurstIs(bur[s])
    BY DEF IInv, TypeInv
<1>1. CASE Analyze(s)
  <2>1. PICK e : /\ Becomes(s, e) /\ e.live = bur[s].live /\ e.bs = bur[s].bs /\ e.coded = bur[s].coded
                 /\ e.col = bur[s].col /\ e.err = bur[s].err
      BY <1>0, <1>1, AnalyzeOf
  <2> QED
      BY <1>0, <1>1, <2>1, SlideKeeps DEF Analyze
<1>2. CASE Publish(s)
  <2>1. PICK e : /\ Becomes(s, e) /\ e.live = bur[s].live /\ e.bs = bur[s].bs /\ e.coded = bur[s].coded
                 /\ e.col = bur[s].col /\ e.err = bur[s].err
      BY <1>0, <1>2, PublishOf
  <2> QED
      BY <1>0, <1>2, <2>1, SlideKeeps DEF Publish
<1>3. CASE WaitPrev(s)
  <2>1. PICK e : /\ Becomes(s, e) /\ e.live = bur[s].live /\ e.bs = bur[s].bs /\ e.coded = bur[s].coded
                 /\ e.col = bur[s].col /\ e.err = bur[s].err
      BY <1>0, <1>3, WaitPrevOf
  <2> QED
      BY <1>0, <1>3, <2>1, SlideKeeps DEF WaitPrev
<1>4. CASE Bail(s)
  <2>1. PICK e : /\ Becomes(s, e) /\ e.live = bur[s].live /\ e.bs = bur[s].bs /\ e.coded = bur[s].coded
                 /\ e.col = bur[s].col /\ e.err = TRUE
      BY <1>0, <1>4, BailOf, Zenon
  <2> QED
      BY <1>0, <1>4, <2>1, SlideKeeps DEF Bail
<1>5. CASE Fire(s)
  <2>1. PICK e : /\ Becomes(s, e) /\ e.live = bur[s].live /\ e.bs = bur[s].bs /\ e.coded = bur[s].coded
                 /\ e.col = bur[s].col /\ e.err = bur[s].err
      BY <1>0, <1>5, FireOf, Zenon
  <2> QED
      BY <1>0, <1>5, <2>1, SlideKeeps DEF Fire
<1>6. CASE WaitRefB(s)
  <2>1. PICK e : /\ Becomes(s, e) /\ e.live = bur[s].live /\ e.bs = bur[s].bs /\ e.coded = bur[s].coded
                 /\ e.col = bur[s].col /\ e.err = bur[s].err
      BY <1>0, <1>6, WaitRefBOf
  <2> QED
      BY <1>0, <1>6, <2>1, SlideKeeps DEF WaitRefB
<1>7. CASE StreamRefB(s)
  <2>1. PICK e : /\ Becomes(s, e) /\ e.live = bur[s].live /\ e.bs = bur[s].bs /\ e.coded = bur[s].coded
                 /\ e.col = bur[s].col /\ e.err = bur[s].err
      BY <1>0, <1>7, StreamRefBOf
  <2> QED
      BY <1>0, <1>7, <2>1, SlideKeeps DEF StreamRefB
<1>8. CASE End(s)
  <2>1. PICK e : /\ Becomes(s, e) /\ e.live = bur[s].live /\ e.bs = bur[s].bs /\ e.coded = bur[s].coded
                 /\ e.col \subseteq bur[s].col /\ e.err = bur[s].err
      BY <1>0, <1>8, EndOf, ZenonT(30)
  <2> QED
      BY <1>0, <1>8, <2>1, SlideKeeps DEF End
<1> QED
    BY <1>1, <1>2, <1>3, <1>4, <1>5, <1>6, <1>7, <1>8

LEMMA SubmitBuffers ==
    ASSUME IInv, RInv, WInv, LInv, Submit
    PROVE  WInv' /\ LInv'
<1>1. PICK s \in Slots : s = slot
    BY DEF IInv, TypeInv
<1>2. TypeInv /\ BurstIs(bur[s])
    BY DEF IInv, TypeInv
<1>3. PICK e : /\ Becomes(s, e) /\ e.live = bur[s].live /\ e.bs = bur[s].bs /\ e.coded = bur[s].coded
               /\ e.col = bur[s].col /\ e.err = bur[s].err
    BY <1>1, <1>2, SubmitOf
<1>4. api' \notin {"bill", "ring", "begin"}
    BY DEF Submit
<1> QED
    BY <1>2, <1>3, <1>4, SlideKeeps DEF Submit

LEMMA DrainOldestBuffers ==
    ASSUME IInv, RInv, WInv, LInv, DrainOldest
    PROVE  WInv' /\ LInv'
<1>1. PICK s \in LiveSlots : s = Oldest
    BY OldestIs DEF IInv, DrainOldest
<1>2. s \in Slots /\ TypeInv /\ BurstIs(bur[s]) /\ ChainOf(s) /\ bur[s].live
    BY PartsIs DEF IInv, TypeInv, ChainInv, LiveSlots
<1>3. PICK e : /\ Becomes(s, e) /\ e.live = FALSE /\ e.bs = bur[s].bs /\ e.coded = bur[s].coded
               /\ e.col = bur[s].col /\ e.err = bur[s].err
    BY <1>1, <1>2, DrainOldestOf, Zenon
<1>4. api' = api \/ api' \notin {"bill", "ring", "begin"}
    BY DEF DrainOldest
<1>5. ~bur[s].err => bur[s].coded = Len(bur[s].bs)
    BY <1>1, <1>2 DEF DrainOldest, Synced, ChainOf
<1> QED
    BY <1>2, <1>3, <1>4, <1>5, SlideKeeps DEF DrainOldest

LEMMA CallBuffers ==
    ASSUME IInv, RInv, WInv, LInv,
           \/ \E n \in 1 .. cfg.bframes : StartBurst(n)
           \/ StartSerial \/ Bill \/ Flush \/ Finish \/ UNCHANGED vars
    PROVE  WInv' /\ LInv'
<1>1. CASE ~Pooled
  <2>1. cfg' = cfg
      BY DEF StartBurst, StartSerial, Take, Bill, Flush, Finish, vars
  <2>2. ~Pooled'
      BY <1>1, <2>1 DEF Pooled
  <2> QED
      BY <2>2 DEF WInv, LInv
<1>2. CASE Pooled
  <2>1. OwnsInv /\ LastInv
      BY <1>2 DEF WInv
  <2>2. UNCHANGED <<cfg, slot, seq, bur, prepped, buffers, last>>
      BY DEF StartBurst, StartSerial, Take, Bill, Flush, Finish, vars
  <2>3. UNCHANGED <<cfg, slot, seq, dpb, nextFn, rec, leaf, free, pend, planeOf, auxOf, last>>
      BY <2>2 DEF buffers
  <2>4. auxOf' = [x \in Auxes |-> auxOf'[x]]
      BY <2>1, <2>3 DEF OwnsInv
  <2>5. /\ api' = "begin" => api = "begin" /\ group' = group /\ prepped' = prepped
        /\ api' \in {"bill", "ring", "begin"} => last # 0
      BY <2>1 DEF StartBurst, StartSerial, Take, Bill, Flush, Finish, vars, LastInv
  <2>6. \A s \in Slots : Same(bur'[s], bur[s])
      BY <2>2 DEF Same
  <2>7. Rests
      BY <2>2, <2>3, <2>4, <2>5, <2>6 DEF Rests
  <2>8. \A s \in LiveSlots : bur'[s].live /\ bur'[s].coded = bur[s].coded
      BY <2>2 DEF LiveSlots
  <2> QED
      BY <2>3, <2>7, <2>8, RestsWait
<1> QED
    BY <1>1, <1>2

-----------------------------------------------------------------------------
(* A reference B fills its half-pel and motion planes.                      *)

LEMMA HoldsOne ==
    ASSUME OwnsInv, NEW x, NEW a, NEW y, NEW b, Holds(x, a), Holds(y, b)
    PROVE  x = y <=> a = b
<1>1. PlanesApart(dpb, Bags, Target) /\ AuxesApart(dpb, Bags)
    BY DEF OwnsInv, Apart
<1>2. CASE \E d \in DOMAIN dpb : dpb[d].plane = x /\ dpb[d].aux = a
  <2>1. PICK d \in DOMAIN dpb : dpb[d].plane = x /\ dpb[d].aux = a
      BY <1>2
  <2>2. CASE \E e \in DOMAIN dpb : dpb[e].plane = y /\ dpb[e].aux = b
      BY <1>1, <2>1, <2>2 DEF PlanesApart, AuxesApart
  <2>3. CASE \E z \in Bags : z.plane = y /\ z.aux = b
      BY <1>1, <2>1, <2>3 DEF PlanesApart, AuxesApart
  <2> QED
      BY <2>2, <2>3 DEF Holds
<1>3. CASE \E z \in Bags : z.plane = x /\ z.aux = a
  <2>1. PICK z \in Bags : z.plane = x /\ z.aux = a
      BY <1>3
  <2>2. CASE \E e \in DOMAIN dpb : dpb[e].plane = y /\ dpb[e].aux = b
      BY <1>1, <2>1, <2>2 DEF PlanesApart, AuxesApart
  <2>3. CASE \E w \in Bags : w.plane = y /\ w.aux = b
      BY <1>1, <2>1, <2>3 DEF PlanesApart, AuxesApart
  <2> QED
      BY <2>2, <2>3 DEF Holds
<1> QED
    BY <1>2, <1>3 DEF Holds

LEMMA HoldsIs ==
    ASSUME OwnsInv, NEW x, NEW a, Holds(x, a)
    PROVE  Shelved(x) /\ x \in Planes /\ a \in Auxes
<1>1. PlanesKnown(dpb, Bags, Target)
    BY DEF OwnsInv, Apart
<1> QED
    BY <1>1 DEF Holds, Shelved, PlanesKnown

\* The picture of a live burst's B.
LEMMA BPicIs ==
    ASSUME IInv, RInv, NEW s \in LiveSlots, NEW i \in 1 .. Len(bur[s].bs)
    PROVE  /\ bur[s].bs[i].pic \in Nat /\ bur[s].bs[i].pic # 0 /\ bur[s].group \in Nat
           /\ 8 * (bur[s].group - 1) < bur[s].bs[i].pic /\ bur[s].bs[i].pic < 8 * bur[s].group
           /\ bur[s].bs[i].pic = BOf(bur[s].group, bur[s].nbuf, PlanOf(s)[i].m)
           /\ bur[s].bs[i].ref = PlanOf(s)[i].ref /\ i \in 1 .. Len(PlanOf(s))
<1>1. ChainOf(s) /\ BurstIs(bur[s]) /\ cfg \in Settings /\ s \in Slots /\ bur[s].seq > 0
    BY PartsIs, SeqIs, Zenon DEF ChainInv, IInv, TypeInv
<1>2. PICK n, k, m, z : n = bur[s].nbuf /\ k = bur[s].group /\ m = PlanOf(s)[i].m /\ z = bur[s].bs[i].pic
    OBVIOUS
<1>3. n \in 0 .. 7 /\ n >= 1 /\ k \in Nat /\ k >= 1 /\ z = BOf(k, n, m) /\ bur[s].bs[i].ref = PlanOf(s)[i].ref
  <2>1. n \in 1 .. cfg.bframes /\ k \in Nat /\ k >= 1 /\ n \in 0 .. 7
      BY <1>1, <1>2 DEF ChainOf, BurstIs
  <2>2. cfg.bframes \in 2 .. 7
      BY <1>1, CfgIs
  <2>3. z = BOf(k, n, m) /\ bur[s].bs[i].ref = PlanOf(s)[i].ref
      BY <1>1, <1>2 DEF ChainOf
  <2> QED
      BY <2>1, <2>2, <2>3
<1>4. PlanOf(s) = Plan[0][n] /\ Len(Plan[0][n]) = n /\ \A j \in 1 .. n : Plan[0][n][j].m \in 0 .. n - 1
    BY <1>2, <1>3, PlanTable, Zenon DEF PlanFits, PlanOf
<1>5. i \in 1 .. n
  <2>1. Len(bur[s].bs) \in Nat /\ Len(bur[s].bs) <= n
      BY <1>1, <1>4 DEF ChainOf, BurstIs
  <2> QED
      BY <1>3, <2>1
<1>6. m \in 0 .. n - 1
    BY <1>2, <1>4, <1>5
<1>7. z = 8 * k - n + m /\ z \in Int
    BY <1>3, <1>6 DEF BOf
<1>8. z \in Nat /\ 8 * (k - 1) < z /\ z < 8 * k
    BY <1>3, <1>6, <1>7, BetweenAnchors
<1>9. z # 0
    BY <1>3, <1>8
<1> QED
    BY <1>2, <1>3, <1>4, <1>5, <1>8, <1>9, Zenon

LEMMA CodeFills ==
    ASSUME IInv, RInv, WInv, LInv, Rests, Pooled, Sound, NEW s \in LiveSlots,
           NEW i \in 1 .. Len(bur[s].bs), i = bur[s].coded + 1, bur'[s].coded = i, bur'[s].live,
           \A t \in Slots : t # s => bur'[t] = bur[t], Fills(bur[s].bs[i])
    PROVE  FilledInv'
<1>1. OwnsInv /\ PicsInv /\ FilledInv /\ LentOf(s) /\ s \in Slots /\ Slots' = Slots
    BY RestsIs, SeqIs DEF WInv, LInv, LentInv
<1>2. PICK b : b = bur[s].bs[i]
    OBVIOUS
<1>3. b.pic \in Nat /\ b.pic # 0
    BY <1>2, BPicIs
<1>4. b.ref => Holds(b.plane, b.aux) /\ planeOf[b.plane] = b.pic
  <2>1. ASSUME b.ref PROVE Holds(b.plane, b.aux) /\ planeOf[b.plane] = b.pic
    <3>1. PICK q : q = bur[s].seq
        OBVIOUS
    <3>2. Keeps(q, b.plane, b.aux) /\ planeOf[b.plane] = b.pic
        BY <1>1, <1>2, <2>1, <3>1 DEF LentOf, OwnKept
    <3> QED
        BY <1>1, <3>2, KeepsIs
  <2> QED
      BY <2>1
<1>5. \A a \in Auxes : ~b.ref \/ a # b.aux => auxOf'[a] = auxOf[a]
    BY <1>1, <1>2 DEF Fills, OwnsInv
<1>6. b.ref /\ b.aux \in Auxes => auxOf'[b.aux] = b.pic
    BY <1>1, <1>2 DEF Fills, OwnsInv
<1>7. ASSUME NEW p, Awaited(p) PROVE Awaited(p)' \/ (b.ref /\ p = b.pic)
  <2>1. PICK t \in LiveSlots : \E j \in Marked(t) : bur[t].bs[j].pic = p /\ j > bur[t].coded
      BY <1>7 DEF Awaited
  <2>2. PICK j \in Marked(t) : bur[t].bs[j].pic = p /\ j > bur[t].coded
      BY <2>1
  <2>3. t \in Slots /\ bur[t].live
      BY DEF LiveSlots
  <2>4. CASE t # s
    <3>1. bur'[t] = bur[t] /\ t \in LiveSlots'
        BY <1>1, <2>3, <2>4 DEF LiveSlots
    <3>2. j \in Marked(t)' /\ bur'[t].bs[j].pic = p /\ j > bur'[t].coded
        BY <2>2, <3>1 DEF Marked
    <3> QED
        BY <3>1, <3>2 DEF Awaited
  <2>5. CASE t = s
    <3>1. bur'[s].bs = bur[s].bs /\ s \in LiveSlots'
        BY <1>1, <2>3, <2>5 DEF Rests, LiveSlots
    <3>2. CASE j = i
      <4>1. b.ref /\ p = b.pic
          BY <1>2, <2>2, <2>5, <3>2 DEF Marked
      <4> QED
          BY <4>1
    <3>3. CASE j # i
      <4>1. j \in Nat /\ j > bur[s].coded /\ bur[s].coded \in Nat
        <5>1. ChainOf(s)
            BY <1>1, PartsIs DEF ChainInv
        <5>2. bur[s].coded \in Nat
            BY <5>1 DEF ChainOf
        <5> QED
            BY <2>2, <2>5, <5>2 DEF Marked
      <4>2. j > i
          BY <3>3, <4>1
      <4>3. j \in Marked(s)' /\ bur'[s].bs[j].pic = p /\ j > bur'[s].coded
          BY <2>2, <2>5, <3>1, <4>2 DEF Marked
      <4> QED
          BY <3>1, <4>3 DEF Awaited
    <3> QED
        BY <3>2, <3>3
  <2> QED
      BY <2>4, <2>5
<1>8. ASSUME NEW x \in Planes, NEW a \in Auxes, Holds(x, a)
      PROVE  /\ Awaited(planeOf[x]) => Awaited(planeOf[x])' \/ auxOf'[a] = planeOf[x]
             /\ auxOf[a] = planeOf[x] => auxOf'[a] = planeOf[x]
  <2>1. PICK p : p = planeOf[x] /\ planeOf'[x] = p
      BY DEF Rests
  <2>2. CASE b.ref /\ a = b.aux
    <3>1. x = b.plane
        BY <1>1, <1>4, <1>8, <2>2, HoldsOne
    <3>2. auxOf'[a] = p
        BY <1>4, <1>6, <2>1, <2>2, <3>1
    <3> QED
        BY <2>1, <3>2
  <2>3. CASE ~(b.ref /\ a = b.aux)
    <3>1. auxOf'[a] = auxOf[a]
        BY <1>5, <2>3
    <3>2. ASSUME Awaited(p) PROVE Awaited(p)'
      <4>1. SUFFICES ASSUME b.ref, p = b.pic PROVE FALSE
          BY <1>7, <3>2
      <4>2. Shelved(x) /\ Shelved(b.plane) /\ b.plane \in Planes
          BY <1>1, <1>4, <1>8, <4>1, HoldsIs
      <4>3. x = b.plane
          BY <1>1, <1>3, <1>4, <2>1, <4>1, <4>2, Zenon DEF PicsInv
      <4> QED
          BY <1>1, <1>4, <1>8, <2>3, <4>1, <4>3, HoldsOne
    <3> QED
        BY <2>1, <3>1, <3>2 DEF Awaited
  <2> QED
      BY <2>2, <2>3
<1> QED
    BY <1>1, <1>8, RestsFilled

LEMMA FillsIs ==
    ASSUME OwnsInv, NEW x, Fills(x)
    PROVE  auxOf' = [y \in Auxes |-> auxOf'[y]]
<1>1. auxOf = [y \in Auxes |-> auxOf[y]]
    BY DEF OwnsInv
<1>2. CASE x.ref
  <2>1. auxOf' = [auxOf EXCEPT ![x.aux] = x.pic]
      BY <1>2 DEF Fills
  <2> QED
      BY <1>1, <2>1
<1>3. CASE ~x.ref
    BY <1>1, <1>3 DEF Fills
<1> QED
    BY <1>2, <1>3

LEMMA CodeBuffers ==
    ASSUME IInv, RInv, WInv, LInv, NEW s \in Slots, LaunchRefB(s) \/ CodeB(s)
    PROVE  WInv' /\ LInv'
<1>1. PICK i : i = bur[s].coded + 1
    OBVIOUS
<1>2. ChainOf(s) /\ BurstIs(bur[s]) /\ BurstOf(s) /\ TypeInv /\ bur[s].phase = "code"
    BY PartsIs DEF ChainInv, IInv, TypeInv, BurstInv, LaunchRefB, CodeB
<1>3. bur[s].live /\ ~bur[s].err /\ s \in LiveSlots /\ bur[s].fired
    BY <1>2 DEF BurstOf, BurstIs, ChainOf, LiveSlots
<1>4. i \in 1 .. Len(bur[s].bs) /\ Fills(bur[s].bs[i])
  <2>1. bur[s].coded \in Nat /\ Len(bur[s].bs) \in Nat
      BY <1>2 DEF ChainOf, BurstIs
  <2>2. CASE LaunchRefB(s)
    <3>1. bur[s].coded = 0 /\ Bdepth(s) /\ Fills(bur[s].bs[1])
        BY <2>2 DEF LaunchRefB
    <3>2. Len(PlanOf(s)) > 0 /\ Len(bur[s].bs) = Len(PlanOf(s))
        BY <1>2, <1>3, <3>1, StreamsFirst DEF BurstOf
    <3> QED
        BY <1>1, <2>1, <3>1, <3>2
  <2>3. CASE CodeB(s)
      BY <1>1, <2>1, <2>3 DEF CodeB
  <2> QED
      BY <2>2, <2>3
<1>5. PICK e : /\ Becomes(s, e) /\ e.live = bur[s].live /\ e.bs = bur[s].bs /\ e.coded = i
               /\ e.col = bur[s].col /\ e.err = bur[s].err
  <2>1. CASE LaunchRefB(s)
    <3>1. bur[s].coded = 0
        BY <2>1 DEF LaunchRefB
    <3> QED
        BY <1>1, <1>2, <2>1, <3>1, LaunchRefBOf
  <2>2. CASE CodeB(s)
      BY <1>1, <1>2, <2>2, CodeBOf
  <2> QED
      BY <2>1, <2>2
<1>6. UNCHANGED <<cfg, api, group, slot, seq, dpb, nextFn, rec, leaf, free, pend, planeOf, last, prepped>>
    BY DEF LaunchRefB, CodeB, NoFill
<1>7. CASE ~Pooled
  <2>1. ~Pooled'
      BY <1>6, <1>7 DEF Pooled
  <2> QED
      BY <2>1 DEF WInv, LInv
<1>8. CASE Pooled
  <2>1. OwnsInv
      BY <1>8 DEF WInv
  <2>2. auxOf' = [x \in Auxes |-> auxOf'[x]]
      BY <1>4, <2>1, FillsIs
  <2>3. Rests
      BY <1>5, <1>6, <1>8, <2>2, SlideRests
  <2>4. bur'[s] = e /\ \A t \in Slots : t # s => bur'[t] = bur[t]
      BY <1>2, <1>5, BecomesIs
  <2>5. ASSUME Sound' PROVE FilledInv'
    <3>1. Sound
        BY <2>3, <2>5, RestsIs
    <3> QED
        BY <1>1, <1>3, <1>4, <1>5, <1>8, <2>3, <2>4, <3>1, CodeFills, Zenon
  <2> QED
      BY <2>3, <2>5, RestsKeeps
<1> QED
    BY <1>7, <1>8

-----------------------------------------------------------------------------
(* The launch's prepare.                                                    *)

LEMMA TargetIs ==
    ASSUME IInv, OwnsInv
    PROVE  /\ rec \in Planes /\ ~Shelved(rec) /\ Target[<<NoSlot, 0>>] = rec /\ <<NoSlot, 0>> \in Keys
           /\ \A s \in Slots : \A i \in 1 .. NLeaf :
                /\ <<s, i>> \in Keys /\ Target[<<s, i>>] = leaf[s][i] /\ leaf[s][i] \in Planes
                /\ leaf[s][i] # rec /\ ~Shelved(leaf[s][i])
                /\ \A t \in Slots : \A j \in 1 .. NLeaf : leaf[s][i] = leaf[t][j] => s = t /\ i = j
<1>1. PlanesApart(dpb, Bags, Target) /\ PlanesKnown(dpb, Bags, Target) /\ DOMAIN Target = Keys
    BY DEF OwnsInv, Apart, Target
<1>2. \A k \in Keys : Target[k] \in Planes /\ ~Shelved(Target[k])
    BY <1>1 DEF PlanesApart, PlanesKnown, Shelved
<1>3. <<NoSlot, 0>> \in Keys /\ Target[<<NoSlot, 0>>] = rec
    BY DEF Keys, Target
<1>4. ASSUME NEW s \in Slots, NEW i \in 1 .. NLeaf
      PROVE  <<s, i>> \in Keys /\ Target[<<s, i>>] = leaf[s][i] /\ s # NoSlot
  <2>1. s # NoSlot /\ <<s, i>> \in Keys
      BY <1>4, CfgIs DEF Slots, NoSlot, Keys, IInv, TypeInv
  <2> QED
      BY <2>1 DEF Target
<1>5. \A s \in Slots : \A i \in 1 .. NLeaf : leaf[s][i] \in Planes /\ ~Shelved(leaf[s][i])
  <2>1. SUFFICES ASSUME NEW s \in Slots, NEW i \in 1 .. NLeaf
                 PROVE  leaf[s][i] \in Planes /\ ~Shelved(leaf[s][i])
      OBVIOUS
  <2>2. PICK k \in Keys : k = <<s, i>> /\ Target[k] = leaf[s][i]
      BY <1>4, Zenon
  <2>3. Target[k] \in Planes /\ ~Shelved(Target[k])
      BY <1>2
  <2> QED
      BY <2>2, <2>3
<1>6. rec \in Planes /\ ~Shelved(rec)
  <2>1. PICK k \in Keys : k = <<NoSlot, 0>> /\ Target[k] = rec
      BY <1>3
  <2>2. Target[k] \in Planes /\ ~Shelved(Target[k])
      BY <1>2
  <2> QED
      BY <2>1, <2>2
<1>7. \A k, l \in Keys : Target[k] = Target[l] => k = l
    BY <1>1 DEF PlanesApart
<1>8. \A s \in Slots : \A i \in 1 .. NLeaf : leaf[s][i] # rec
  <2>1. SUFFICES ASSUME NEW s \in Slots, NEW i \in 1 .. NLeaf PROVE leaf[s][i] # rec
      OBVIOUS
  <2>2. PICK k \in Keys : k = <<s, i>> /\ Target[k] = leaf[s][i]
      BY <1>4, Zenon
  <2>3. PICK l \in Keys : l = <<NoSlot, 0>> /\ Target[l] = rec
      BY <1>3
  <2>4. k # l
      BY <1>4, <2>2, <2>3
  <2> QED
      BY <1>7, <2>2, <2>3, <2>4
<1>9. \A s, t \in Slots : \A i, j \in 1 .. NLeaf : leaf[s][i] = leaf[t][j] => s = t /\ i = j
  <2>1. SUFFICES ASSUME NEW s \in Slots, NEW t \in Slots, NEW i \in 1 .. NLeaf, NEW j \in 1 .. NLeaf,
                        leaf[s][i] = leaf[t][j]
                 PROVE  s = t /\ i = j
      OBVIOUS
  <2>2. PICK k \in Keys : k = <<s, i>> /\ Target[k] = leaf[s][i]
      BY <1>4, Zenon
  <2>3. PICK l \in Keys : l = <<t, j>> /\ Target[l] = leaf[t][j]
      BY <1>4, Zenon
  <2>4. k = l
      BY <1>7, <2>1, <2>2, <2>3
  <2> QED
      BY <2>2, <2>3, <2>4
<1> QED
    BY <1>3, <1>4, <1>5, <1>6, <1>8, <1>9

\* An entry that one of the newest anchors or reference B's has is not the next
\* to leave.
LEMMA NewStays ==
    ASSUME IInv, RInv, Pooled, PoolInv, NEW d \in Used, dpb[d].fn >= nextFn - (1 + Count(slot))
    PROVE  Slid[d].used
<1>1. PICK c, w, f, h : c = Count(slot) /\ w = Window /\ f = nextFn /\ h = dpb[d].fn
    OBVIOUS
<1>2. WindowInv /\ cfg \in Settings /\ slot \in Slots
    BY PartsIs DEF IInv, TypeInv
<1>3. c \in Nat /\ c + 2 <= w /\ w \in Nat
  <2>1. PICK b, m : b = cfg.bframes /\ m = NRefB(b)
      OBVIOUS
  <2>2. b \in 0 .. b /\ m \in Nat /\ w >= m + 2 /\ w \in Nat
      BY <1>1, <1>2, <2>1, WindowIs, CfgIs
  <2>3. c \in Nat /\ c < 1 + m
      BY <1>1, <1>2, <2>1, MarkedIs, PartsIs DEF PoolInv, PerLaunch, ChainInv
  <2> QED
      BY <2>2, <2>3
<1>4. f \in Nat /\ h \in Nat /\ h >= f - (1 + c)
    BY <1>1, <1>2, UsedIs, Zenon DEF WindowInv
<1>5. h >= f + 1 - w
    BY <1>3, <1>4
<1>6. PICK T : T = Slid
    OBVIOUS
<1>7. T[d] = dpb[d]
    BY <1>1, <1>2, <1>5, <1>6, SlidIs, Zenon
<1> QED
    BY <1>6, <1>7 DEF Used

LEMMA PicOne ==
    ASSUME OwnsInv, PicsInv, NEW d \in DOMAIN dpb, NEW x, NEW a, Holds(x, a), planeOf[x] = dpb[d].pic,
           dpb[d].pic # 0
    PROVE  dpb[d].plane = x /\ dpb[d].aux = a
<1>1. Holds(dpb[d].plane, dpb[d].aux)
    BY DEF Holds
<1>2. Shelved(x) /\ x \in Planes /\ Shelved(dpb[d].plane) /\ dpb[d].plane \in Planes
    BY <1>1, HoldsIs
<1>3. planeOf[dpb[d].plane] = dpb[d].pic
    BY DEF PicsInv
<1>4. dpb[d].plane = x
    BY <1>2, <1>3 DEF PicsInv
<1> QED
    BY <1>1, <1>4, HoldsOne

\* The anchors an anchor reads stay through the slide of its launch.
LEMMA AnchorStays ==
    ASSUME IInv, RInv, Pooled, OwnsInv, PoolInv, LastInv, PicsInv, last # 0, NEW r \in AnchorRefs
    PROVE  StaysIn(Slid, r)
<1>1. PICK pinned : pinned = {d \in Used : dpb[d].pic = last}
    BY Zenon
<1>2. PICK n, S : n = cfg.ref - Cardinality(pinned) /\ S = Used \ pinned
    BY Zenon
<1>3. PICK d \in Used : /\ r = Borrow(d)
                        /\ d \in pinned \/ Cardinality({x \in S : dpb[x].fn > dpb[d].fn}) < n
    BY <1>1, <1>2 DEF AnchorRefs, First
<1>4. WindowInv /\ IsFiniteSet(Used) /\ Used \subseteq DOMAIN dpb /\ Cardinality(Used) \in Nat
    BY PartsIs, UsedIs
<1>5. SUFFICES Slid[d].used
  <2>1. d \in DOMAIN dpb /\ r.pic = dpb[d].pic /\ r.aux = dpb[d].aux /\ r.plane = dpb[d].plane
      BY <1>3, <1>4 DEF Borrow
  <2> QED
      BY <2>1 DEF StaysIn
<1>6. CASE d \in pinned
  <2>1. PICK e \in Used : dpb[e].pic = last /\ dpb[e].fn >= nextFn - (1 + Count(slot))
      BY DEF LastInv, Among
  <2>2. dpb[e].plane = dpb[d].plane
    <3>1. Holds(dpb[e].plane, dpb[e].aux) /\ planeOf[dpb[e].plane] = last /\ dpb[d].pic = last
        BY <1>1, <1>4, <1>6, <2>1 DEF Holds, PicsInv
    <3> QED
        BY <1>4, <3>1, PicOne
  <2>3. e = d
      BY <1>4, <2>2 DEF OwnsInv, Apart, PlanesApart
  <2> QED
      BY <2>1, <2>3, NewStays
<1>7. CASE d \notin pinned
  <2>1. SUFFICES ASSUME ~Slid[d].used PROVE FALSE
      OBVIOUS
  <2>2. Cardinality(Used) >= Window /\ d = Victim
    <3>1. dpb[d].used /\ d \in DOMAIN dpb /\ dpb = [i \in 1 .. DpbSize |-> dpb[i]]
        BY <1>4 DEF Used, WindowInv
    <3>2. Slid # dpb
        BY <2>1, <3>1, Zenon
    <3>3. Cardinality(Used) >= Window /\ Slid = [dpb EXCEPT ![Victim].used = FALSE]
        BY <3>2 DEF Slid
    <3>4. d # Victim => Slid[d] = dpb[d]
        BY <3>1, <3>3
    <3> QED
        BY <2>1, <3>1, <3>3, <3>4
  <2>3. \A x \in Used : dpb[d].fn <= dpb[x].fn
      BY <1>4, <2>2, VictimIs
  <2>4. \A x \in Used : x # d => dpb[x].fn > dpb[d].fn
    <3>1. SUFFICES ASSUME NEW x \in Used, x # d PROVE dpb[x].fn > dpb[d].fn
        OBVIOUS
    <3>2. dpb[x].fn \in Nat /\ dpb[d].fn \in Nat
        BY <1>4, UsedIs
    <3>3. dpb[x].fn # dpb[d].fn
        BY <1>4, <3>1, Zenon DEF WindowInv
    <3> QED
        BY <2>3, <3>2, <3>3
  <2>5. S \ {d} = {x \in S : dpb[x].fn > dpb[d].fn}
    <3>1. dpb[d].fn \in Nat
        BY <1>4, UsedIs
    <3> QED
        BY <1>2, <2>4, <3>1
  <2>6. PICK u, p, w, f \in Nat : u = Cardinality(Used) /\ p = Cardinality(pinned) /\ w = Window /\ f = cfg.ref
    <3>1. IsFiniteSet(pinned)
        BY <1>1, <1>4, FS_Subset
    <3>2. Cardinality(pinned) \in Nat
        BY <3>1, FS_CardinalityType
    <3> QED
        BY <1>4, <3>2, PooledIs
  <2>7. IsFiniteSet(S) /\ Cardinality(S) = u - p
    <3>1. PICK U, V : U = Used /\ V = U \cap pinned
        BY Zenon
    <3>2. V = pinned /\ IsFiniteSet(U)
        BY <1>1, <1>4, <3>1
    <3>3. IsFiniteSet(U \ pinned) /\ Cardinality(U \ pinned) = Cardinality(U) - Cardinality(U \cap pinned)
        BY <3>2, FS_Difference, Zenon
    <3>4. Cardinality(U) = u /\ Cardinality(U \cap pinned) = p /\ S = U \ pinned
        BY <1>2, <2>6, <3>1, <3>2, Zenon
    <3> QED
        BY <3>3, <3>4
  <2>8. d \in S /\ Cardinality(S \ {d}) = Cardinality(S) - 1
    <3>1. d \in S
        BY <1>2, <1>7
    <3> QED
        BY <2>7, <3>1, FS_RemoveElement, Zenon
  <2>9. u - p - 1 < f - p
      BY <1>2, <1>3, <1>7, <2>5, <2>6, <2>7, <2>8, Zenon
  <2>10. f < w /\ u >= w
      BY <2>2, <2>6, PooledIs
  <2> QED
      BY <2>6, <2>9, <2>10
<1> QED
    BY <1>6, <1>7

\* So does the picture whose motion it takes for its own.
LEMMA ColStays ==
    ASSUME IInv, RInv, Pooled, Sound, OwnsInv, PoolInv, PicsInv, LentInv, NEW c \in ColSource
    PROVE  StaysIn(Slid, c)
<1>1. bur[slot].live /\ Fly = slot /\ c \in bur[slot].col
    BY FlyIs DEF ColSource
<1>2. PICK s \in LiveSlots : s = slot
    BY <1>1 DEF LiveSlots, IInv, TypeInv
<1>3. s \in Slots /\ ChainOf(s) /\ OwnPic(s, c.pic) /\ StaysOf(s) /\ LentOf(s) /\ Count(s) \in Nat
  <2>1. s \in Slots /\ ChainOf(s)
      BY PartsIs DEF LiveSlots, ChainInv
  <2>2. OwnPic(s, c.pic) /\ StaysOf(s) /\ LentOf(s)
      BY <1>1, <1>2, PartsIs DEF PlanInv, StayInv, LentInv
  <2> QED
      BY <2>1, <2>2, MarkedIs
<1>4. PICK q : q = bur[s].seq
    OBVIOUS
<1>5. Lent(q, c)
    BY <1>1, <1>2, <1>3, <1>4 DEF LentOf
<1>6. PICK x \in Planes : Keeps(q, x, c.aux) /\ planeOf[x] = c.pic /\ (c.plane # NoBuffer => x = c.plane)
    BY <1>5 DEF Lent
<1>7. Holds(x, c.aux)
    BY <1>6, KeepsIs
<1>8. WindowInv /\ Used \subseteq DOMAIN dpb /\ nextFn \in Nat
    BY PartsIs, UsedIs DEF WindowInv
<1>9. PICK d \in Used : dpb[d].pic = c.pic /\ dpb[d].fn >= nextFn - (1 + Count(s))
  <2>1. CASE c.pic = bur[s].pic
      BY <1>3, <2>1 DEF StaysOf, Among
  <2>2. CASE OwnRef(s, c.pic)
    <3>1. PICK i \in Marked(s) : bur[s].bs[i].pic = c.pic
        BY <2>2 DEF OwnRef
    <3>2. PICK d \in Used : dpb[d].pic = c.pic /\ dpb[d].fn >= nextFn - Count(s)
        BY <1>3, <3>1 DEF StaysOf, Among
    <3>3. dpb[d].fn \in Nat
        BY <1>8, UsedIs
    <3>4. dpb[d].fn >= nextFn - (1 + Count(s))
        BY <1>3, <1>8, <3>2, <3>3
    <3> QED
        BY <3>2, <3>4
  <2> QED
      BY <1>3, <2>1, <2>2 DEF OwnPic
<1>10. c.pic # 0
  <2>1. CASE c.pic = bur[s].pic
    <3>1. PICK g : g = bur[s].group
        OBVIOUS
    <3>2. bur[s].pic = 8 * g /\ g \in Nat /\ g >= 1
        BY <1>3, <3>1, SeqIs, Zenon DEF ChainOf, AnchorOf, IInv, TypeInv, BurstIs
    <3> QED
        BY <2>1, <3>2
  <2>2. CASE OwnRef(s, c.pic)
      BY <2>2, BPicIs DEF OwnRef, Marked
  <2> QED
      BY <1>3, <2>1, <2>2 DEF OwnPic
<1>11. dpb[d].plane = x /\ dpb[d].aux = c.aux
    BY <1>6, <1>7, <1>8, <1>9, <1>10, PicOne
<1>12. Slid[d].used
    BY <1>2, <1>9, NewStays
<1> QED
    BY <1>6, <1>8, <1>9, <1>11, <1>12 DEF StaysIn

LEMMA PrepareBuffers ==
    ASSUME IInv, RInv, WInv, LInv, Prepare
    PROVE  WInv' /\ LInv'
<1>1. /\ UNCHANGED <<cfg, group, nbuf, slot, seq, bur, dpb, nextFn, rec, leaf, free, pend, auxOf, last>>
      /\ planeOf' = [planeOf EXCEPT ![rec] = AnchorOf(group)] /\ api = "ring" /\ api' = "begin"
      /\ prepped'.refs = AnchorRefs \cup ColSource
    BY DEF Prepare
<1>2. SUFFICES ASSUME Pooled PROVE WInv' /\ LInv'
  <2>1. Pooled' <=> Pooled
      BY <1>1 DEF Pooled
  <2> QED
      BY <1>2, <2>1 DEF WInv, LInv
<1>3. OwnsInv /\ PoolInv /\ LastInv /\ PicsInv /\ last # 0
    BY <1>1, <1>2 DEF WInv, LastInv
<1>4. /\ Slots' = Slots /\ Planes' = Planes /\ Auxes' = Auxes /\ NLeaf' = NLeaf /\ Bags' = Bags
      /\ Target' = Target /\ LiveSlots' = LiveSlots /\ Used' = Used /\ Slid' = Slid
      /\ PoolSize' = PoolSize /\ PerLaunch' = PerLaunch /\ Count(slot)' = Count(slot) /\ (Sound' <=> Sound)
  <2>1. Slots' = Slots /\ NLeaf' = NLeaf /\ Bags' = Bags /\ PoolSize' = PoolSize /\ PerLaunch' = PerLaunch
      BY <1>1 DEF Slots, NLeaf, Bags, PoolSize, PerLaunch
  <2>2. Window' = Window /\ Used' = Used /\ Count(slot)' = Count(slot)
      BY <1>1 DEF Window, Used, Count, Marked
  <2>3. Victim' = Victim /\ DpbSize' = DpbSize
      BY <1>1, <2>2 DEF Victim, DpbSize
  <2>4. Planes' = Planes /\ Auxes' = Auxes /\ Target' = Target
      BY <1>1, <2>1, <2>3 DEF Planes, Auxes, PoolBag, Target, Keys
  <2>5. LiveSlots' = LiveSlots /\ (Sound' <=> Sound) /\ Slid' = Slid
      BY <1>1, <2>1, <2>2, <2>3 DEF LiveSlots, Sound, Slid
  <2> QED
      BY <2>1, <2>2, <2>4, <2>5
<1>5. /\ rec \in Planes /\ ~Shelved(rec) /\ planeOf'[rec] = AnchorOf(group)
      /\ planeOf' = [x \in Planes |-> planeOf'[x]]
      /\ \A x \in Planes : x # rec => planeOf'[x] = planeOf[x]
    BY <1>1, <1>3, TargetIs DEF OwnsInv
<1>6. OwnsInv'
  <2>1. Apart(dpb, Bags, Target)'
      BY <1>1, <1>3, <1>4 DEF OwnsInv, Apart, PlanesApart, AuxesApart, PlanesKnown
  <2> QED
      BY <1>1, <1>3, <1>4, <1>5, <2>1 DEF OwnsInv
<1>7. PoolInv'
  <2>1. \A q : ParkedSince(q)' = ParkedSince(q)
      BY <1>1 DEF ParkedSince
  <2> QED
      BY <1>1, <1>3, <1>4, <2>1 DEF PoolInv
<1>8. LastInv'
  <2>1. Among(last, 1 + Count(slot))' <=> Among(last, 1 + Count(slot))
      BY <1>1, <1>4 DEF Among
  <2> QED
      BY <1>1, <1>3, <2>1 DEF LastInv
<1>9. \A x : (Shelved(x)' <=> Shelved(x)) /\ \A a : Holds(x, a)' <=> Holds(x, a)
    BY <1>1, <1>4 DEF Shelved, Holds
<1>10. \A x : Shelved(x) => x \in Planes /\ planeOf'[x] = planeOf[x]
    BY <1>3, <1>5, ShelvedIs
<1>11. PicsInv'
  <2>1. \A d \in DOMAIN dpb' : planeOf'[dpb'[d].plane] = dpb'[d].pic
    <3>1. SUFFICES ASSUME NEW d \in DOMAIN dpb PROVE planeOf'[dpb[d].plane] = dpb[d].pic
        BY <1>1
    <3>2. Shelved(dpb[d].plane)
        BY DEF Shelved
    <3> QED
        BY <1>3, <1>10, <3>2 DEF PicsInv
  <2>2. ASSUME NEW x \in Planes', Shelved(x)' PROVE Entered(planeOf[x])'
    <3>1. Entered(planeOf[x]) /\ planeOf'[x] = planeOf[x]
        BY <1>3, <1>4, <1>9, <1>10, <2>2 DEF PicsInv
    <3> QED
        BY <1>1, <3>1 DEF Entered, OwnPic, OwnRef, Marked
  <2>3. \A x, y \in Planes' :
           Shelved(x)' /\ Shelved(y)' /\ planeOf'[x] = planeOf'[y] /\ planeOf'[x] # 0 => x = y
      BY <1>3, <1>4, <1>9, <1>10 DEF PicsInv
  <2>4. api' = "begin" => planeOf'[rec'] = AnchorOf(group')
      BY <1>1, <1>5
  <2> QED
      BY <2>1, <2>2, <2>3, <2>4 DEF PicsInv, AnchorOf
<1>12. ASSUME Sound' PROVE LentInv' /\ FilledInv' /\ ReadyInv'
  <2>1. LentInv /\ FilledInv /\ Sound
      BY <1>2, <1>4, <1>12 DEF LInv
  <2>2. PICK plane : plane = rec
      OBVIOUS
  <2>3. Spares(plane)
      BY <1>4, <1>5, <2>2 DEF Spares
  <2>4. \A q : Retains(q)
      BY <1>1 DEF Retains, Keeps
  <2>5. ASSUME NEW s \in LiveSlots PROVE LentOf(s)'
    <3>1. PICK q : q = bur[s].seq
        OBVIOUS
    <3>2. s \in Slots /\ LentOf(s) /\ Retains(q) /\ Same(bur'[s], bur[s])
        BY <1>1, <2>1, <2>4, SeqIs DEF LentInv, Same
    <3>3. \A i \in 1 .. Len(bur[s].bs) :
             leaf'[s][i] = leaf[s][i] /\ leaf[s][i] \in Planes /\ plane # leaf[s][i]
        BY <1>1, <1>3, <2>2, <3>2, LeafIs, TargetIs, Zenon
    <3>4. bur'[s].bs = bur[s].bs /\ bur'[s].col \subseteq bur[s].col
        BY <1>1
    <3> QED
        BY <1>3, <2>3, <3>1, <3>2, <3>3, <3>4, LentOfStays
  <2>6. LentInv'
      BY <1>4, <2>5 DEF LentInv
  <2>7. FilledInv'
    <3>1. \A p : Awaited(p)' <=> Awaited(p)
        BY <1>1, <1>4 DEF Awaited, Marked
    <3>2. ASSUME NEW x \in Planes, NEW a \in Auxes, Holds(x, a)
          PROVE  Awaited(planeOf[x])' \/ auxOf'[a] = planeOf'[x]
      <4>1. PICK p : p = planeOf[x]
          OBVIOUS
      <4>2. Awaited(p) \/ auxOf[a] = p
          BY <2>1, <3>2, <4>1 DEF FilledInv
      <4>3. planeOf'[x] = p
          BY <1>3, <1>10, <3>2, <4>1, HoldsIs
      <4>4. Awaited(p)' \/ auxOf'[a] = p
          BY <1>1, <3>1, <4>2
      <4> QED
          BY <4>3, <4>4 DEF Awaited
    <3> QED
        BY <1>4, <1>9, <3>2 DEF FilledInv
  <2>8. ReadyInv'
    <3>1. SUFFICES ASSUME NEW r \in AnchorRefs \cup ColSource PROVE StaysIn(Slid, r)'
        BY <1>1 DEF ReadyInv
    <3>2. StaysIn(Slid, r)
        BY <1>2, <1>3, <2>1, <3>1, AnchorStays, ColStays
    <3> QED
        BY <1>1, <1>4, <3>2 DEF StaysIn
  <2> QED
      BY <2>6, <2>7, <2>8
<1> QED
    BY <1>6, <1>7, <1>8, <1>11, <1>12 DEF WInv, LInv

-----------------------------------------------------------------------------
(* A picture takes its entry.                                               *)

\* What a picture that enters leaves as it is.
LEMMA SizesStay ==
    ASSUME cfg' = cfg
    PROVE  /\ (Pooled' <=> Pooled) /\ PerLaunch' = PerLaunch /\ PoolSize' = PoolSize /\ NLeaf' = NLeaf
           /\ Slots' = Slots /\ Planes' = Planes /\ Auxes' = Auxes /\ Keys' = Keys
<1>1. /\ (Pooled' <=> Pooled) /\ PerLaunch' = PerLaunch /\ PoolSize' = PoolSize /\ NLeaf' = NLeaf
      /\ Slots' = Slots
    BY DEF Pooled, PerLaunch, PoolSize, NLeaf, Slots
<1>2. Window' = Window
    BY DEF Window
<1>3. DpbSize' = DpbSize
    BY <1>2 DEF DpbSize
<1> QED
    BY <1>1, <1>3 DEF Planes, Auxes, PoolBag, Keys

\* With the target k the picture's plane has, and the next one in its place.
LEMMA PutOwns ==
    ASSUME IInv, PoolInv, OwnsInv, NEW d, NEW b, NEW n, NEW plane, NEW p, Put(d, b, n, plane, p),
           cfg' = cfg, NEW k \in Keys, Target[k] = plane, DOMAIN Target' = Keys, Target'[k] = b.plane,
           \A l \in Keys : l # k => Target'[l] = Target[l]
    PROVE  Apart(dpb, Bags, Target)'
<1>1. /\ d \in DOMAIN dpb /\ DOMAIN dpb' = DOMAIN dpb /\ dpb'[d].plane = plane /\ dpb'[d].aux = b.aux
      /\ n.plane = dpb[d].plane /\ n.aux = dpb[d].aux
      /\ \A e \in DOMAIN dpb : e # d => dpb'[e].plane = dpb[e].plane /\ dpb'[e].aux = dpb[e].aux
    BY DEF Put
<1>2. Bags' = (Bags \ {b}) \cup {n} /\ b \in Bags
    BY PutBags
<1>3. DOMAIN Target = Keys
    BY DEF Target
<1>4. Apart(dpb, Bags, Target)
    BY DEF OwnsInv
<1>5. PICK E, C, U : E = dpb' /\ C = Bags' /\ U = Target'
    OBVIOUS
<1>6. Trades(dpb, Bags, Target, E, C, U, d, b, n, k)
    BY <1>1, <1>2, <1>3, <1>5 DEF Trades
<1>7. Apart(E, C, U)
    BY <1>4, <1>6, TradeKeeps
<1>8. Planes' = Planes /\ Auxes' = Auxes
    BY SizesStay
<1>9. PlanesApart(dpb, Bags, Target)' /\ AuxesApart(dpb, Bags)'
    BY <1>5, <1>7 DEF Apart, PlanesApart, AuxesApart
<1>10. PlanesKnown(dpb, Bags, Target)'
    BY <1>5, <1>7, <1>8 DEF Apart, PlanesKnown
<1> QED
    BY <1>9, <1>10 DEF Apart

LEMMA BeginOwns ==
    ASSUME IInv, RInv, Pooled, PoolInv, OwnsInv, Begin,
           NEW d, NEW b, NEW n, NEW p, Put(d, b, n, rec, p)
    PROVE  OwnsInv'
<1>1. UNCHANGED <<cfg, leaf, planeOf>> /\ rec' = b.plane /\ auxOf' = [auxOf EXCEPT ![b.aux] = AnchorOf(group)]
    BY DEF Begin, Put
<1>2. /\ Slots' = Slots /\ Planes' = Planes /\ Auxes' = Auxes /\ NLeaf' = NLeaf /\ Keys' = Keys
    BY <1>1, SizesStay
<1>3. PICK k, plane : k = <<NoSlot, 0>> /\ plane = rec
    BY Zenon
<1>4. k \in Keys /\ Target[k] = plane
    BY <1>3, TargetIs
<1>5. DOMAIN Target' = Keys /\ Target'[k] = b.plane
    BY <1>1, <1>2, <1>3, <1>4 DEF Target
<1>6. ASSUME NEW l \in Keys, l # k PROVE Target'[l] = Target[l]
  <2>1. l[1] # NoSlot
    <3>1. PICK s \in Slots, i \in 1 .. NLeaf : l = <<s, i>>
        BY <1>3, <1>6 DEF Keys
    <3>2. s # NoSlot
        BY CfgIs DEF Slots, NoSlot, IInv, TypeInv
    <3> QED
        BY <3>1, <3>2
  <2> QED
      BY <1>1, <1>2, <2>1 DEF Target
<1>7. Apart(dpb, Bags, Target)'
    BY <1>1, <1>3, <1>4, <1>5, <1>6, PutOwns
<1>8. auxOf' = [y \in Auxes |-> auxOf'[y]]
    BY <1>1, Zenon DEF OwnsInv
<1> QED
    BY <1>1, <1>2, <1>7, <1>8 DEF OwnsInv

\* The bags parked since a launch, at the next one and behind a reference B.
LEMMA LaunchRoom ==
    ASSUME NEW a \in Nat, NEW p \in 1 .. 4, NEW c \in Nat, c < p, NEW m \in Nat, m <= a * p + c
    PROVE  m + 1 <= (a + 1) * p
<1>1. p = 1 \/ p = 2 \/ p = 3 \/ p = 4
    OBVIOUS
<1> QED
    BY <1>1

LEMMA PerLaunchIs ==
    ASSUME IInv, RInv, Pooled
    PROVE  PerLaunch \in 1 .. 4 /\ slot \in Slots /\ Count(slot) \in Nat /\ seq \in Nat
<1>1. PICK m \in 0 .. 3 : m = NRefB(cfg.bframes) /\ PerLaunch = 1 + m
    BY PooledIs
<1>2. slot \in Slots /\ ChainOf(slot) /\ seq \in Nat
    BY PartsIs DEF IInv, TypeInv, ChainInv
<1>3. Count(slot) \in Nat
    BY <1>2, MarkedIs
<1> QED
    BY <1>1, <1>2, <1>3

LEMMA BeginPool ==
    ASSUME IInv, RInv, Pooled, PoolInv, OwnsInv, Begin,
           NEW d, NEW b, NEW n, NEW p, Put(d, b, n, rec, p)
    PROVE  PoolInv'
<1>0. PICK g \in Slots : \E w : Launches(g, w)
    BY LaunchesIs
<1>1. PICK w : Launches(g, w)
    BY <1>0
<1>2. Count(slot)' = 0
  <2>1. Count(g)' = 0 /\ slot' = g
      BY <1>1, LaunchFacts DEF Launches
  <2> QED
      BY <2>1 DEF Count, Marked
<1>3. cfg' = cfg /\ seq' = seq + 1
    BY <1>1 DEF Launches
<1>4. PerLaunch' = PerLaunch /\ PoolSize' = PoolSize
    BY <1>3, SizesStay
<1>5. PICK r, z, c : r = PerLaunch /\ z = seq /\ c = Count(slot)
    OBVIOUS
<1>6. r \in 1 .. 4 /\ z \in Nat /\ c \in Nat /\ c < r
    BY <1>5, PerLaunchIs DEF PoolInv
<1>7. /\ IsFiniteSet(Bags') /\ Cardinality(Bags') = PoolSize
      /\ \A x \in Bags' : x.seq \in 0 .. z
    BY <1>5, PutPool
<1>8. free' \cap pend' = {}
    BY PutBags
<1>9. ASSUME NEW q \in 0 .. z + 1
      PROVE  Cardinality(ParkedSince(q)') <= (z + 1 - q) * r + 0
  <2>1. CASE q = z + 1
    <3>1. \A x \in pend' : ~(x.seq >= q)
        BY <1>6, <1>7, <2>1 DEF Bags
    <3>2. ParkedSince(q)' = {}
        BY <3>1 DEF ParkedSince
    <3>3. Cardinality(ParkedSince(q)') = 0
        BY <3>2, FS_EmptySet
    <3>4. (z + 1 - q) * r + 0 = 0
        BY <1>6, <2>1
    <3> QED
        BY <3>3, <3>4
  <2>2. CASE q # z + 1
    <3>1. q \in 0 .. z /\ q \in Nat
        BY <1>6, <2>2
    <3>2. PICK m \in Nat, m2 \in Nat :
             m = Cardinality(ParkedSince(q)) /\ m2 = Cardinality(ParkedSince(q)') /\ m2 <= m + 1
        BY <3>1, PutPool
    <3>3. PICK a \in Nat : a = z - q /\ z + 1 - q = a + 1
        BY <1>6, <3>1
    <3>4. m <= a * r + c
        BY <1>5, <3>1, <3>2, <3>3 DEF PoolInv
    <3>5. m + 1 <= (a + 1) * r
        BY <1>6, <3>4, LaunchRoom
    <3>6. (a + 1) * r \in Nat
        BY <1>6
    <3>7. m2 <= (a + 1) * r + 0
        BY <3>2, <3>5, <3>6
    <3> QED
        BY <3>2, <3>3, <3>7
  <2> QED
      BY <2>1, <2>2
<1>10. seq' = z + 1 /\ Count(slot)' = 0 /\ PerLaunch' = r /\ PoolSize' = PoolSize
    BY <1>2, <1>3, <1>4, <1>5
<1>11. \A q \in 0 .. seq' : Cardinality(ParkedSince(q)') <= (seq' - q) * PerLaunch' + Count(slot)'
  <2>1. SUFFICES ASSUME NEW q \in 0 .. seq'
                 PROVE  Cardinality(ParkedSince(q)') <= (seq' - q) * PerLaunch' + Count(slot)'
      OBVIOUS
  <2>2. q \in 0 .. z + 1
      BY <1>10
  <2>3. (seq' - q) * PerLaunch' + Count(slot)' = (z + 1 - q) * r + 0
    <3>1. PICK y \in Nat, f \in Nat, t \in Nat : y = seq' /\ f = PerLaunch' /\ t = Count(slot)'
        BY <1>6, <1>10
    <3>2. y = z + 1 /\ f = r /\ t = 0
        BY <1>10, <3>1
    <3>3. (y - q) * f + t = (z + 1 - q) * r + 0
      <4>1. PICK k \in Int : k = z + 1 - q /\ k = y - q
          BY <1>6, <2>1, <3>1, <3>2
      <4>2. f = r /\ t = 0 /\ k * f + t = k * r + 0
          BY <3>2
      <4> QED
          BY <4>1, <4>2, Zenon
    <3> QED
        BY <3>1, <3>3
  <2> QED
      BY <1>9, <2>2, <2>3
<1>12. \A x \in Bags' : x.seq \in 0 .. seq'
    BY <1>6, <1>7, <1>10
<1>13. Count(slot)' < PerLaunch'
    BY <1>6, <1>10
<1>14. IsFiniteSet(Bags') /\ Cardinality(Bags') = PoolSize'
    BY <1>7, <1>10
<1> QED
    BY <1>8, <1>11, <1>12, <1>13, <1>14 DEF PoolInv

LEMMA BeginPics ==
    ASSUME IInv, RInv, Pooled, PoolInv, OwnsInv, PicsInv, Begin,
           NEW d, NEW b, NEW n, Put(d, b, n, rec, AnchorOf(group)), NEW g \in Slots, NEW w, Launches(g, w)
    PROVE  PicsInv'
<1>1. /\ UNCHANGED <<cfg, planeOf>> /\ api = "begin" /\ api' = "retire" /\ slot' = g
      /\ bur'[g].live /\ bur'[g].group = group /\ bur'[g].pic = 8 * group /\ last' = 8 * group
    BY DEF Launches, Fresh, AnchorOf, Begin
<1>2. Planes' = Planes
    BY <1>1, SizesStay
<1>3. group \in Nat /\ group >= 1 /\ last <= 8 * (group - 1) /\ last \in Nat
    BY LaunchFacts, PartsIs DEF OrderInv
<1>4. planeOf[rec] = 8 * group
    BY <1>1 DEF PicsInv, AnchorOf
<1>5. \A x : Shelved(x)' => x = rec \/ Shelved(x)
    BY PutShelved
<1>6. ASSUME NEW x, Shelved(x)
      PROVE  planeOf[x] \in Nat /\ planeOf[x] <= 8 * (group - 1) /\ x \in Planes
  <2>1. Entered(planeOf[x]) /\ x \in Planes
      BY <1>6, ShelvedIs DEF PicsInv
  <2> QED
      BY <1>3, <2>1 DEF Entered
<1>7. \A e \in DOMAIN dpb' : planeOf'[dpb'[e].plane] = dpb'[e].pic
  <2>1. SUFFICES ASSUME NEW e \in DOMAIN dpb PROVE planeOf[dpb'[e].plane] = dpb'[e].pic
      BY <1>1 DEF Put
  <2>2. CASE e = d
      BY <1>4, <2>2 DEF Put, AnchorOf
  <2>3. CASE e # d
      BY <2>3 DEF Put, PicsInv
  <2> QED
      BY <2>2, <2>3
<1>8. ASSUME NEW x \in Planes', Shelved(x)' PROVE Entered(planeOf[x])'
  <2>1. PICK p : p = planeOf[x] /\ planeOf'[x] = p
      BY <1>1
  <2>2. CASE Shelved(x)
    <3>1. p \in Nat /\ p <= 8 * (group - 1) /\ p <= 8 * group
        BY <1>3, <1>6, <2>1, <2>2
    <3> QED
        BY <1>1, <2>1, <3>1 DEF Entered
  <2>3. CASE x = rec
    <3>1. p = 8 * group /\ p \in Nat
        BY <1>3, <1>4, <2>1, <2>3
    <3> QED
        BY <1>1, <2>1, <3>1 DEF Entered, OwnPic
  <2> QED
      BY <1>5, <1>8, <2>2, <2>3
<1>9. \A x, y \in Planes' :
         Shelved(x)' /\ Shelved(y)' /\ planeOf'[x] = planeOf'[y] /\ planeOf'[x] # 0 => x = y
  <2>1. SUFFICES ASSUME NEW x \in Planes, NEW y \in Planes, Shelved(x)', Shelved(y)',
                        planeOf[x] = planeOf[y], planeOf[x] # 0
                 PROVE  x = y
      BY <1>1, <1>2
  <2>2. CASE Shelved(x) /\ Shelved(y)
      BY <2>1, <2>2 DEF PicsInv
  <2>3. \A z : Shelved(z) => planeOf[z] # 8 * group
      BY <1>3, <1>6
  <2> QED
      BY <1>4, <1>5, <2>1, <2>2, <2>3
<1> QED
    BY <1>1, <1>7, <1>8, <1>9 DEF PicsInv

LEMMA BeginLent ==
    ASSUME IInv, RInv, Pooled, PoolInv, OwnsInv, PicsInv, LentInv, ReadyInv, Begin,
           NEW d, NEW b, NEW n, Put(d, b, n, rec, AnchorOf(group)), NEW g \in Slots, NEW w, Launches(g, w)
    PROVE  LentInv'
<1>1. /\ UNCHANGED <<cfg, planeOf, leaf>> /\ api = "begin" /\ bur'[g] = w
      /\ LiveSlots' = LiveSlots \cup {g} /\ g \notin LiveSlots
      /\ \A t \in Slots : t # g => bur'[t] = bur[t]
    BY DEF Launches, Begin
<1>2. Planes' = Planes /\ Auxes' = Auxes
    BY <1>1, SizesStay
<1>3. /\ w.seq = seq + 1 /\ w.refs = prepped.refs /\ w.col = {} /\ w.bs = <<>> /\ w.plane = rec
      /\ w.pic = AnchorOf(group)
    BY DEF Launches, Fresh
<1>4. /\ d \in DOMAIN dpb /\ DOMAIN dpb' = DOMAIN dpb /\ ~Slid[d].used
      /\ dpb'[d].plane = rec /\ dpb'[d].aux = b.aux /\ b \in Bags
      /\ \A e \in DOMAIN dpb : e # d => dpb'[e].plane = dpb[e].plane /\ dpb'[e].aux = dpb[e].aux
    BY PutBags DEF Put
<1>5. ASSUME NEW t \in LiveSlots PROVE LentOf(t)'
  <2>1. PICK q : q = bur[t].seq
      OBVIOUS
  <2>2. t \in Slots /\ LentOf(t) /\ bur'[t] = bur[t]
      BY <1>1, <1>5, SeqIs DEF LentInv
  <2>3. Retains(q)
      BY <2>1, PutKeeps DEF Retains
  <2>4. ~Shelved(NoBuffer) /\ NoBuffer \notin Planes
    <3>1. NoBuffer \notin Planes
        BY DEF NoBuffer, Planes
    <3> QED
        BY <3>1, ShelvedIs
  <2>5. Spares(NoBuffer)
      BY <1>1, <1>2, <2>4 DEF Spares
  <2>6. \A i \in 1 .. Len(bur[t].bs) :
           leaf'[t][i] = leaf[t][i] /\ leaf[t][i] \in Planes /\ NoBuffer # leaf[t][i]
      BY <1>1, <2>4, LeafIs, Zenon
  <2>7. Same(bur'[t], bur[t]) /\ bur'[t].bs = bur[t].bs /\ bur'[t].col \subseteq bur[t].col
      BY <2>2 DEF Same
  <2> QED
      BY <2>1, <2>2, <2>3, <2>5, <2>6, <2>7, LentOfStays
<1>6. LentOf(g)'
  <2>1. \A r \in bur'[g].refs \cup bur'[g].col : Lent(bur[g].seq, r)'
    <3>1. SUFFICES ASSUME NEW r \in prepped.refs PROVE Lent(bur[g].seq, r)'
        BY <1>1, <1>3
    <3>2. StaysIn(Slid, r)
        BY <1>1, <3>1 DEF ReadyInv
    <3>3. PICK e \in DOMAIN dpb : /\ Slid[e].used /\ dpb[e].pic = r.pic /\ dpb[e].aux = r.aux
                                  /\ (r.plane # NoBuffer => dpb[e].plane = r.plane)
        BY <3>2 DEF StaysIn
    <3>4. PICK x : x = dpb[e].plane
        OBVIOUS
    <3>5. e # d
        BY <1>4, <3>3
    <3>6. Keeps(bur[g].seq, x, r.aux)'
        BY <1>4, <3>3, <3>4, <3>5 DEF Keeps
    <3>7. x \in Planes' /\ planeOf'[x] = r.pic
      <4>1. Shelved(x)
          BY <3>4 DEF Shelved
      <4> QED
          BY <1>1, <1>2, <3>3, <3>4, <4>1, ShelvedIs DEF PicsInv
    <3> QED
        BY <3>3, <3>4, <3>6, <3>7 DEF Lent
  <2>2. Len(bur'[g].bs) = 0
      BY <1>1, <1>3
  <2>3. planeOf'[bur'[g].plane] = bur'[g].pic
      BY <1>1, <1>3 DEF PicsInv
  <2>4. \E a \in Auxes' : Keeps(bur[g].seq, bur[g].plane, a)'
    <3>1. b.aux \in Auxes'
        BY <1>2, <1>4 DEF OwnsInv, Apart, PlanesKnown
    <3>2. bur'[g].plane = rec
        BY <1>1, <1>3
    <3> QED
        BY <1>4, <3>1, <3>2 DEF Keeps
  <2> QED
      BY <2>1, <2>2, <2>3, <2>4 DEF LentOf
<1> QED
    BY <1>1, <1>5, <1>6 DEF LentInv

LEMMA BeginFilled ==
    ASSUME IInv, RInv, Pooled, PoolInv, OwnsInv, PicsInv, FilledInv, Begin,
           NEW d, NEW b, NEW n, Put(d, b, n, rec, AnchorOf(group)), NEW g \in Slots, NEW w, Launches(g, w)
    PROVE  FilledInv'
<1>1. /\ UNCHANGED <<cfg, planeOf>> /\ api = "begin"
      /\ auxOf' = [auxOf EXCEPT ![b.aux] = AnchorOf(group)]
      /\ LiveSlots' = LiveSlots \cup {g} /\ g \notin LiveSlots
      /\ \A t \in Slots : t # g => bur'[t] = bur[t]
    BY DEF Launches, Begin, Put
<1>2. Planes' = Planes /\ Auxes' = Auxes
    BY <1>1, SizesStay
<1>3. b \in Bags /\ b.aux \in Auxes
    BY PutBags DEF OwnsInv, Apart, PlanesKnown
<1>4. auxOf'[b.aux] = AnchorOf(group) /\ \A a \in Auxes : a # b.aux => auxOf'[a] = auxOf[a]
    BY <1>1, <1>3 DEF OwnsInv
<1>5. ASSUME NEW p, Awaited(p) PROVE Awaited(p)'
  <2>1. PICK t \in LiveSlots : \E i \in Marked(t) : bur[t].bs[i].pic = p /\ i > bur[t].coded
      BY <1>5 DEF Awaited
  <2>2. t \in LiveSlots' /\ bur'[t] = bur[t]
      BY <1>1 DEF LiveSlots
  <2> QED
      BY <2>1, <2>2 DEF Awaited, Marked
<1>6. ASSUME NEW x \in Planes, NEW a \in Auxes, Holds(x, a)'
      PROVE  Awaited(planeOf[x])' \/ auxOf'[a] = planeOf'[x]
  <2>1. PICK p : p = planeOf[x] /\ planeOf'[x] = p
      BY <1>1
  <2>2. CASE x = rec /\ a = b.aux
      BY <1>1, <1>4, <2>1, <2>2 DEF PicsInv
  <2>3. CASE Holds(x, a) /\ a # b.aux
    <3>1. Awaited(p) \/ auxOf[a] = p
        BY <2>1, <2>3 DEF FilledInv
    <3>2. Awaited(p)' \/ auxOf'[a] = p
        BY <1>4, <1>5, <2>3, <3>1
    <3> QED
        BY <2>1, <3>2 DEF Awaited
  <2> QED
      BY <1>6, <2>2, <2>3, PutShelved
<1> QED
    BY <1>2, <1>6 DEF FilledInv

LEMMA BeginBuffers ==
    ASSUME IInv, RInv, WInv, LInv, Begin
    PROVE  WInv' /\ LInv'
<1>1. cfg' = cfg /\ api = "begin" /\ api' = "retire" /\ Enter(AnchorOf(group), rec, seq + 1)
    BY DEF Begin
<1>2. SUFFICES ASSUME Pooled PROVE WInv' /\ LInv'
  <2>1. Pooled' <=> Pooled
      BY <1>1 DEF Pooled
  <2> QED
      BY <1>2, <2>1 DEF WInv, LInv
<1>3. OwnsInv /\ PoolInv /\ LastInv /\ PicsInv
    BY <1>2 DEF WInv
<1>4. PICK plane, p, before : plane = rec /\ p = AnchorOf(group) /\ before = seq + 1
    OBVIOUS
<1>5. PICK d, b, n : Put(d, b, n, plane, p)
    BY <1>1, <1>2, <1>3, <1>4, PutsIs
<1>6. Put(d, b, n, rec, AnchorOf(group))
    BY <1>4, <1>5
<1>0. PICK g \in Slots : \E w : Launches(g, w)
    BY LaunchesIs
<1>7. PICK w : Launches(g, w)
    BY <1>0
<1>8. OwnsInv' /\ PoolInv'
    BY <1>2, <1>3, <1>6, BeginOwns, BeginPool
<1>9. PicsInv'
    BY <1>2, <1>3, <1>6, <1>7, BeginPics
<1>10. LastInv'
  <2>1. p \in Nat /\ last' = p
    <3>1. group \in Nat
        BY DEF IInv, TypeInv
    <3> QED
        BY <1>4, <1>7, <3>1 DEF AnchorOf, Launches
  <2>2. Enters(p) /\ WindowInv
      BY <1>1, <1>4, <2>1, EnterIs, PartsIs
  <2>3. Count(slot)' = 0
    <3>1. Count(g)' = 0 /\ slot' = g
        BY <1>7, LaunchFacts DEF Launches
    <3> QED
        BY <3>1 DEF Count, Marked
  <2>4. Among(p, 1)'
      BY <1>1, <2>1, <2>2, EntersAmong
  <2>5. Among(last, 1 + Count(slot))'
      BY <2>1, <2>3, <2>4 DEF Among
  <2> QED
      BY <1>1, <2>5 DEF LastInv
<1>11. ASSUME Sound' PROVE LentInv' /\ FilledInv' /\ ReadyInv'
  <2>1. Sound
      BY <1>7, <1>11, LaunchFacts
  <2>2. LentInv /\ FilledInv /\ ReadyInv
      BY <1>2, <2>1 DEF LInv
  <2>3. LentInv' /\ FilledInv'
      BY <1>2, <1>3, <1>6, <1>7, <2>2, BeginLent, BeginFilled
  <2> QED
      BY <1>1, <2>3 DEF ReadyInv
<1> QED
    BY <1>8, <1>9, <1>10, <1>11 DEF WInv, LInv

-----------------------------------------------------------------------------
(* An anchor coded with nothing in flight.                                  *)

\* It takes the entry d and leaves its plane to the next.
Swaps(d, p) ==
  /\ d \in DOMAIN dpb /\ DOMAIN dpb' = DOMAIN dpb
  /\ dpb'[d].used /\ dpb'[d].plane = rec /\ dpb'[d].aux = dpb[d].aux /\ dpb'[d].pic = p
  /\ dpb'[d].fn = nextFn' - 1
  /\ \A e \in DOMAIN dpb : e # d => /\ dpb'[e].plane = dpb[e].plane /\ dpb'[e].aux = dpb[e].aux
                                    /\ dpb'[e].pic = dpb[e].pic
  /\ rec' = dpb[d].plane /\ planeOf' = [planeOf EXCEPT ![rec] = p]
  /\ auxOf' = [auxOf EXCEPT ![dpb[d].aux] = p]

LEMMA SwapsIs ==
    ASSUME IInv, RInv, NEW idr \in BOOLEAN, SerialAnchor(idr)
    PROVE  \E d : Swaps(d, AnchorOf(group))
<1>1. WindowInv /\ nextFn \in Nat
    BY PartsIs DEF WindowInv
<1>2. PICK D, T, R : D = dpb /\ T = Slid /\ R = [d \in DOMAIN dpb |-> [dpb[d] EXCEPT !.used = FALSE]]
    BY Zenon
<1>3. /\ DOMAIN D = 1 .. DpbSize /\ D = [i \in 1 .. DpbSize |-> D[i]]
      /\ \A i \in 1 .. DpbSize : EntryIs(D[i])
      /\ DpbSize \in Nat /\ DpbSize = Window + 1 /\ Window \in Nat
    BY <1>1, <1>2, UsedIs DEF WindowInv
<1>4. PICK old : old = (IF idr THEN R ELSE T)
    OBVIOUS
<1>5. /\ DOMAIN old = 1 .. DpbSize /\ old = [i \in 1 .. DpbSize |-> old[i]]
      /\ \A e \in 1 .. DpbSize : old[e].plane = D[e].plane /\ old[e].aux = D[e].aux /\ old[e].pic = D[e].pic
  <2>1. CASE idr
    <3>1. old = R
        BY <1>4, <2>1
    <3>2. DOMAIN old = 1 .. DpbSize /\ \A e \in 1 .. DpbSize : old[e] = [D[e] EXCEPT !.used = FALSE]
        BY <1>2, <1>3, <3>1, Zenon
    <3>3. ASSUME NEW e \in 1 .. DpbSize
          PROVE  old[e].plane = D[e].plane /\ old[e].aux = D[e].aux /\ old[e].pic = D[e].pic
      <4>1. PICK x : x = D[e]
          OBVIOUS
      <4>2. EntryIs(x) /\ old[e] = [x EXCEPT !.used = FALSE]
          BY <1>3, <3>2, <4>1
      <4> QED
          BY <4>1, <4>2 DEF EntryIs
    <3>4. old = [i \in 1 .. DpbSize |-> old[i]]
        BY <1>2, <1>3, <3>1, Zenon
    <3> QED
        BY <3>2, <3>3, <3>4
  <2>2. CASE ~idr
    <3>1. old = T
        BY <1>4, <2>2
    <3>2. DOMAIN T = DOMAIN D /\ T = [i \in 1 .. DpbSize |-> T[i]]
        BY <1>1, <1>2, SlidMoves, SlidIs, Zenon
    <3>3. \A e \in DOMAIN D : T[e].plane = D[e].plane /\ T[e].aux = D[e].aux /\ T[e].pic = D[e].pic
        BY <1>1, <1>2, SlidMoves
    <3> QED
        BY <1>3, <3>1, <3>2, <3>3
  <2> QED
      BY <2>1, <2>2
<1>6. PICK d : d = Min({x \in DOMAIN old : ~old[x].used})
    OBVIOUS
<1>7. d \in 1 .. DpbSize
  <2>1. CASE idr
    <3>1. \A e \in 1 .. DpbSize : ~old[e].used
      <4>1. SUFFICES ASSUME NEW e \in 1 .. DpbSize PROVE ~old[e].used
          OBVIOUS
      <4>2. PICK x : x = D[e]
          OBVIOUS
      <4>3. EntryIs(x) /\ old[e] = [x EXCEPT !.used = FALSE]
          BY <1>2, <1>3, <1>4, <2>1, <4>2, Zenon
      <4> QED
          BY <4>3 DEF EntryIs
    <3>2. PICK S : S = {x \in DOMAIN old : ~old[x].used}
        BY Zenon
    <3>3. S = 1 .. DpbSize
        BY <1>5, <3>1, <3>2
    <3>4. S \subseteq Nat /\ 1 \in S
        BY <1>3, <3>3
    <3>5. Min(S) \in S
        BY <3>4, MinIs, Zenon
    <3> QED
        BY <1>6, <3>2, <3>3, <3>5
  <2>2. CASE ~idr
    <3>1. old = T
        BY <1>4, <2>2
    <3> QED
        BY <1>1, <1>2, <1>6, <3>1, HandoutIs
  <2> QED
      BY <2>1, <2>2
<1>8. PICK p, h, x : /\ p = AnchorOf(group) /\ h = (IF idr THEN 0 ELSE nextFn)
                     /\ x = [used |-> TRUE, pic |-> p, fn |-> h, plane |-> rec, aux |-> D[d].aux]
    BY Zenon
<1>9. /\ dpb' = [old EXCEPT ![d] = x] /\ planeOf' = [planeOf EXCEPT ![rec] = p]
      /\ auxOf' = [auxOf EXCEPT ![D[d].aux] = p] /\ rec' = D[d].plane
    BY <1>2, <1>4, <1>6, <1>8 DEF SerialAnchor
<1>10. x.used /\ x.pic = p /\ x.fn = h /\ x.plane = rec /\ x.aux = D[d].aux
    BY <1>8
<1>11. h = nextFn' - 1
    BY <1>1, <1>8 DEF SerialAnchor
<1>12. DOMAIN dpb' = DOMAIN D /\ dpb'[d] = x /\ \A e \in DOMAIN D : e # d => dpb'[e] = old[e]
    BY <1>3, <1>5, <1>7, <1>9
<1>13. Swaps(d, p)
    BY <1>2, <1>3, <1>5, <1>7, <1>9, <1>10, <1>11, <1>12 DEF Swaps
<1> QED
    BY <1>8, <1>13

LEMMA SerialOwns ==
    ASSUME IInv, OwnsInv, UNCHANGED <<cfg, leaf, free, pend>>, NEW p, NEW d, Swaps(d, p)
    PROVE  OwnsInv'
<1>1. /\ Slots' = Slots /\ Planes' = Planes /\ Auxes' = Auxes /\ NLeaf' = NLeaf /\ Keys' = Keys
    BY SizesStay
<1>2. Bags' = Bags
    BY DEF Bags
<1>3. PICK k : k = <<NoSlot, 0>>
    BY Zenon
<1>4. k \in Keys /\ Target[k] = rec /\ DOMAIN Target = Keys
    BY <1>3, TargetIs DEF Target
<1>5. DOMAIN Target' = Keys /\ Target'[k] = dpb[d].plane
    BY <1>1, <1>3, <1>4 DEF Target, Swaps
<1>6. ASSUME NEW l \in Keys, l # k PROVE Target'[l] = Target[l]
  <2>1. l[1] # NoSlot
    <3>1. PICK s \in Slots, i \in 1 .. NLeaf : l = <<s, i>>
        BY <1>3, <1>6 DEF Keys
    <3>2. s # NoSlot
        BY CfgIs DEF Slots, NoSlot, IInv, TypeInv
    <3> QED
        BY <3>1, <3>2
  <2> QED
      BY <1>1, <2>1 DEF Target
<1>7. PICK D, T, E, U : D = dpb /\ T = Target /\ E = dpb' /\ U = Target'
    OBVIOUS
<1>8. Apart(D, Bags, T)
    BY <1>7 DEF OwnsInv
<1>9. /\ d \in DOMAIN D /\ k \in DOMAIN T /\ DOMAIN E = DOMAIN D /\ E[d].plane = T[k]
      /\ \A e \in DOMAIN D : E[e].aux = D[e].aux /\ (e # d => E[e].plane = D[e].plane)
      /\ DOMAIN U = DOMAIN T /\ U[k] = D[d].plane /\ \A l \in DOMAIN T : l # k => U[l] = T[l]
    BY <1>4, <1>5, <1>6, <1>7 DEF Swaps
<1>10. Apart(E, Bags, U)
    BY <1>8, <1>9, SwapKeeps
<1>11. PlanesApart(dpb, Bags, Target)' /\ AuxesApart(dpb, Bags)'
    BY <1>2, <1>7, <1>10 DEF Apart, PlanesApart, AuxesApart
<1>12. PlanesKnown(dpb, Bags, Target)'
    BY <1>1, <1>2, <1>7, <1>10 DEF Apart, PlanesKnown
<1>13. planeOf' = [x \in Planes |-> planeOf'[x]] /\ auxOf' = [x \in Auxes |-> auxOf'[x]]
    BY Zenon DEF Swaps, OwnsInv
<1> QED
    BY <1>1, <1>11, <1>12, <1>13 DEF OwnsInv, Apart

\* Where planes are, behind it.
LEMMA SwapsShelved ==
    ASSUME IInv, OwnsInv, UNCHANGED <<free, pend>>, NEW p, NEW d, Swaps(d, p)
    PROVE  /\ \A x : Shelved(x)' => x = rec \/ (Shelved(x) /\ x # rec)
           /\ \A x, a : Holds(x, a)' => \/ x = rec /\ a = dpb[d].aux
                                        \/ Holds(x, a) /\ a # dpb[d].aux /\ x # rec
           /\ planeOf'[rec] = p /\ auxOf'[dpb[d].aux] = p
           /\ \A x \in Planes : x # rec => planeOf'[x] = planeOf[x]
           /\ \A a \in Auxes : a # dpb[d].aux => auxOf'[a] = auxOf[a]
<1>1. Bags' = Bags
    BY DEF Bags
<1>2. /\ d \in DOMAIN dpb /\ DOMAIN dpb' = DOMAIN dpb /\ dpb'[d].plane = rec /\ dpb'[d].aux = dpb[d].aux
      /\ \A e \in DOMAIN dpb : e # d => dpb'[e].plane = dpb[e].plane /\ dpb'[e].aux = dpb[e].aux
    BY DEF Swaps
<1>3. rec \in Planes /\ ~Shelved(rec) /\ dpb[d].aux \in Auxes
    BY <1>2, TargetIs DEF OwnsInv, Apart, PlanesKnown
<1>4. AuxesApart(dpb, Bags)
    BY DEF OwnsInv, Apart
<1>5. ASSUME NEW x, Shelved(x)' PROVE x = rec \/ (Shelved(x) /\ x # rec)
    BY <1>1, <1>2, <1>3, <1>5 DEF Shelved
<1>6. ASSUME NEW x, NEW a, Holds(x, a)'
      PROVE  (x = rec /\ a = dpb[d].aux) \/ (Holds(x, a) /\ a # dpb[d].aux /\ x # rec)
  <2>1. CASE \E e \in DOMAIN dpb : dpb'[e].plane = x /\ dpb'[e].aux = a
    <3>1. PICK e \in DOMAIN dpb : dpb'[e].plane = x /\ dpb'[e].aux = a
        BY <2>1
    <3>2. CASE e = d
        BY <1>2, <3>1, <3>2
    <3>3. CASE e # d
      <4>1. dpb[e].plane = x /\ dpb[e].aux = a
          BY <1>2, <3>1, <3>3
      <4>2. Holds(x, a) /\ Shelved(x)
          BY <4>1 DEF Holds, Shelved
      <4>3. a # dpb[d].aux
          BY <1>2, <1>4, <3>3, <4>1 DEF AuxesApart
      <4> QED
          BY <1>3, <4>2, <4>3
    <3> QED
        BY <3>2, <3>3
  <2>2. CASE \E y \in Bags : y.plane = x /\ y.aux = a
    <3>1. Holds(x, a) /\ Shelved(x) /\ a # dpb[d].aux
        BY <1>2, <1>4, <2>2 DEF Holds, Shelved, AuxesApart
    <3> QED
        BY <1>3, <3>1
  <2> QED
      BY <1>1, <1>2, <1>6, <2>1, <2>2 DEF Holds
<1>7. planeOf'[rec] = p /\ \A x \in Planes : x # rec => planeOf'[x] = planeOf[x]
    BY <1>3 DEF Swaps, OwnsInv
<1>8. auxOf'[dpb[d].aux] = p /\ \A a \in Auxes : a # dpb[d].aux => auxOf'[a] = auxOf[a]
    BY <1>3 DEF Swaps, OwnsInv
<1> QED
    BY <1>5, <1>6, <1>7, <1>8

LEMMA SerialPics ==
    ASSUME IInv, RInv, OwnsInv, PicsInv, NEW idr \in BOOLEAN, SerialAnchor(idr),
           NEW d, Swaps(d, AnchorOf(group))
    PROVE  PicsInv'
<1>1. /\ UNCHANGED <<cfg, slot, bur, group, free, pend>> /\ api = "drainall" /\ api' = "idle"
      /\ last' = 8 * group /\ LiveSlots = {}
    BY DEF SerialAnchor, AnchorOf
<1>2. Planes' = Planes
    BY <1>1, SizesStay
<1>3. group \in Nat /\ last <= 8 * (group - 1) /\ last \in Nat
    BY <1>1, PartsIs DEF OrderInv, IInv, TypeInv
<1>4. ~bur'[slot'].live
    BY <1>1, Zenon DEF LiveSlots, IInv, TypeInv
<1>5. PICK p : p = AnchorOf(group) /\ p = 8 * group
    BY DEF AnchorOf
<1>6. /\ \A x : Shelved(x)' => x = rec \/ (Shelved(x) /\ x # rec)
      /\ planeOf'[rec] = p
      /\ \A x \in Planes : x # rec => planeOf'[x] = planeOf[x]
    BY <1>1, <1>5, SwapsShelved
<1>7. ASSUME NEW x, Shelved(x), x # rec
      PROVE  planeOf'[x] = planeOf[x] /\ planeOf[x] \in Nat /\ planeOf[x] <= 8 * (group - 1) /\ x \in Planes
  <2>1. Entered(planeOf[x]) /\ x \in Planes
      BY <1>7, ShelvedIs DEF PicsInv
  <2> QED
      BY <1>3, <1>6, <1>7, <2>1 DEF Entered
<1>8. \A e \in DOMAIN dpb' : planeOf'[dpb'[e].plane] = dpb'[e].pic
  <2>1. SUFFICES ASSUME NEW e \in DOMAIN dpb PROVE planeOf'[dpb'[e].plane] = dpb'[e].pic
      BY DEF Swaps
  <2>2. CASE e = d
      BY <1>5, <1>6, <2>2 DEF Swaps
  <2>3. CASE e # d
    <3>1. Shelved(dpb[e].plane) /\ dpb[e].plane # rec
        BY TargetIs DEF Shelved
    <3>2. planeOf'[dpb[e].plane] = dpb[e].pic
        BY <1>7, <3>1 DEF PicsInv
    <3> QED
        BY <2>3, <3>2 DEF Swaps
  <2> QED
      BY <2>2, <2>3
<1>9. ASSUME NEW x \in Planes', Shelved(x)' PROVE Entered(planeOf[x])'
  <2>1. PICK y : y = planeOf'[x]
      OBVIOUS
  <2>2. y \in Nat /\ y <= 8 * group
      BY <1>3, <1>5, <1>6, <1>7, <1>9, <2>1
  <2> QED
      BY <1>1, <1>4, <2>1, <2>2 DEF Entered
<1>10. \A x, y \in Planes' :
          Shelved(x)' /\ Shelved(y)' /\ planeOf'[x] = planeOf'[y] /\ planeOf'[x] # 0 => x = y
  <2>1. SUFFICES ASSUME NEW x \in Planes, NEW y \in Planes, Shelved(x)', Shelved(y)',
                        planeOf'[x] = planeOf'[y], planeOf'[x] # 0
                 PROVE  x = y
      BY <1>2
  <2>2. CASE Shelved(x) /\ Shelved(y) /\ x # rec /\ y # rec
      BY <1>7, <2>1, <2>2 DEF PicsInv
  <2>3. \A z : Shelved(z) /\ z # rec => planeOf'[z] # p
      BY <1>3, <1>5, <1>7
  <2> QED
      BY <1>6, <2>1, <2>2, <2>3
<1> QED
    BY <1>1, <1>8, <1>9, <1>10 DEF PicsInv

LEMMA SerialBuffers ==
    ASSUME IInv, RInv, WInv, LInv, NEW idr \in BOOLEAN, SerialAnchor(idr)
    PROVE  WInv' /\ LInv'
<1>1. /\ UNCHANGED <<cfg, slot, seq, bur, group, leaf, free, pend>> /\ api = "drainall" /\ api' = "idle"
      /\ last' = AnchorOf(group) /\ LiveSlots = {}
    BY DEF SerialAnchor
<1>2. SUFFICES ASSUME Pooled PROVE WInv' /\ LInv'
  <2>1. Pooled' <=> Pooled
      BY <1>1 DEF Pooled
  <2> QED
      BY <1>2, <2>1 DEF WInv, LInv
<1>3. OwnsInv /\ PoolInv /\ PicsInv
    BY <1>2 DEF WInv
<1>4. /\ Planes' = Planes /\ Auxes' = Auxes /\ Slots' = Slots /\ PoolSize' = PoolSize
      /\ PerLaunch' = PerLaunch
    BY <1>1, SizesStay
<1>5. PICK p : p = AnchorOf(group)
    OBVIOUS
<1>6. PICK d : Swaps(d, p)
    BY <1>5, SwapsIs
<1>7. Bags' = Bags /\ LiveSlots' = {} /\ Count(slot)' = Count(slot) /\ (Sound' <=> Sound)
    BY <1>1, <1>4 DEF Bags, LiveSlots, Count, Marked, Sound
<1>8. OwnsInv'
    BY <1>1, <1>3, <1>6, SerialOwns
<1>9. PoolInv'
  <2>1. \A q : ParkedSince(q)' = ParkedSince(q)
      BY <1>1 DEF ParkedSince
  <2> QED
      BY <1>1, <1>3, <1>4, <1>7, <2>1 DEF PoolInv
<1>10. PicsInv'
    BY <1>3, <1>5, <1>6, SerialPics
<1>11. LastInv'
  <2>1. d \in DOMAIN dpb' /\ dpb'[d].used /\ dpb'[d].pic = p /\ dpb'[d].fn = nextFn' - 1
      BY <1>6 DEF Swaps
  <2>2. PICK c \in Nat : c = Count(slot)'
      BY <1>2, <1>7, PerLaunchIs
  <2>3. nextFn' \in Nat
      BY PartsIs DEF SerialAnchor, WindowInv
  <2>4. dpb'[d].fn >= nextFn' - (1 + c)
      BY <2>1, <2>2, <2>3
  <2>5. Among(last, 1 + Count(slot))'
      BY <1>1, <1>5, <2>1, <2>2, <2>4 DEF Among, Used
  <2> QED
      BY <1>1, <2>5 DEF LastInv
<1>12. ASSUME Sound' PROVE FilledInv'
  <2>1. FilledInv
      BY <1>2, <1>7, <1>12 DEF LInv
  <2>2. ASSUME NEW x \in Planes, NEW a \in Auxes, Holds(x, a)' PROVE auxOf'[a] = planeOf'[x]
    <3>1. CASE x = rec /\ a = dpb[d].aux
        BY <1>1, <1>3, <1>6, <3>1, SwapsShelved
    <3>2. CASE Holds(x, a) /\ a # dpb[d].aux /\ x # rec
      <4>1. auxOf'[a] = auxOf[a] /\ planeOf'[x] = planeOf[x]
          BY <1>1, <1>3, <1>6, <3>2, SwapsShelved
      <4>2. \A y : ~Awaited(y)
          BY <1>1 DEF Awaited
      <4>3. auxOf[a] = planeOf[x]
          BY <2>1, <3>2, <4>2 DEF FilledInv
      <4> QED
          BY <4>1, <4>3
    <3> QED
        BY <1>1, <1>3, <1>6, <2>2, <3>1, <3>2, SwapsShelved
  <2> QED
      BY <1>4, <2>2 DEF FilledInv
<1>13. LentInv' /\ ReadyInv'
    BY <1>1, <1>7 DEF LentInv, ReadyInv
<1> QED
    BY <1>8, <1>9, <1>10, <1>11, <1>12, <1>13 DEF WInv, LInv

-----------------------------------------------------------------------------
(* A B picture's prepare.                                                   *)

LEMMA PlanDistinct == \A n \in 0 .. 7 : \A i, j \in 1 .. n : Plan[0][n][i].m = Plan[0][n][j].m => i = j
<1>1. SUFFICES ASSUME NEW n \in 0 .. 7, NEW p, p = Plan[0][n]
               PROVE  \A i, j \in 1 .. n : p[i].m = p[j].m => i = j
    BY Zenon
<1>2. CASE n <= 1
    BY <1>2
<1>3. CASE n = 2
  <2>1. IsTwo(p, 0)
      BY <1>1, <1>3, PlanTwo, 0 + 2 = 2
  <2>2. p[1].m = 1 /\ p[2].m = 0
      BY <2>1 DEF IsTwo, RefAt, LeafAt
  <2> QED
      BY <1>3, <2>2
<1>4. CASE n = 3
  <2>1. IsThree(p, 0)
      BY <1>1, <1>4, PlanThree, 0 + 3 = 3
  <2>2. p[1].m = 1 /\ p[2].m = 0 /\ p[3].m = 2
      BY <2>1 DEF IsThree, RefAt, LeafAt
  <2> QED
      BY <1>4, <2>2
<1>5. CASE n = 4
  <2>1. p[1].m = 2 /\ p[2].m = 1 /\ p[3].m = 0 /\ p[4].m = 3
      BY <1>1, <1>5, PlanFour DEF RefAt, LeafAt
  <2> QED
      BY <1>5, <2>1
<1>6. CASE n = 5
  <2>1. p[1].m = 2 /\ p[2].m = 1 /\ p[3].m = 0 /\ p[4].m = 4 /\ p[5].m = 3
      BY <1>1, <1>6, PlanFive DEF RefAt, LeafAt
  <2> QED
      BY <1>6, <2>1
<1>7. CASE n = 6
  <2>1. p[1].m = 3 /\ p[2].m = 1 /\ p[3].m = 0 /\ p[4].m = 2 /\ p[5].m = 5 /\ p[6].m = 4
      BY <1>1, <1>7, PlanSix DEF RefAt, LeafAt
  <2> QED
      BY <1>7, <2>1
<1>8. CASE n = 7
  <2>1. /\ p[1].m = 3 /\ p[2].m = 1 /\ p[3].m = 0 /\ p[4].m = 2 /\ p[5].m = 5 /\ p[6].m = 4
        /\ p[7].m = 6
      BY <1>1, <1>8, PlanSeven DEF RefAt, LeafAt
  <2> QED
      BY <1>8, <2>1
<1> QED
    BY <1>2, <1>3, <1>4, <1>5, <1>6, <1>7, <1>8

\* What the prepare does to the buffers, whether or not the picture is a reference.
Prepared(s, x, plane) ==
  /\ plane = leaf[s][Len(bur[s].bs) + 1] /\ x.plane = plane /\ (x.ref => x.aux = TargetAux)
  /\ planeOf' = [planeOf EXCEPT ![plane] = x.pic]
  /\ UNCHANGED <<rec, auxOf>>
  /\ IF x.ref
     THEN /\ Enter(x.pic, plane, bur[s].seq)
          /\ leaf' = [leaf EXCEPT ![s][Len(bur[s].bs) + 1] = NextTarget]
     ELSE UNCHANGED <<dpb, nextFn, leaf, free, pend>>

LEMMA PreparedIs ==
    ASSUME IInv, RInv, NEW s \in Slots, PrepareB(s)
    PROVE  \E e, x, plane : /\ Prepares(s, e, x) /\ Prepared(s, x, plane)
                            /\ IF x.ref THEN Enters(x.pic) ELSE dpb' = dpb /\ nextFn' = nextFn
<1>1. PICK e, x : /\ Prepares(s, e, x)
                  /\ IF x.ref THEN Enters(x.pic) ELSE dpb' = dpb /\ nextFn' = nextFn
    BY PreparesIs
<1>2. PICK f, y : /\ Becomes(s, f) /\ f.bs = Append(bur[s].bs, y)
                  /\ y.plane = leaf[s][Len(bur[s].bs) + 1] /\ (y.ref => y.aux = TargetAux)
                  /\ y.pic = BOf(bur[s].group, bur[s].nbuf, NextB(s).m) /\ y.ref = NextB(s).ref
    BY PrepareBOf DEF IInv
<1>3. y = x
  <2>1. bur'[s] = f /\ bur'[s] = e
      BY <1>1, <1>2, BecomesIs DEF IInv, Prepares
  <2>2. PICK q : q = bur[s].bs
      OBVIOUS
  <2>3. Len(q) \in Nat /\ q = [i \in 1 .. Len(q) |-> q[i]] /\ f.bs = Append(q, y)
      BY <1>2, <2>2 DEF IInv, TypeInv, BurstIs
  <2>4. f.bs[Len(q) + 1] = y
      BY <2>3, AppendIs
  <2>5. e.bs[Len(q) + 1] = x
      BY <1>1, <2>2 DEF Prepares
  <2> QED
      BY <2>1, <2>4, <2>5
<1>4. PICK plane, p, i : /\ plane = leaf[s][i] /\ i = Len(bur[s].bs) + 1
                         /\ p = BOf(bur[s].group, bur[s].nbuf, NextB(s).m)
    OBVIOUS
<1>5. /\ planeOf' = [planeOf EXCEPT ![plane] = p] /\ UNCHANGED <<rec, auxOf>>
      /\ IF NextB(s).ref
         THEN Enter(p, plane, bur[s].seq) /\ leaf' = [leaf EXCEPT ![s][i] = NextTarget]
         ELSE UNCHANGED <<dpb, nextFn, leaf, free, pend>>
    BY <1>4 DEF PrepareB, NextB
<1>6. x.pic = p /\ x.ref = NextB(s).ref /\ x.plane = plane /\ (x.ref => x.aux = TargetAux)
    BY <1>2, <1>3, <1>4
<1>7. Prepared(s, x, plane)
    BY <1>4, <1>5, <1>6, Zenon DEF Prepared
<1> QED
    BY <1>1, <1>7

\* The leaf's plane is its own and is the only one written.
LEMMA PreparedSpares ==
    ASSUME IInv, RInv, Pooled, PoolInv, OwnsInv, NEW s \in Slots, Preps(s),
           NEW e, NEW x, Prepares(s, e, x), NEW plane, Prepared(s, x, plane)
    PROVE  /\ Len(bur[s].bs) + 1 \in 1 .. NLeaf /\ cfg' = cfg
           /\ plane \in Planes /\ plane # rec /\ Spares(plane) /\ planeOf'[plane] = x.pic
           /\ planeOf' = [y \in Planes |-> planeOf'[y]]
           /\ <<s, Len(bur[s].bs) + 1>> \in Keys /\ Target[<<s, Len(bur[s].bs) + 1>>] = plane
           /\ \A t \in Slots : \A j \in 1 .. NLeaf :
                leaf[t][j] = plane => t = s /\ j = Len(bur[s].bs) + 1
<1>1. cfg' = cfg /\ plane = leaf[s][Len(bur[s].bs) + 1] /\ planeOf' = [planeOf EXCEPT ![plane] = x.pic]
    BY DEF Prepares, Prepared
<1>2. Len(bur[s].bs) + 1 \in 1 .. NLeaf
  <2>1. PICK n, b : n = bur[s].nbuf /\ b = cfg.bframes
      OBVIOUS
  <2>2. b \in 2 .. 7 /\ n \in 1 .. b
      BY <2>1, PooledIs DEF Preps
  <2>3. Len(Plan[0][n]) = n
    <3>1. n \in 0 .. 7
        BY <2>2
    <3> QED
        BY <3>1, PlanTable, Zenon DEF PlanFits
  <2>4. PlanOf(s) = Plan[0][n]
      BY <2>1 DEF PlanOf
  <2>5. PICK l \in Nat : l = Len(bur[s].bs)
      BY DEF Prepares
  <2>6. l + 1 <= n
      BY <2>3, <2>4, <2>5 DEF Prepares
  <2>7. l + 1 \in 1 .. b
      BY <2>2, <2>5, <2>6
  <2> QED
      BY <2>1, <2>5, <2>7 DEF NLeaf
<1>3. PICK i \in 1 .. NLeaf : i = Len(bur[s].bs) + 1
    BY <1>2
<1>4. plane \in Planes /\ plane # rec /\ ~Shelved(plane) /\ <<s, i>> \in Keys /\ Target[<<s, i>>] = plane
    BY <1>1, <1>3, TargetIs
<1>5. \A t \in Slots : \A j \in 1 .. NLeaf : leaf[t][j] = plane => t = s /\ j = i
  <2>1. SUFFICES ASSUME NEW t \in Slots, NEW j \in 1 .. NLeaf, leaf[t][j] = plane PROVE t = s /\ j = i
      OBVIOUS
  <2>2. leaf[s][i] = leaf[t][j]
      BY <1>1, <1>3, <2>1
  <2>3. \A a \in Slots : \A k \in 1 .. NLeaf :
           \A c \in Slots : \A l \in 1 .. NLeaf : leaf[a][k] = leaf[c][l] => a = c /\ k = l
      BY TargetIs, ZenonT(30)
  <2> QED
      BY <2>2, <2>3
<1>6. Planes' = Planes /\ Auxes' = Auxes
    BY <1>1, SizesStay
<1>7. /\ planeOf' = [y \in Planes |-> planeOf'[y]] /\ planeOf'[plane] = x.pic
      /\ \A y \in Planes : y # plane => planeOf'[y] = planeOf[y]
  <2>1. PICK P, z : P = planeOf /\ z = x.pic
      OBVIOUS
  <2>2. P = [y \in Planes |-> P[y]]
      BY <2>1 DEF OwnsInv
  <2>3. PICK Q : Q = [P EXCEPT ![plane] = z]
      BY Zenon
  <2>4. Q = [y \in Planes |-> Q[y]] /\ Q[plane] = z /\ \A y \in Planes : y # plane => Q[y] = P[y]
      BY <1>4, <2>2, <2>3
  <2> QED
      BY <1>1, <2>1, <2>3, <2>4, Zenon
<1>8. Spares(plane)
    BY <1>4, <1>6, <1>7 DEF Spares
<1> QED
    BY <1>1, <1>2, <1>3, <1>4, <1>5, <1>7, <1>8

LEMMA PrepareBOwns ==
    ASSUME IInv, RInv, Pooled, PoolInv, OwnsInv, NEW s \in Slots, Preps(s),
           NEW e, NEW x, Prepares(s, e, x), NEW plane, Prepared(s, x, plane),
           NEW d, NEW b, NEW n, x.ref => Put(d, b, n, plane, x.pic)
    PROVE  /\ OwnsInv'
           /\ \A t \in Slots : \A j \in 1 .. NLeaf :
                ~(t = s /\ j = Len(bur[s].bs) + 1) \/ ~x.ref => leaf'[t][j] = leaf[t][j]
<1>1. /\ cfg' = cfg /\ planeOf' = [y \in Planes |-> planeOf'[y]] /\ plane \in Planes /\ plane # rec
      /\ <<s, Len(bur[s].bs) + 1>> \in Keys /\ Target[<<s, Len(bur[s].bs) + 1>>] = plane
    BY PreparedSpares
<1>2. PICK i \in 1 .. NLeaf : i = Len(bur[s].bs) + 1
    BY PreparedSpares, Zenon
<1>3. rec' = rec /\ auxOf' = auxOf
    BY DEF Prepared
<1>4. /\ Slots' = Slots /\ Planes' = Planes /\ Auxes' = Auxes /\ NLeaf' = NLeaf /\ Keys' = Keys
    BY <1>1, SizesStay
<1>5. PICK L : L = leaf /\ L = [t \in Slots |-> L[t]] /\ \A t \in Slots : L[t] = [j \in 1 .. NLeaf |-> L[t][j]]
  <2>1. leaf = [t \in Slots |-> leaf[t]] /\ \A t \in Slots : leaf[t] = [j \in 1 .. NLeaf |-> leaf[t][j]]
      BY DEF OwnsInv
  <2> QED
      BY <2>1, Zenon
<1>6. CASE x.ref
  <2>1. PICK w : w = b.plane
      OBVIOUS
  <2>2. leaf' = [L EXCEPT ![s][i] = w]
    <3>1. NextTarget = w
        BY <1>6, <2>1 DEF Put
    <3> QED
        BY <1>2, <1>5, <1>6, <3>1 DEF Prepared
  <2>3. PICK M : M = [L EXCEPT ![s][i] = w]
      BY Zenon
  <2>4. /\ M = [t \in Slots |-> M[t]] /\ \A t \in Slots : M[t] = [j \in 1 .. NLeaf |-> M[t][j]]
        /\ M[s][i] = w /\ \A t \in Slots : \A j \in 1 .. NLeaf : ~(t = s /\ j = i) => M[t][j] = L[t][j]
    <3>1. M[s] = [L[s] EXCEPT ![i] = w] /\ \A t \in Slots : t # s => M[t] = L[t]
        BY <1>5, <2>3
    <3>2. M = [t \in Slots |-> M[t]]
        BY <1>5, <2>3
    <3>3. PICK R : R = L[s] /\ R = [j \in 1 .. NLeaf |-> R[j]] /\ M[s] = [R EXCEPT ![i] = w]
        BY <1>5, <3>1, Zenon
    <3>4. PICK N : N = [R EXCEPT ![i] = w]
        BY Zenon
    <3>5. N = [j \in 1 .. NLeaf |-> N[j]] /\ N[i] = w /\ \A j \in 1 .. NLeaf : j # i => N[j] = R[j]
        BY <3>3, <3>4, Zenon
    <3>6. M[s] = N
        BY <3>3, <3>4
    <3>7. ASSUME NEW t \in Slots PROVE M[t] = [j \in 1 .. NLeaf |-> M[t][j]]
      <4>1. CASE t = s
          BY <3>5, <3>6, <4>1, Zenon
      <4>2. CASE t # s
        <5>1. M[t] = L[t] /\ L[t] = [j \in 1 .. NLeaf |-> L[t][j]]
            BY <1>5, <3>1, <4>2
        <5> QED
            BY <5>1
      <4> QED
          BY <4>1, <4>2
    <3>8. ASSUME NEW t \in Slots, NEW j \in 1 .. NLeaf, ~(t = s /\ j = i) PROVE M[t][j] = L[t][j]
      <4>1. CASE t = s
          BY <3>3, <3>5, <3>6, <3>8, <4>1, Zenon
      <4>2. CASE t # s
          BY <3>1, <4>2
      <4> QED
          BY <4>1, <4>2
    <3> QED
        BY <3>2, <3>5, <3>6, <3>7, <3>8
  <2>5. PICK k : k = <<s, i>> /\ k \in Keys /\ Target[k] = plane
      BY <1>1, <1>2
  <2>6. DOMAIN Target' = Keys /\ Target'[k] = w
    <3>1. Target' = [l \in Keys |-> IF l[1] = NoSlot THEN rec ELSE M[l[1]][l[2]]]
        BY <1>3, <1>4, <2>2, <2>3 DEF Target
    <3>2. s # NoSlot
        BY CfgIs DEF Slots, NoSlot, IInv, TypeInv
    <3> QED
        BY <2>4, <2>5, <3>1, <3>2
  <2>7. ASSUME NEW l \in Keys, l # k PROVE Target'[l] = Target[l]
    <3>1. Target' = [m \in Keys |-> IF m[1] = NoSlot THEN rec ELSE M[m[1]][m[2]]]
        BY <1>3, <1>4, <2>2, <2>3 DEF Target
    <3>2. CASE l = <<NoSlot, 0>>
        BY <2>7, <3>1, <3>2 DEF Target
    <3>3. CASE l \in Slots \X (1 .. NLeaf)
      <4>1. PICK t \in Slots, j \in 1 .. NLeaf : l = <<t, j>>
          BY <3>3
      <4>2. M[t][j] = L[t][j]
          BY <2>4, <2>5, <2>7, <4>1
      <4> QED
          BY <1>5, <2>7, <3>1, <4>1, <4>2 DEF Target
    <3> QED
        BY <2>7, <3>2, <3>3 DEF Keys
  <2>8. Apart(dpb, Bags, Target)'
      BY <1>1, <1>6, <2>1, <2>5, <2>6, <2>7, PutOwns
  <2>9. OwnsInv'
    <3>1. auxOf' = [y \in Auxes |-> auxOf'[y]]
        BY <1>3 DEF OwnsInv
    <3> QED
        BY <1>1, <1>4, <2>2, <2>3, <2>4, <2>8, <3>1, ZenonT(30) DEF OwnsInv
  <2>10. \A t \in Slots : \A j \in 1 .. NLeaf : ~(t = s /\ j = i) => leaf'[t][j] = leaf[t][j]
      BY <1>5, <2>2, <2>3, <2>4
  <2> QED
      BY <1>2, <1>6, <2>9, <2>10
<1>7. CASE ~x.ref
  <2>1. UNCHANGED <<dpb, leaf, free, pend>>
      BY <1>7 DEF Prepared
  <2>2. Target' = Target /\ Bags' = Bags
      BY <1>3, <1>4, <2>1 DEF Target, Bags
  <2>3. PlanesApart(dpb, Bags, Target)' /\ AuxesApart(dpb, Bags)'
      BY <2>1, <2>2 DEF OwnsInv, Apart, PlanesApart, AuxesApart
  <2>4. PlanesKnown(dpb, Bags, Target)'
      BY <1>4, <2>1, <2>2 DEF OwnsInv, Apart, PlanesKnown
  <2> QED
      BY <1>1, <1>3, <1>4, <2>1, <2>3, <2>4 DEF OwnsInv, Apart
<1> QED
    BY <1>6, <1>7

LEMMA PrepareBRoom ==
    ASSUME IInv, RInv, Pooled, NEW s \in Slots, Preps(s), NEW e, NEW x, Prepares(s, e, x), x.ref
    PROVE  Count(s) \in Nat /\ Count(s) + 1 < PerLaunch /\ Count(s) + 2 <= Window /\ Window \in Nat
<1>1. ChainInv /\ ChainOf(s) /\ bur[s].seq > 0
    BY PartsIs, SeqIs DEF ChainInv, Preps
<1>2. Count(s) + 1 <= RefBs(s)
    BY <1>1, RoomIs, Zenon DEF Prepares
<1>3. Count(s) \in Nat /\ RefBs(s) \in Nat /\ RefBs(s) < PerLaunch
    BY <1>1, CountIs
<1>4. PICK m \in 0 .. 3 : m = NRefB(cfg.bframes) /\ PerLaunch = 1 + m
    BY PooledIs
<1>5. Window \in Nat /\ Window >= m + 2
  <2>1. PICK z : z = cfg.bframes
      OBVIOUS
  <2>2. z \in 0 .. z /\ cfg \in Settings
      BY <2>1, PooledIs DEF IInv, TypeInv
  <2> QED
      BY <1>4, <2>1, <2>2, WindowIs
<1>6. PICK c \in Nat, f \in Nat, w \in Nat : c = Count(s) /\ f = RefBs(s) /\ w = Window
    BY <1>3, <1>5
<1>7. c + 1 < 1 + m /\ c + 2 <= w
    BY <1>2, <1>3, <1>4, <1>5, <1>6
<1> QED
    BY <1>4, <1>6, <1>7

LEMMA PrepareBPool ==
    ASSUME IInv, RInv, Pooled, PoolInv, OwnsInv, NEW s \in Slots, Preps(s),
           NEW e, NEW x, Prepares(s, e, x), NEW plane, Prepared(s, x, plane),
           NEW d, NEW b, NEW n, x.ref => Put(d, b, n, plane, x.pic)
    PROVE  PoolInv'
<1>1. UNCHANGED <<cfg, seq, slot>> /\ s = slot
    BY DEF Prepares, Preps
<1>2. PerLaunch' = PerLaunch /\ PoolSize' = PoolSize
    BY <1>1, SizesStay
<1>3. /\ PerLaunch \in 1 .. 4 /\ Count(s) \in Nat /\ seq \in Nat
    BY <1>1, PerLaunchIs
<1>4. PICK r \in 1 .. 4, c \in Nat, z \in Nat : r = PerLaunch /\ c = Count(s) /\ z = seq
    BY <1>3
<1>5. CASE x.ref
  <2>1. c + 1 < r
      BY <1>4, <1>5, PrepareBRoom
  <2>2. Count(slot)' = c + 1
    <3>1. Count(s)' = c + 1 /\ slot' = s
        BY <1>1, <1>4, <1>5, PrepFacts
    <3> QED
        BY <3>1 DEF Count, Marked
  <2>3. Put(d, b, n, plane, x.pic)
      BY <1>5
  <2>4. IsFiniteSet(Bags') /\ Cardinality(Bags') = PoolSize /\ \A y \in Bags' : y.seq \in 0 .. seq
      BY <2>3, PutPool
  <2>5. free' \cap pend' = {}
      BY <2>3, PutBags
  <2>6. ASSUME NEW q \in 0 .. z PROVE Cardinality(ParkedSince(q)') <= (z - q) * r + (c + 1)
    <3>1. q \in Nat
        OBVIOUS
    <3>2. PICK m \in Nat, m2 \in Nat :
             m = Cardinality(ParkedSince(q)) /\ m2 = Cardinality(ParkedSince(q)') /\ m2 <= m + 1
        BY <2>3, <3>1, PutPool
    <3>3. PICK a \in Nat : a = z - q
        BY <2>6
    <3>4. m <= a * r + c
        BY <1>1, <1>4, <3>2, <3>3 DEF PoolInv
    <3>5. PICK k \in Nat : k = a * r
        OBVIOUS
    <3>6. m2 <= k + (c + 1)
        BY <3>2, <3>4, <3>5
    <3> QED
        BY <3>2, <3>3, <3>5, <3>6
  <2>7. \A q \in 0 .. seq' : Cardinality(ParkedSince(q)') <= (seq' - q) * PerLaunch' + Count(slot)'
      BY <1>1, <1>2, <1>4, <2>2, <2>6
  <2>8. Count(slot)' < PerLaunch'
      BY <1>2, <1>4, <2>1, <2>2
  <2> QED
      BY <1>1, <1>2, <2>4, <2>5, <2>7, <2>8 DEF PoolInv
<1>6. CASE ~x.ref
  <2>1. UNCHANGED <<free, pend>>
      BY <1>6 DEF Prepared
  <2>2. Count(slot)' = Count(slot)
    <3>1. Count(s)' = c + 0 /\ slot' = s
        BY <1>1, <1>4, <1>6, PrepFacts
    <3>2. Count(slot)' = c + 0
        BY <3>1 DEF Count, Marked
    <3> QED
        BY <1>1, <1>4, <3>2
  <2>3. \A q : ParkedSince(q)' = ParkedSince(q)
      BY <2>1 DEF ParkedSince
  <2>4. Bags' = Bags
      BY <2>1 DEF Bags
  <2> QED
      BY <1>1, <1>2, <2>1, <2>2, <2>3, <2>4 DEF PoolInv
<1> QED
    BY <1>5, <1>6

LEMMA PrepareBLast ==
    ASSUME IInv, RInv, Pooled, LastInv, NEW s \in Slots, Preps(s), NEW e, NEW x, Prepares(s, e, x),
           IF x.ref THEN Enters(x.pic) ELSE dpb' = dpb /\ nextFn' = nextFn
    PROVE  LastInv'
<1>1. UNCHANGED <<cfg, api, slot, last>> /\ s = slot
    BY DEF Prepares, Preps
<1>0. PICK l : l = last
    OBVIOUS
<1>2. PICK c \in Nat : c = Count(s)
    BY <1>1, PerLaunchIs
<1>3. ASSUME l # 0 PROVE Among(last, 1 + Count(slot))'
  <2>1. Among(l, 1 + c)
      BY <1>0, <1>1, <1>2, <1>3 DEF LastInv
  <2>2. CASE x.ref
    <3>1. c + 2 <= Window /\ Window \in Nat
        BY <1>2, <2>2, PrepareBRoom
    <3>2. PICK n \in Nat : n = 1 + c
        OBVIOUS
    <3>3. n + 1 <= Window
        BY <3>1, <3>2
    <3>4. Enters(x.pic) /\ WindowInv
        BY <2>2, PartsIs
    <3>5. Among(l, n + 1)'
        BY <1>1, <2>1, <3>2, <3>3, <3>4, EntersAmong
    <3>6. Count(s)' = c + 1
        BY <1>2, <2>2, PrepFacts
    <3>7. 1 + Count(s)' = n + 1
        BY <3>2, <3>6
    <3>8. Among(l, 1 + Count(s))'
        BY <3>5, <3>7 DEF Among
    <3> QED
        BY <1>0, <1>1, <1>2, <3>8, Zenon DEF Among, Count, Marked
  <2>3. CASE ~x.ref
    <3>1. dpb' = dpb /\ nextFn' = nextFn
        BY <2>3
    <3>2. Used' = Used
        BY <3>1 DEF Used
    <3>3. Count(s)' = c + 0
        BY <1>2, <2>3, PrepFacts
    <3>4. 1 + Count(s)' = 1 + c
        BY <3>3
    <3>5. Among(l, 1 + Count(s))'
        BY <2>1, <3>1, <3>2, <3>4 DEF Among
    <3> QED
        BY <1>0, <1>1, <1>2, <3>5, Zenon DEF Among, Count, Marked
  <2> QED
      BY <2>2, <2>3
<1> QED
    BY <1>0, <1>1, <1>2, <1>3 DEF LastInv

\* The picture is not one that the burst has prepared.
LEMMA PrepareBNew ==
    ASSUME IInv, RInv, NEW s \in Slots, Preps(s), NEW e, NEW x, Prepares(s, e, x)
    PROVE  ~OwnPic(s, x.pic)
<1>1. /\ x.pic \in Nat /\ x.pic < bur[s].pic /\ bur[s].pic \in Nat
      /\ x.pic = BOf(bur[s].group, bur[s].nbuf, NextB(s).m)
  <2>1. bur[s].pic = 8 * bur[s].group /\ bur[s].group \in Nat
      BY DEF Preps
  <2>2. x.pic \in Nat /\ x.pic < bur[s].pic
      BY PrepFacts
  <2>3. x.pic = BOf(bur[s].group, bur[s].nbuf, NextB(s).m)
      BY DEF Prepares
  <2> QED
      BY <2>1, <2>2, <2>3
<1>2. SUFFICES ASSUME NEW j \in Marked(s), bur[s].bs[j].pic = x.pic PROVE FALSE
    BY <1>1 DEF OwnPic, OwnRef
<1>3. PICK l \in Nat, k \in Nat : l = Len(bur[s].bs) /\ k = Len(PlanOf(s)) /\ l + 1 <= k
    BY DEF Prepares
<1>4. j \in 1 .. l
    BY <1>3 DEF Marked
<1>5. PICK n, g, a, b : n = bur[s].nbuf /\ g = bur[s].group /\ a = PlanOf(s)[j].m /\ b = PlanOf(s)[l + 1].m
    OBVIOUS
<1>6. n \in 0 .. 7 /\ g \in Nat
  <2>1. n \in 1 .. cfg.bframes /\ cfg.bframes \in 2 .. 7 /\ g \in Nat
      BY <1>5, CfgIs DEF Preps, IInv, TypeInv
  <2> QED
      BY <2>1
<1>7. PlanOf(s) = Plan[0][n] /\ k = n
    BY <1>3, <1>5, <1>6, PlanTable, ZenonT(30) DEF PlanFits, PlanOf
<1>8. a \in Nat /\ b \in Nat
  <2>1. \A i \in 1 .. n : Plan[0][n][i].m \in 0 .. n - 1
      BY <1>6, PlanTable, Zenon DEF PlanFits
  <2>2. j \in 1 .. n /\ l + 1 \in 1 .. n
      BY <1>3, <1>4, <1>7
  <2> QED
      BY <1>5, <1>7, <2>1, <2>2
<1>9. BOf(g, n, a) = BOf(g, n, b)
  <2>1. bur[s].bs[j].pic = BOf(g, n, a)
      BY <1>3, <1>4, <1>5, BPicIs, Zenon DEF Preps
  <2>2. x.pic = BOf(g, n, b)
      BY <1>1, <1>3, <1>5 DEF NextB
  <2> QED
      BY <1>2, <2>1, <2>2, Zenon
<1>10. a = b
    BY <1>6, <1>8, <1>9 DEF BOf
<1>11. j \in 1 .. n /\ l + 1 \in 1 .. n /\ j # l + 1
    BY <1>3, <1>4, <1>7
<1> QED
    BY <1>5, <1>6, <1>7, <1>10, <1>11, PlanDistinct, Zenon

LEMMA PrepareBPics ==
    ASSUME IInv, RInv, Pooled, PoolInv, OwnsInv, PicsInv, NEW s \in Slots, Preps(s),
           NEW e, NEW x, Prepares(s, e, x), NEW plane, Prepared(s, x, plane),
           NEW d, NEW b, NEW n, x.ref => Put(d, b, n, plane, x.pic)
    PROVE  PicsInv' /\ api' = api /\ api \notin {"bill", "ring", "begin"}
<1>1. /\ UNCHANGED <<cfg, api, slot, last>> /\ s = slot /\ s \in LiveSlots /\ bur[s].live
      /\ bur'[s].live /\ bur'[s].group = bur[s].group /\ ~bur[s].fired
    BY DEF Prepares, Preps, Same, LiveSlots
<1>2. api \notin {"bill", "ring", "begin"}
    BY <1>1 DEF IInv, ApiInv
<1>3. Spares(plane) /\ planeOf'[plane] = x.pic /\ Planes' = Planes
  <2>1. Spares(plane) /\ planeOf'[plane] = x.pic
      BY PreparedSpares, Zenon
  <2> QED
      BY <2>1 DEF Spares
<1>4. /\ \A q : OwnPic(s, q) => OwnPic(s, q)'
      /\ (x.ref => OwnPic(s, x.pic)') /\ x.pic \in Nat /\ 8 * (bur[s].group - 1) < x.pic
      /\ x.pic <= last
  <2>1. last = bur[s].pic /\ bur[s].pic \in Nat
      BY DEF Preps
  <2> QED
      BY <2>1, PrepFacts
<1>5. \A y : Shelved(y)' => (Shelved(y) \/ (x.ref /\ y = plane))
  <2>1. CASE x.ref
      BY <2>1, PutShelved
  <2>2. CASE ~x.ref
    <3>1. UNCHANGED <<dpb, free, pend>>
        BY <2>2 DEF Prepared
    <3> QED
        BY <3>1 DEF Shelved, Bags
  <2> QED
      BY <2>1, <2>2
<1>6. ASSUME NEW y, Shelved(y)
      PROVE  y \in Planes /\ y # plane /\ planeOf'[y] = planeOf[y] /\ planeOf[y] # x.pic /\ Entered(planeOf[y])
  <2>1. y \in Planes /\ y # plane
      BY <1>3, <1>6, ShelvedIs DEF Spares
  <2>2. planeOf'[y] = planeOf[y]
      BY <1>3, <2>1 DEF Spares
  <2>3. Entered(planeOf[y])
      BY <1>6, <2>1 DEF PicsInv
  <2>4. planeOf[y] # x.pic
    <3>1. ~(x.pic <= 8 * (bur[s].group - 1))
      <4>1. bur[s].group \in Nat
          BY DEF Preps
      <4> QED
          BY <1>4, <4>1
    <3> QED
        BY <1>1, <2>3, <3>1, PrepareBNew DEF Entered
  <2> QED
      BY <2>1, <2>2, <2>3, <2>4
<1>7. \A f \in DOMAIN dpb' : planeOf'[dpb'[f].plane] = dpb'[f].pic
  <2>1. \A f \in DOMAIN dpb : planeOf'[dpb[f].plane] = dpb[f].pic
    <3>1. SUFFICES ASSUME NEW f \in DOMAIN dpb PROVE planeOf'[dpb[f].plane] = dpb[f].pic
        OBVIOUS
    <3>2. Shelved(dpb[f].plane)
        BY DEF Shelved
    <3> QED
        BY <1>6, <3>2 DEF PicsInv
  <2>2. CASE x.ref
    <3>1. /\ DOMAIN dpb' = DOMAIN dpb /\ dpb'[d].plane = plane /\ dpb'[d].pic = x.pic
          /\ \A f \in DOMAIN dpb : f # d => dpb'[f].plane = dpb[f].plane /\ dpb'[f].pic = dpb[f].pic
        BY <2>2 DEF Put
    <3> QED
        BY <1>3, <2>1, <3>1
  <2>3. CASE ~x.ref
    <3>1. dpb' = dpb
        BY <2>3 DEF Prepared
    <3> QED
        BY <2>1, <3>1
  <2> QED
      BY <2>2, <2>3
<1>8. ASSUME NEW y \in Planes', Shelved(y)' PROVE Entered(planeOf[y])'
  <2>1. PICK p : p = planeOf'[y]
      OBVIOUS
  <2>2. p \in Nat /\ p <= last' /\ (p <= 8 * (bur'[s].group - 1) \/ OwnPic(s, p)')
    <3>1. CASE Shelved(y)
      <4>1. p \in Nat /\ p <= last /\ (p <= 8 * (bur[s].group - 1) \/ OwnPic(s, p))
          BY <1>1, <1>6, <2>1, <3>1 DEF Entered
      <4> QED
          BY <1>1, <1>4, <4>1
    <3>2. CASE x.ref /\ y = plane
      <4>1. p = x.pic
          BY <1>3, <2>1, <3>2
      <4>2. OwnPic(s, p)'
          BY <1>4, <3>2, <4>1 DEF OwnPic, OwnRef
      <4> QED
          BY <1>1, <1>4, <4>1, <4>2
    <3> QED
        BY <1>5, <1>8, <3>1, <3>2
  <2> QED
      BY <1>1, <2>1, <2>2 DEF Entered, OwnPic, OwnRef, Marked
<1>9. \A y, z \in Planes' :
         Shelved(y)' /\ Shelved(z)' /\ planeOf'[y] = planeOf'[z] /\ planeOf'[y] # 0 => y = z
  <2>1. SUFFICES ASSUME NEW y \in Planes, NEW z \in Planes, Shelved(y)', Shelved(z)',
                        planeOf'[y] = planeOf'[z], planeOf'[y] # 0
                 PROVE  y = z
      BY <1>3
  <2>2. CASE Shelved(y) /\ Shelved(z)
      BY <1>6, <2>1, <2>2 DEF PicsInv
  <2> QED
      BY <1>3, <1>5, <1>6, <2>1, <2>2
<1> QED
    BY <1>1, <1>2, <1>7, <1>8, <1>9 DEF PicsInv

LEMMA PrepareBFilled ==
    ASSUME IInv, RInv, Pooled, PoolInv, OwnsInv, FilledInv, NEW s \in Slots, Preps(s),
           NEW e, NEW x, Prepares(s, e, x), NEW plane, Prepared(s, x, plane),
           NEW d, NEW b, NEW n, x.ref => Put(d, b, n, plane, x.pic)
    PROVE  FilledInv'
<1>1. Spares(plane) /\ planeOf'[plane] = x.pic
    BY PreparedSpares, Zenon
<1>2. Planes' = Planes /\ Auxes' = Auxes /\ auxOf' = auxOf
    BY <1>1 DEF Spares, Prepared
<1>3. ASSUME NEW p, Awaited(p) PROVE Awaited(p)'
  <2>0. PICK t \in LiveSlots : \E i \in Marked(t) : bur[t].bs[i].pic = p /\ i > bur[t].coded
      BY <1>3 DEF Awaited
  <2>1. PICK i \in Marked(t) : bur[t].bs[i].pic = p /\ i > bur[t].coded
      BY <2>0
  <2>2. t \in Slots /\ t \in LiveSlots'
      BY DEF Prepares, LiveSlots
  <2>3. i \in Marked(t)' /\ bur'[t].bs[i].pic = p
      BY <2>1, <2>2, PrepFacts
  <2>4. bur'[t].coded = bur[t].coded
      BY <2>2 DEF Prepares
  <2> QED
      BY <2>1, <2>2, <2>3, <2>4 DEF Awaited
<1>4. ASSUME x.ref PROVE Awaited(x.pic)'
  <2>1. PICK i \in Nat : i = Len(bur[s].bs) + 1 /\ i > 0
      BY DEF Prepares
  <2>2. i \in Marked(s)'
      BY <1>4, <2>1, PrepFacts
  <2>3. bur'[s].bs[i] = x /\ bur'[s].coded = 0 /\ s \in LiveSlots'
      BY <2>1 DEF Prepares, Preps
  <2> QED
      BY <2>1, <2>2, <2>3 DEF Awaited
<1>5. ASSUME NEW y \in Planes, NEW a \in Auxes, Holds(y, a)'
      PROVE  Awaited(planeOf[y])' \/ auxOf'[a] = planeOf'[y]
  <2>1. PICK p : p = planeOf'[y]
      OBVIOUS
  <2>2. Awaited(p)' \/ auxOf[a] = p
    <3>1. CASE Holds(y, a)
      <4>1. y # plane
          BY <1>1, <3>1, HoldsIs DEF Spares
      <4>2. p = planeOf[y]
          BY <1>1, <2>1, <4>1 DEF Spares
      <4> QED
          BY <1>3, <3>1, <4>2 DEF FilledInv
    <3>2. CASE x.ref /\ y = plane
        BY <1>1, <1>4, <2>1, <3>2 DEF Awaited
    <3>3. Holds(y, a) \/ (x.ref /\ y = plane)
      <4>1. CASE x.ref
          BY <1>5, <4>1, PutShelved
      <4>2. CASE ~x.ref
        <5>1. UNCHANGED <<dpb, free, pend>>
            BY <4>2 DEF Prepared
        <5> QED
            BY <1>5, <5>1 DEF Holds, Bags
      <4> QED
          BY <4>1, <4>2
    <3> QED
        BY <3>1, <3>2, <3>3
  <2> QED
      BY <1>2, <2>1, <2>2 DEF Awaited
<1> QED
    BY <1>2, <1>5 DEF FilledInv

\* What an entry has is kept from any launch on.
LEMMA UsedLent ==
    ASSUME OwnsInv, PicsInv, NEW d \in Used, NEW q, NEW r, r.pic = dpb[d].pic, r.aux = dpb[d].aux,
           r.plane = dpb[d].plane \/ r.plane = NoBuffer
    PROVE  Lent(q, r)
<1>1. PICK x : x = dpb[d].plane
    OBVIOUS
<1>2. d \in DOMAIN dpb
    BY DEF Used
<1>3. Keeps(q, x, r.aux) /\ Shelved(x)
    BY <1>1, <1>2 DEF Keeps, Shelved
<1>4. x \in Planes /\ planeOf[x] = r.pic
    BY <1>1, <1>2, <1>3, ShelvedIs DEF PicsInv
<1> QED
    BY <1>1, <1>3, <1>4 DEF Lent

LEMMA PrepareBRetains ==
    ASSUME IInv, RInv, Pooled, PoolInv, OwnsInv, NEW s \in Slots, Preps(s),
           NEW x, NEW plane, Prepared(s, x, plane),
           NEW d, NEW b, NEW n, x.ref => Put(d, b, n, plane, x.pic),
           NEW t \in LiveSlots, NEW q, q = bur[t].seq
    PROVE  Retains(q)
<1>1. CASE x.ref
    BY <1>1, PutKeeps DEF Retains
<1>2. CASE ~x.ref
  <2>1. UNCHANGED <<dpb, pend>>
      BY <1>2 DEF Prepared
  <2> QED
      BY <2>1 DEF Retains, Keeps
<1> QED
    BY <1>1, <1>2

\* The pictures it reads are lent to it.
LEMMA PrepareBReadsLent ==
    ASSUME IInv, RInv, OwnsInv, PicsInv, NEW s \in Slots, Preps(s),
           NEW e, NEW x, Prepares(s, e, x), NEW q
    PROVE  \A r \in x.refs \cup e.col : Lent(q, r)
<1>1. x.refs = BRefs(x.pic) /\ e.col = ColOf(x.pic)
    BY DEF Prepares
<1>2. Future(x.pic) \in Used
    BY PrepFacts, FutureIs
<1>3. PICK f : f = Future(x.pic) /\ f \in Used
    BY <1>2
<1>4. ASSUME NEW r \in x.refs PROVE Lent(q, r)
  <2>1. PICK d \in Past(x.pic) \cup {f} : r = Borrow(d)
      BY <1>1, <1>3, <1>4 DEF BRefs
  <2>2. d \in Used
      BY <1>3, <2>1, PastIs, PartsIs
  <2>3. r.pic = dpb[d].pic /\ r.aux = dpb[d].aux /\ r.plane = dpb[d].plane
      BY <2>1 DEF Borrow
  <2> QED
      BY <2>2, <2>3, UsedLent
<1>5. ASSUME NEW r \in e.col PROVE Lent(q, r)
  <2>1. r = [Borrow(f) EXCEPT !.plane = NoBuffer]
      BY <1>1, <1>3, <1>5 DEF ColOf
  <2>2. r.pic = dpb[f].pic /\ r.aux = dpb[f].aux /\ r.plane = NoBuffer
      BY <2>1 DEF Borrow
  <2> QED
      BY <1>3, <2>2, UsedLent
<1> QED
    BY <1>4, <1>5

LEMMA PrepareBLent ==
    ASSUME IInv, RInv, Pooled, PoolInv, OwnsInv, PicsInv, LentInv, NEW s \in Slots, Preps(s),
           NEW e, NEW x, Prepares(s, e, x), NEW plane, Prepared(s, x, plane),
           NEW d, NEW b, NEW n, x.ref => Put(d, b, n, plane, x.pic)
    PROVE  LentInv'
<1>1. /\ LiveSlots' = LiveSlots /\ bur'[s] = e /\ Same(e, bur[s]) /\ s \in LiveSlots
      /\ \A t \in Slots : t # s => bur'[t] = bur[t]
    BY DEF Prepares, Preps
<1>0. /\ Spares(plane) /\ planeOf'[plane] = x.pic /\ Len(bur[s].bs) + 1 \in 1 .. NLeaf
      /\ \A t \in Slots : \A j \in 1 .. NLeaf :
           leaf[t][j] = plane => t = s /\ j = Len(bur[s].bs) + 1
  <2>1. Spares(plane) /\ planeOf'[plane] = x.pic /\ Len(bur[s].bs) + 1 \in 1 .. NLeaf
      BY PreparedSpares, Zenon
  <2>2. \A t \in Slots : \A j \in 1 .. NLeaf :
           leaf[t][j] = plane => t = s /\ j = Len(bur[s].bs) + 1
      BY PreparedSpares, ZenonT(30)
  <2> QED
      BY <2>1, <2>2
<1>2. Spares(plane) /\ planeOf'[plane] = x.pic /\ x.plane = plane
    BY <1>0 DEF Prepared
<1>3. PICK l \in Nat : l = Len(bur[s].bs)
    BY DEF Prepares
<1>4. /\ Len(e.bs) = l + 1 /\ e.bs[l + 1] = x /\ (\A i \in 1 .. l : e.bs[i] = bur[s].bs[i])
      /\ plane = leaf[s][l + 1] /\ l + 1 \in 1 .. NLeaf
    BY <1>0, <1>3 DEF Prepares, Prepared
<1>5. ASSUME NEW t \in LiveSlots, NEW i \in 1 .. Len(bur[t].bs)
      PROVE  leaf'[t][i] = leaf[t][i] /\ leaf[t][i] \in Planes /\ plane # leaf[t][i]
  <2>1. t \in Slots /\ i \in 1 .. NLeaf /\ leaf[t][i] \in Planes
      BY LeafIs, Zenon DEF LiveSlots
  <2>2. ~(t = s /\ i = l + 1)
      BY <1>3
  <2>3. leaf'[t][i] = leaf[t][i]
      BY <1>3, <2>1, <2>2, PrepareBOwns, Zenon
  <2>4. plane # leaf[t][i]
      BY <1>0, <1>3, <2>1, <2>2
  <2> QED
      BY <2>1, <2>3, <2>4
<1>6. ASSUME NEW t \in LiveSlots, t # s PROVE LentOf(t)'
  <2>1. PICK q : q = bur[t].seq
      OBVIOUS
  <2>2. t \in Slots /\ LentOf(t) /\ bur'[t] = bur[t]
      BY <1>1, <1>6 DEF LentInv, LiveSlots
  <2>3. Retains(q)
      BY <2>1, PrepareBRetains, Zenon
  <2>4. Same(bur'[t], bur[t]) /\ bur'[t].bs = bur[t].bs /\ bur'[t].col \subseteq bur[t].col
      BY <2>2 DEF Same
  <2> QED
      BY <1>2, <1>5, <2>1, <2>2, <2>3, <2>4, LentOfStays
<1>7. LentOf(s)'
  <2>1. PICK q : q = bur[s].seq
      OBVIOUS
  <2>2. /\ LentOf(s) /\ bur'[s].seq = q /\ bur'[s].refs = bur[s].refs /\ bur'[s].plane = bur[s].plane
        /\ bur'[s].pic = bur[s].pic
      BY <1>1, <2>1 DEF LentInv, Same
  <2>3. Retains(q)
      BY <1>1, <2>1, PrepareBRetains, Zenon
  <2>4. \A r : Lent(q, r) => Lent(q, r)'
      BY <1>2, <2>3, LentStays
  <2>5. \A r \in x.refs \cup e.col : Lent(q, r)'
      BY <2>4, PrepareBReadsLent
  <2>6. \A r \in bur'[s].refs \cup bur'[s].col : Lent(q, r)'
      BY <1>1, <2>1, <2>2, <2>4, <2>5 DEF LentOf
  <2>7. ASSUME NEW i \in 1 .. l PROVE OwnKept(s, i)'
    <3>1. OwnKept(s, i) /\ bur'[s].seq = bur[s].seq /\ bur'[s].bs[i] = bur[s].bs[i]
        BY <1>1, <1>3, <1>4, <2>1, <2>2 DEF LentOf
    <3>2. leaf'[s][i] = leaf[s][i] /\ leaf[s][i] \in Planes /\ plane # leaf[s][i]
        BY <1>1, <1>3, <1>5
    <3> QED
        BY <1>2, <2>1, <2>3, <3>1, <3>2, OwnStays
  <2>8. OwnKept(s, l + 1)'
    <3>1. bur'[s].bs[l + 1] = x /\ planeOf'[x.plane] = x.pic /\ bur'[s].seq = q
        BY <1>1, <1>2, <1>4, <2>2
    <3>2. CASE x.ref
      <4>1. d \in DOMAIN dpb' /\ dpb'[d].plane = plane /\ dpb'[d].aux = x.aux
          BY <3>2 DEF Put, Prepared
      <4>2. Keeps(q, x.plane, x.aux)'
          BY <1>2, <4>1 DEF Keeps
      <4> QED
          BY <3>1, <3>2, <4>2 DEF OwnKept, Keeps
    <3>3. CASE ~x.ref
      <4>1. leaf' = leaf
          BY <3>3 DEF Prepared
      <4> QED
          BY <1>2, <1>4, <3>1, <3>3, <4>1 DEF OwnKept
    <3> QED
        BY <3>2, <3>3
  <2>9. \A i \in 1 .. l : \A r \in bur'[s].bs[i].refs : Lent(q, r)'
      BY <1>1, <1>3, <1>4, <2>1, <2>2, <2>4 DEF LentOf
  <2>10. ASSUME NEW i \in 1 .. Len(bur'[s].bs)
         PROVE  OwnKept(s, i)' /\ \A r \in bur'[s].bs[i].refs : Lent(q, r)'
    <3>1. i \in 1 .. l + 1
        BY <1>1, <1>4
    <3>2. CASE i \in 1 .. l
        BY <2>7, <2>9, <3>2
    <3>3. CASE i = l + 1
      <4>1. bur'[s].bs[i] = x
          BY <1>1, <1>4, <3>3
      <4>2. OwnKept(s, i)'
          BY <2>8, <3>3 DEF OwnKept, Keeps
      <4> QED
          BY <2>5, <4>1, <4>2
    <3> QED
        BY <3>1, <3>2, <3>3
  <2>11. planeOf'[bur[s].plane] = bur[s].pic /\ \E a \in Auxes' : Keeps(q, bur[s].plane, a)'
    <3>1. PICK y : y = bur[s].plane
        OBVIOUS
    <3>2. PICK a \in Auxes : Keeps(q, y, a)
        BY <2>1, <2>2, <3>1 DEF LentOf
    <3>3. Shelved(y) /\ y \in Planes /\ planeOf[y] = bur[s].pic
        BY <2>2, <3>1, <3>2, KeepsIs DEF LentOf
    <3>4. planeOf'[y] = bur[s].pic /\ a \in Auxes'
        BY <1>2, <3>2, <3>3 DEF Spares
    <3>5. Keeps(q, y, a)'
        BY <2>3, <3>2 DEF Retains
    <3>6. Keeps(q, bur[s].plane, a)'
        BY <2>2, <3>1, <3>5 DEF Keeps
    <3> QED
        BY <3>1, <3>4, <3>6
  <2>12. \A r : Lent(q, r)' <=> Lent(bur[s].seq, r)'
      BY <2>1, <2>2 DEF Lent, Keeps
  <2>13. \A y, a : Keeps(q, y, a)' <=> Keeps(bur[s].seq, y, a)'
      BY <2>1, <2>2 DEF Keeps
  <2>14. \A r \in bur'[s].refs \cup bur'[s].col : Lent(bur[s].seq, r)'
      BY <2>6, <2>12
  <2>15. \A i \in 1 .. Len(bur'[s].bs) : OwnKept(s, i)' /\ \A r \in bur'[s].bs[i].refs : Lent(bur[s].seq, r)'
      BY <2>10, <2>12
  <2>16. planeOf'[bur'[s].plane] = bur'[s].pic /\ \E a \in Auxes' : Keeps(bur[s].seq, bur[s].plane, a)'
      BY <2>2, <2>11, <2>13 DEF Keeps
  <2> QED
      BY <2>14, <2>15, <2>16 DEF LentOf
<1> QED
    BY <1>1, <1>6, <1>7 DEF LentInv

LEMMA PrepareBBuffers ==
    ASSUME IInv, RInv, WInv, LInv, NEW s \in Slots, PrepareB(s)
    PROVE  WInv' /\ LInv'
<1>1. PICK e, x, plane : /\ Prepares(s, e, x) /\ Prepared(s, x, plane)
                         /\ IF x.ref THEN Enters(x.pic) ELSE dpb' = dpb /\ nextFn' = nextFn
    BY PreparedIs
<1>2. cfg' = cfg /\ Preps(s)
    BY <1>1, PreparesIs DEF Prepares
<1>3. SUFFICES ASSUME Pooled PROVE WInv' /\ LInv'
  <2>1. Pooled' <=> Pooled
      BY <1>2 DEF Pooled
  <2> QED
      BY <1>3, <2>1 DEF WInv, LInv
<1>4. OwnsInv /\ PoolInv /\ LastInv /\ PicsInv
    BY <1>3 DEF WInv
<1>5. \E d, b, n : x.ref => Put(d, b, n, plane, x.pic)
  <2>1. CASE x.ref
    <3>1. PICK p : p = x.pic
        OBVIOUS
    <3>2. \E before : Enter(p, plane, before)
        BY <1>1, <2>1, <3>1 DEF Prepared
    <3>3. \E d, b, n : Put(d, b, n, plane, p)
        BY <1>3, <1>4, <3>2, PutsIs
    <3> QED
        BY <3>1, <3>3
  <2> QED
      BY <2>1
<1>6. PICK d, b, n : x.ref => Put(d, b, n, plane, x.pic)
    BY <1>5
<1>7. OwnsInv'
    BY <1>1, <1>2, <1>3, <1>4, <1>6, PrepareBOwns, Zenon
<1>8. PoolInv'
    BY <1>1, <1>2, <1>3, <1>4, <1>6, PrepareBPool
<1>9. LastInv'
    BY <1>1, <1>2, <1>3, <1>4, PrepareBLast
<1>10. PicsInv' /\ api' # "begin"
    BY <1>1, <1>2, <1>3, <1>4, <1>6, PrepareBPics
<1>11. ASSUME Sound' PROVE LentInv' /\ FilledInv' /\ ReadyInv'
  <2>1. Sound
      BY <1>1, <1>2, <1>11, PrepFacts
  <2>2. LentInv /\ FilledInv
      BY <1>3, <2>1 DEF LInv
  <2>3. LentInv'
      BY <1>1, <1>2, <1>3, <1>4, <1>6, <2>2, PrepareBLent
  <2>4. FilledInv'
      BY <1>1, <1>2, <1>3, <1>4, <1>6, <2>2, PrepareBFilled
  <2> QED
      BY <1>10, <2>3, <2>4 DEF ReadyInv
<1> QED
    BY <1>7, <1>8, <1>9, <1>10, <1>11 DEF WInv, LInv

-----------------------------------------------------------------------------
(* The theorem of the buffers.                                              *)

\* Where the leaves' planes lie at first.
LEMMA LeafPlace ==
    ASSUME NEW f \in 2 .. 7, NEW r \in Nat, NEW s \in 0 .. r - 1, NEW t \in 0 .. r - 1,
           NEW i \in 1 .. f, NEW j \in 1 .. f
    PROVE  /\ s * f \in Nat /\ r * f \in Nat /\ s * f + i <= r * f
           /\ (s * f + i = t * f + j => s = t /\ i = j)
<1>1. f = 2 \/ f = 3 \/ f = 4 \/ f = 5 \/ f = 6 \/ f = 7
    OBVIOUS
<1>2. CASE f = 2
    BY <1>2
<1>3. CASE f = 3
    BY <1>3
<1>4. CASE f = 4
    BY <1>4
<1>5. CASE f = 5
    BY <1>5
<1>6. CASE f = 6
    BY <1>6
<1>7. CASE f = 7
    BY <1>7
<1> QED
    BY <1>1, <1>2, <1>3, <1>4, <1>5, <1>6, <1>7

LEMMA InitOwns ==
    ASSUME Init, Pooled
    PROVE  OwnsInv /\ DOMAIN dpb = 1 .. DpbSize /\ \A d \in DOMAIN dpb : dpb[d].pic = 0
<1>1. IInv
    BY InitHolds
<1>2. PICK w \in Nat, r \in Nat, f \in 2 .. 7, k \in Nat :
        w = DpbSize /\ r = cfg.ring /\ f = NLeaf /\ k = PoolSize
  <2>1. Window \in Nat /\ cfg.ring \in Nat /\ cfg.bframes \in 2 .. 7 /\ NLeaf = cfg.bframes
      BY <1>1, PooledIs
  <2>2. PoolSize \in Nat
    <3>1. PICK m \in 0 .. 3 : PerLaunch = 1 + m /\ PoolSize = cfg.ring * PerLaunch
        BY <1>1, PooledIs
    <3>2. PICK z \in Nat, q \in Nat : z = cfg.ring /\ q = PerLaunch
        BY <2>1, <3>1
    <3>3. z * q \in Nat
        OBVIOUS
    <3> QED
        BY <3>1, <3>2, <3>3
  <2>3. DpbSize \in Nat
      BY <2>1 DEF DpbSize
  <2>4. NLeaf \in 2 .. 7
      BY <2>1
  <2> QED
      BY <2>1, <2>2, <2>3, <2>4
<1>3. PICK h \in Nat : h = r * f
    OBVIOUS
<1>4. /\ Slots = 0 .. r - 1 /\ Planes = 1 .. w + 1 + h + k /\ Auxes = 1 .. w + k
      /\ Keys = {<<NoSlot, 0>>} \cup ((0 .. r - 1) \X (1 .. f))
    BY <1>2, <1>3 DEF Slots, Planes, Auxes, Keys, PoolBag
<1>5. PICK D : D = dpb
    OBVIOUS
<1>6. D = [d \in 1 .. w |-> [used |-> FALSE, pic |-> 0, fn |-> 0, plane |-> d, aux |-> d]]
    BY <1>2, <1>5 DEF Init
<1>7. DOMAIN D = 1 .. w /\ \A d \in 1 .. w : D[d].plane = d /\ D[d].aux = d /\ D[d].pic = 0
    BY <1>6
<1>8. PICK B : B = Bags
    OBVIOUS
<1>9. B = {[plane |-> w + 1 + h + i, aux |-> w + i, seq |-> 0] : i \in 1 .. k}
    BY <1>2, <1>3, <1>8 DEF Init, Bags, PoolBag
<1>10. ASSUME NEW y \in B PROVE \E i \in 1 .. k : y.plane = w + 1 + h + i /\ y.aux = w + i
                                                  /\ y = [plane |-> w + 1 + h + i, aux |-> w + i, seq |-> 0]
    BY <1>9
<1>11. PICK L : L = leaf
    OBVIOUS
<1>12. L = [s \in 0 .. r - 1 |-> [i \in 1 .. f |-> w + 1 + s * f + i]]
    BY <1>2, <1>4, <1>11 DEF Init
<1>13. PICK T : T = Target
    OBVIOUS
<1>14. DOMAIN T = Keys /\ T[<<NoSlot, 0>>] = w + 1
    BY <1>2, <1>4, <1>13 DEF Target, Init
<1>15. ASSUME NEW s \in 0 .. r - 1, NEW i \in 1 .. f PROVE T[<<s, i>>] = w + 1 + (s * f + i)
  <2>1. T[<<s, i>>] = L[s][i]
      BY <1>4, <1>11, <1>13 DEF Target, NoSlot
  <2>2. L[s][i] = w + 1 + s * f + i
      BY <1>12
  <2>3. PICK z \in Nat : z = s * f
      OBVIOUS
  <2> QED
      BY <2>1, <2>2, <2>3
<1>16. ASSUME NEW l \in Keys
       PROVE  \/ l = <<NoSlot, 0>> /\ T[l] = w + 1
              \/ \E s \in 0 .. r - 1 : \E i \in 1 .. f : /\ l = <<s, i>> /\ T[l] = w + 1 + (s * f + i)
                                                         /\ s * f + i \in 1 .. h
  <2>1. CASE l = <<NoSlot, 0>>
      BY <1>14, <2>1
  <2>2. CASE l \in (0 .. r - 1) \X (1 .. f)
    <3>1. PICK s \in 0 .. r - 1, i \in 1 .. f : l = <<s, i>>
        BY <2>2
    <3>2. T[l] = w + 1 + (s * f + i)
        BY <1>15, <3>1
    <3>3. s * f \in Nat /\ s * f + i <= h
        BY <1>3, LeafPlace
    <3>4. PICK z \in Nat : z = s * f
        BY <3>3
    <3>5. z + i \in 1 .. h
        BY <3>3, <3>4
    <3> QED
        BY <3>1, <3>2, <3>4, <3>5
  <2> QED
      BY <1>4, <2>1, <2>2
<1>17. \A l \in Keys : T[l] \in w + 1 .. w + 1 + h
  <2>1. SUFFICES ASSUME NEW l \in Keys PROVE T[l] \in w + 1 .. w + 1 + h
      OBVIOUS
  <2>2. PICK z \in 0 .. h : T[l] = w + 1 + z
    <3>1. CASE T[l] = w + 1
        BY <3>1, w + 1 = w + 1 + 0, 0 \in 0 .. h
    <3>2. CASE \E s \in 0 .. r - 1 : \E i \in 1 .. f : T[l] = w + 1 + (s * f + i) /\ s * f + i \in 1 .. h
        BY <3>2
    <3> QED
        BY <1>16, <3>1, <3>2
  <2> QED
      BY <2>2
<1>18. PlanesApart(D, B, T)
  <2>1. \A y, z \in B : y.plane = z.plane => y = z
    <3>1. SUFFICES ASSUME NEW y \in B, NEW z \in B, y.plane = z.plane PROVE y = z
        OBVIOUS
    <3>2. PICK i \in 1 .. k : y.plane = w + 1 + h + i /\ y = [plane |-> w + 1 + h + i, aux |-> w + i, seq |-> 0]
        BY <1>10
    <3>3. PICK j \in 1 .. k : z.plane = w + 1 + h + j /\ z = [plane |-> w + 1 + h + j, aux |-> w + j, seq |-> 0]
        BY <1>10
    <3>4. PICK a \in Nat, c \in Nat : a = w + 1 + h + i /\ c = w + 1 + h + j
        OBVIOUS
    <3>5. a = c
        BY <3>1, <3>2, <3>3, <3>4, Zenon
    <3>6. i = j
        BY <3>4, <3>5
    <3> QED
        BY <3>2, <3>3, <3>6
  <2>2. \A l, m \in Keys : T[l] = T[m] => l = m
    <3>1. SUFFICES ASSUME NEW l \in Keys, NEW m \in Keys, T[l] = T[m] PROVE l = m
        OBVIOUS
    <3>2. CASE l = <<NoSlot, 0>> /\ T[l] = w + 1
      <4>1. ASSUME NEW s \in 0 .. r - 1, NEW i \in 1 .. f,
                   T[m] = w + 1 + (s * f + i), s * f + i \in 1 .. h
            PROVE  FALSE
        <5>1. PICK z \in 1 .. h : z = s * f + i
            BY <4>1
        <5> QED
            BY <3>1, <3>2, <4>1, <5>1
      <4> QED
          BY <1>16, <3>2, <4>1, Zenon
    <3>3. ASSUME NEW s \in 0 .. r - 1, NEW i \in 1 .. f, l = <<s, i>>,
                 T[l] = w + 1 + (s * f + i), s * f + i \in 1 .. h
          PROVE  l = m
      <4>1. CASE m = <<NoSlot, 0>> /\ T[m] = w + 1
        <5>1. PICK z \in 1 .. h : z = s * f + i
            BY <3>3
        <5> QED
            BY <3>1, <3>3, <4>1, <5>1
      <4>2. ASSUME NEW t \in 0 .. r - 1, NEW j \in 1 .. f, m = <<t, j>>,
                   T[m] = w + 1 + (t * f + j), t * f + j \in 1 .. h
            PROVE  l = m
        <5>1. PICK y \in Nat, z \in Nat : y = s * f + i /\ z = t * f + j
            BY <3>3, <4>2
        <5>2. y = z
            BY <3>1, <3>3, <4>2, <5>1
        <5>3. s = t /\ i = j
            BY <5>1, <5>2, LeafPlace
        <5> QED
            BY <3>3, <4>2, <5>3
      <4> QED
          BY <1>16, <4>1, <4>2
    <3> QED
        BY <1>16, <3>2, <3>3
  <2>3. \A d \in 1 .. w : \A y \in B : D[d].plane # y.plane
      BY <1>7, <1>10
  <2>4. \A d \in 1 .. w : \A l \in Keys : D[d].plane # T[l]
      BY <1>7, <1>17
  <2>5. \A y \in B : \A l \in Keys : y.plane # T[l]
      BY <1>10, <1>17
  <2>6. \A d, e \in 1 .. w : D[d].plane = D[e].plane => d = e
      BY <1>7
  <2> QED
      BY <1>7, <1>14, <2>1, <2>2, <2>3, <2>4, <2>5, <2>6 DEF PlanesApart
<1>19. AuxesApart(D, B)
  <2>1. ASSUME NEW y \in B, NEW z \in B, y.aux = z.aux PROVE y = z
    <3>1. PICK i \in 1 .. k : y.aux = w + i /\ y = [plane |-> w + 1 + h + i, aux |-> w + i, seq |-> 0]
        BY <1>10
    <3>2. PICK j \in 1 .. k : z.aux = w + j /\ z = [plane |-> w + 1 + h + j, aux |-> w + j, seq |-> 0]
        BY <1>10
    <3>3. PICK a \in Nat, c \in Nat : a = w + i /\ c = w + j
        OBVIOUS
    <3>4. a = c
        BY <2>1, <3>1, <3>2, <3>3, Zenon
    <3>5. i = j
        BY <3>3, <3>4
    <3> QED
        BY <3>1, <3>2, <3>5
  <2>2. \A d \in 1 .. w : \A y \in B : D[d].aux # y.aux
      BY <1>7, <1>10
  <2>3. \A d, e \in 1 .. w : D[d].aux = D[e].aux => d = e
      BY <1>7
  <2> QED
      BY <1>7, <2>1, <2>2, <2>3 DEF AuxesApart
<1>20. PlanesKnown(D, B, T)
  <2>1. \A d \in 1 .. w : D[d].plane \in Planes /\ D[d].aux \in Auxes
      BY <1>4, <1>7
  <2>2. \A y \in B : y.plane \in Planes /\ y.aux \in Auxes
      BY <1>4, <1>10
  <2>3. \A l \in Keys : T[l] \in Planes
      BY <1>4, <1>17
  <2> QED
      BY <1>7, <1>14, <2>1, <2>2, <2>3 DEF PlanesKnown
<1>21. leaf = [s \in Slots |-> leaf[s]] /\ \A s \in Slots : leaf[s] = [i \in 1 .. NLeaf |-> leaf[s][i]]
    BY DEF Init
<1>22. planeOf = [x \in Planes |-> planeOf[x]] /\ auxOf = [x \in Auxes |-> auxOf[x]]
    BY DEF Init
<1>23. Apart(dpb, Bags, Target)
    BY <1>5, <1>8, <1>13, <1>18, <1>19, <1>20 DEF Apart
<1> QED
    BY <1>2, <1>5, <1>7, <1>21, <1>22, <1>23 DEF OwnsInv

LEMMA InitBuffers ==
    ASSUME Init
    PROVE  WInv /\ LInv
<1>1. SUFFICES ASSUME Pooled PROVE WInv /\ LInv
    BY DEF WInv, LInv
<1>2. IInv /\ RInv
    BY InitHolds, ReadsInit
<1>3. /\ api = "idle" /\ slot = 0 /\ seq = 0 /\ last = 0 /\ bur = [s \in Slots |-> Idle] /\ pend = {}
      /\ planeOf = [x \in Planes |-> 0] /\ auxOf = [x \in Auxes |-> 0]
      /\ free = {[plane |-> PoolBag(i), aux |-> DpbSize + i, seq |-> 0] : i \in 1 .. PoolSize}
    BY DEF Init
<1>4. PICK i : i = Idle
    OBVIOUS
<1>5. ~i.live /\ Len(i.bs) = 0
    BY <1>4 DEF Idle
<1>6. \A s \in Slots : bur[s] = i
    BY <1>3, <1>4
<1>7. LiveSlots = {} /\ slot \in Slots /\ ~bur[slot].live
    BY <1>2, <1>5, <1>6 DEF LiveSlots, IInv, TypeInv
<1>8. Count(slot) = 0
  <2>1. Marked(slot) = {}
      BY <1>5, <1>6, <1>7 DEF Marked
  <2> QED
      BY <2>1, FS_EmptySet DEF Count
<1>9. OwnsInv /\ DOMAIN dpb = 1 .. DpbSize /\ \A d \in DOMAIN dpb : dpb[d].pic = 0
    BY <1>1, InitOwns
<1>10. PoolInv
  <2>1. PICK w \in Nat, k \in Nat, h \in Int : w = DpbSize /\ k = PoolSize /\ h = DpbSize + 1 + cfg.ring * NLeaf
    <3>1. PICK a \in Nat, r \in Nat, f \in 2 .. 7 : a = DpbSize /\ r = cfg.ring /\ f = NLeaf
      <4>1. Window \in Nat /\ cfg.ring \in Nat /\ cfg.bframes \in 2 .. 7 /\ NLeaf = cfg.bframes
          BY <1>1, <1>2, PooledIs
      <4>2. DpbSize \in Nat
          BY <4>1 DEF DpbSize
      <4> QED
          BY <4>1, <4>2
    <3>2. PICK m \in 0 .. 3 : PoolSize = r * (1 + m)
        BY <1>1, <1>2, <3>1, PooledIs
    <3>3. r * (1 + m) \in Nat /\ a + 1 + r * f \in Int
        BY <3>1
    <3> QED
        BY <3>1, <3>2, <3>3
  <2>2. free = {[plane |-> h + i0, aux |-> w + i0, seq |-> 0] : i0 \in 1 .. k}
      BY <1>3, <2>1 DEF PoolBag
  <2>3. PICK F : F = [j \in 1 .. k |-> [plane |-> h + j, aux |-> w + j, seq |-> 0]]
      BY Zenon
  <2>4. \A j \in 1 .. k : F[j] = [plane |-> h + j, aux |-> w + j, seq |-> 0] /\ F[j].aux = w + j /\ F[j] \in free
      BY <2>2, <2>3
  <2>5. F \in [1 .. k -> free]
      BY <2>3, <2>4, Zenon
  <2>6. F \in Injection(1 .. k, free)
    <3>1. ASSUME NEW a \in 1 .. k, NEW c \in 1 .. k, F[a] = F[c] PROVE a = c
      <4>1. w + a = w + c
          BY <2>4, <3>1, Zenon
      <4> QED
          BY <4>1
    <3> QED
        BY <2>3, <2>5, <3>1, Zenon DEF Injection, IsInjective
  <2>7. F \in Surjection(1 .. k, free)
    <3>1. ASSUME NEW y \in free PROVE \E j \in 1 .. k : F[j] = y
        BY <2>2, <2>4, Zenon
    <3> QED
        BY <2>5, <3>1 DEF Surjection
  <2>8. ExistsBijection(1 .. k, free)
      BY <2>6, <2>7 DEF ExistsBijection, Bijection
  <2>9. IsFiniteSet(free) /\ Cardinality(free) = k
    <3>1. IsFiniteSet(free)
        BY <2>8, FS_NatBijection
    <3> QED
        BY <2>8, <3>1, FS_CountingElements
  <2>10. Bags = free
      BY <1>3 DEF Bags
  <2>11. PerLaunch \in 1 .. 4
      BY <1>1, <1>2, PerLaunchIs
  <2>12. \A x \in Bags : x.seq \in 0 .. seq
      BY <1>3, <2>2, <2>10
  <2>13. \A q \in 0 .. seq : Cardinality(ParkedSince(q)) <= (seq - q) * PerLaunch + Count(slot)
    <3>1. \A q : ParkedSince(q) = {}
        BY <1>3 DEF ParkedSince
    <3>2. Cardinality({}) = 0
        BY FS_EmptySet
    <3>3. PICK p \in 1 .. 4 : p = PerLaunch
        BY <2>11
    <3>4. (0 - 0) * p + 0 = 0
        OBVIOUS
    <3> QED
        BY <1>3, <1>8, <3>1, <3>2, <3>3, <3>4
  <2> QED
      BY <1>3, <1>8, <2>1, <2>9, <2>10, <2>11, <2>12, <2>13 DEF PoolInv
<1>11. LastInv
    BY <1>3 DEF LastInv
<1>12. PicsInv
  <2>1. \A x \in Planes : planeOf[x] = 0
      BY <1>3
  <2>2. \A d \in DOMAIN dpb : dpb[d].plane \in Planes
    <3>1. PlanesKnown(dpb, Bags, Target)
        BY <1>9 DEF OwnsInv, Apart
    <3> QED
        BY <3>1 DEF PlanesKnown
  <2>3. Entered(0)
      BY <1>3, <1>7 DEF Entered
  <2> QED
      BY <1>3, <1>9, <2>1, <2>2, <2>3 DEF PicsInv
<1>13. LentInv /\ FilledInv /\ ReadyInv
  <2>1. \A x \in Planes : \A a \in Auxes : auxOf[a] = planeOf[x]
      BY <1>3
  <2> QED
      BY <1>3, <1>7, <2>1 DEF LentInv, FilledInv, ReadyInv
<1> QED
    BY <1>9, <1>10, <1>11, <1>12, <1>13 DEF WInv, LInv

LEMMA StepBuffers ==
    ASSUME IInv, RInv, WInv, LInv, [Next]_vars
    PROVE  WInv' /\ LInv'
<1>1. CASE Api
  <2>1. CASE \E n \in 1 .. cfg.bframes : StartBurst(n)
      BY <2>1, CallBuffers
  <2>2. CASE StartSerial \/ Bill \/ Flush \/ Finish
      BY <2>2, CallBuffers
  <2>3. CASE \E idr \in BOOLEAN : SerialAnchor(idr)
      BY <2>3, SerialBuffers
  <2> QED
      BY <1>1, <2>1, <2>2, <2>3, DrainOldestBuffers, PrepareBuffers, BeginBuffers, SubmitBuffers DEF Api
<1>2. ASSUME NEW s \in Slots, Chain(s) \/ Bail(s) \/ Anchor(s) \/ StreamRefB(s)
      PROVE  WInv' /\ LInv'
    BY <1>2, ThreadBuffers, CodeBuffers, PrepareBBuffers DEF Chain, Anchor
<1>3. CASE UNCHANGED vars
    BY <1>3, CallBuffers
<1> QED
    BY <1>1, <1>2, <1>3 DEF Next

\* What a burst has been lent is there, and so are its own pictures.
LEMMA BuffersHold ==
    ASSUME IInv, RInv, WInv, LInv
    PROVE  Pooled => BuffersKept
<1>1. SUFFICES ASSUME Pooled, Sound, NEW s \in LiveSlots
               PROVE  /\ \A r \in Borrowed(s) : /\ (r.plane # NoBuffer => planeOf[r.plane] = r.pic)
                                                /\ (Coming(r.pic) \/ auxOf[r.aux] = r.pic)
                      /\ \A o \in Own(s) : planeOf[o.plane] = o.pic
    BY DEF BuffersKept
<1>2. OwnsInv /\ LentOf(s) /\ FilledInv
    BY <1>1 DEF WInv, LInv, LentInv
<1>3. PICK l \in Nat : l = Len(bur[s].bs) /\ DOMAIN bur[s].bs = 1 .. l
  <2>1. PICK q : q = bur[s].bs
      OBVIOUS
  <2>2. q = [i \in 1 .. Len(q) |-> q[i]] /\ Len(q) \in Nat
      BY <1>1, <2>1 DEF IInv, TypeInv, BurstIs, LiveSlots
  <2>3. DOMAIN q = 1 .. Len(q)
      BY <2>2
  <2> QED
      BY <2>1, <2>2, <2>3
<1>4. ASSUME NEW r \in Borrowed(s) PROVE \E q : Lent(q, r)
  <2>1. CASE r \in bur[s].refs \cup bur[s].col
      BY <1>2, <2>1 DEF LentOf
  <2>2. CASE \E x \in Pending(s) : r \in x.refs
    <3>1. PICK i \in 1 .. l : r \in bur[s].bs[i].refs
        BY <1>3, <2>2 DEF Pending
    <3> QED
        BY <1>2, <1>3, <3>1 DEF LentOf
  <2>3. PICK A, U, C : /\ A = IF bur[s].anchor = "run" THEN bur[s].refs ELSE {}
                       /\ U = UNION {x.refs : x \in Pending(s)} /\ C = bur[s].col
      BY Zenon
  <2>4. Borrowed(s) = A \cup U \cup C
      BY <2>3 DEF Borrowed
  <2>5. A \subseteq bur[s].refs
      BY <2>3
  <2>6. r \in U => \E x \in Pending(s) : r \in x.refs
      BY <2>3
  <2>7. r \in A \/ r \in U \/ r \in C
      BY <1>4, <2>4
  <2> QED
      BY <2>1, <2>2, <2>3, <2>5, <2>6, <2>7
<1>5. ASSUME NEW p, Awaited(p) PROVE Coming(p)
  <2>1. PICK t \in LiveSlots : \E i \in Marked(t) : bur[t].bs[i].pic = p /\ i > bur[t].coded
      BY <1>5 DEF Awaited
  <2>2. PICK i \in Marked(t) : bur[t].bs[i].pic = p /\ i > bur[t].coded
      BY <2>1
  <2>3. i \in DOMAIN bur[t].bs
    <3>1. PICK q : q = bur[t].bs
        OBVIOUS
    <3>2. q = [j \in 1 .. Len(q) |-> q[j]]
        BY <3>1 DEF IInv, TypeInv, BurstIs, LiveSlots
    <3>3. DOMAIN q = 1 .. Len(q)
        BY <3>2
    <3> QED
        BY <2>2, <3>1, <3>3 DEF Marked
  <2> QED
      BY <2>1, <2>2, <2>3 DEF Coming
<1>6. ASSUME NEW r \in Borrowed(s)
      PROVE  (r.plane # NoBuffer => planeOf[r.plane] = r.pic) /\ (Coming(r.pic) \/ auxOf[r.aux] = r.pic)
  <2>1. PICK q : Lent(q, r)
      BY <1>4
  <2>2. PICK x \in Planes : Keeps(q, x, r.aux) /\ planeOf[x] = r.pic /\ (r.plane # NoBuffer => x = r.plane)
      BY <2>1 DEF Lent
  <2>3. Holds(x, r.aux) /\ r.aux \in Auxes
      BY <1>2, <2>2, KeepsIs
  <2>4. Awaited(r.pic) \/ auxOf[r.aux] = r.pic
      BY <1>2, <2>2, <2>3 DEF FilledInv
  <2> QED
      BY <1>5, <2>2, <2>4
<1>7. ASSUME NEW o \in Own(s) PROVE planeOf[o.plane] = o.pic
  <2>1. CASE o = [pic |-> bur[s].pic, plane |-> bur[s].plane]
      BY <1>2, <2>1 DEF LentOf
  <2>2. CASE \E x \in ToSet(bur[s].bs) : o = [pic |-> x.pic, plane |-> x.plane]
    <3>1. PICK i \in 1 .. l : o.pic = bur[s].bs[i].pic /\ o.plane = bur[s].bs[i].plane
        BY <1>3, <2>2 DEF ToSet
    <3>2. planeOf[bur[s].bs[i].plane] = bur[s].bs[i].pic
        BY <1>2, <1>3, <3>1 DEF LentOf, OwnKept
    <3> QED
        BY <3>1, <3>2
  <2> QED
      BY <1>7, <2>1, <2>2 DEF Own
<1> QED
    BY <1>6, <1>7

\* Who owns which plane, how many bags are parked, and where what a live burst reads
\* is kept, together with where the bursts stand and what the buffer holds.
THEOREM BuffersInvariant == Spec => [](IInv /\ RInv /\ WInv /\ LInv)
<1>1. Init => IInv /\ RInv /\ WInv /\ LInv
    BY InitHolds, ReadsInit, InitBuffers
<1>2. IInv /\ RInv /\ WInv /\ LInv /\ [Next]_vars => IInv' /\ RInv' /\ WInv' /\ LInv'
    BY StepHolds, ReadsStep, StepBuffers
<1> QED
    BY <1>1, <1>2, PTL DEF Spec

\* In a wide ring whose list 0 leaves room in the window, no buffer is written for
\* another picture while a burst in flight reads it or has still to hand it out: the
\* bags that are let go by launch order alone are behind every live burst's launch,
\* and there is always one to take.
THEOREM RingBuffers == Spec => [](Pooled => BuffersKept)
<1>1. IInv /\ RInv /\ WInv /\ LInv => (Pooled => BuffersKept)
    BY BuffersHold
<1> QED
    BY BuffersInvariant, <1>1, PTL
=============================================================================
