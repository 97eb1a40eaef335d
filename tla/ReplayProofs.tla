----------------------------- MODULE ReplayProofs --------------------------
(***************************************************************************)
(* Proofs about the replay tool: the types of its state; whom it may call  *)
(* tolerant; what the recogniser of the exit string has seen; and, for     *)
(* files that are the record of a session, that every word is changed      *)
(* once, that success means the words of the log were written, and that a  *)
(* program that checks what it reads is never blamed.                      *)
(*                                                                         *)
(* Base is inductive for every file.  On a record the two processes are in *)
(* step (SyncInv) until a word is changed: either the program is ahead, by *)
(* the bytes of the words it has written, or it is behind, by the words it *)
(* has to read.  FaithInv adds how a faithful program ends.                *)
(***************************************************************************)
EXTENDS Replay, SequenceTheorems, FiniteSetTheorems, WellFoundedInduction, TLAPS

-----------------------------------------------------------------------------
(* Induction over sets of numbers. *)
LEMMA Induction ==
    ASSUME NEW S, 0 \in S, \A n \in Nat : n \in S => n + 1 \in S
    PROVE  Nat \subseteq S
<1> DEFINE T == Nat \ S
<1> SUFFICES ASSUME T # {} PROVE FALSE
    OBVIOUS
<1>1. PICK x \in T : \A y \in T : ~(<<y, x>> \in OpToRel(<, Nat))
    BY NatLessThanWellFounded, WFMin
<1>2. x # 0 /\ x \in Nat
    OBVIOUS
<1>3. x - 1 \in Nat /\ x - 1 < x
    BY <1>2
<1>4. x - 1 \notin T
    <2>1. <<x - 1, x>> \in OpToRel(<, Nat)
        BY <1>2, <1>3 DEF OpToRel
    <2> QED BY <1>1, <2>1
<1>5. x - 1 \in S /\ (x - 1) + 1 = x
    BY <1>3, <1>4
<1> QED BY <1>1, <1>3, <1>5

LEMMA LeastIsIn ==
    ASSUME NEW S \in SUBSET Nat, S # {}
    PROVE  Least(S) \in S /\ \A y \in S : Least(S) <= y
<1>1. PICK x \in S : \A y \in S : ~(<<y, x>> \in OpToRel(<, Nat))
    BY NatLessThanWellFounded, WFMin
<1>2. \A y \in S : x <= y
    <2> TAKE y \in S
    <2>1. y \in Nat /\ x \in Nat
        OBVIOUS
    <2>2. y < x => <<y, x>> \in OpToRel(<, Nat)
        BY <2>1 DEF OpToRel
    <2>3. ~(y < x)
        BY <1>1, <2>2
    <2> QED BY <2>1, <2>3
<1> QED BY <1>2 DEF Least

-----------------------------------------------------------------------------
(* The script of simple_boot: it ends with a read, and no word it expects is
   what a corrupted one becomes. *)
L == Len(Script)
Op == {"READ32", "WRITE32"}

Joined(s, a, b, c, m, n, l) ==
    /\ Len(s) = m + n + l /\ DOMAIN s = 1 .. m + n + l
    /\ \A k \in 1 .. m : s[k] = a[k]
    /\ \A k \in 1 .. n : s[m + k] = b[k]
    /\ \A k \in 1 .. l : s[m + n + k] = c[k]
LEMMA ThreeParts ==
    ASSUME NEW S, NEW a \in Seq(S), NEW b \in Seq(S), NEW c \in Seq(S),
           NEW m \in Nat, NEW n \in Nat, NEW l \in Nat,
           Len(a) = m, Len(b) = n, Len(c) = l
    PROVE  a \o b \o c \in Seq(S) /\ Joined(a \o b \o c, a, b, c, m, n, l)
<1>1. /\ a \o b \in Seq(S) /\ Len(a \o b) = m + n
      /\ \A i \in 1 .. m + n : (a \o b)[i] = IF i <= m THEN a[i] ELSE b[i - m]
    BY ConcatProperties
<1>2. PICK d \in Seq(S) : d = a \o b
    BY <1>1
<1>3. /\ d \o c \in Seq(S) /\ Len(d \o c) = m + n + l
      /\ \A i \in 1 .. m + n + l : (d \o c)[i] = IF i <= m + n THEN d[i] ELSE c[i - (m + n)]
    BY <1>1, <1>2, ConcatProperties
<1>4. DOMAIN (d \o c) = 1 .. m + n + l
    BY <1>3
<1>6. \A k \in 1 .. m : (d \o c)[k] = a[k]
    BY <1>1, <1>2, <1>3
<1>7. \A k \in 1 .. n : (d \o c)[m + k] = b[k]
    <2> TAKE k \in 1 .. n
    <2>1. m + k \in 1 .. m + n + l /\ m + k <= m + n /\ ~(m + k <= m) /\ (m + k) - m = k
          /\ m + k \in 1 .. m + n
        OBVIOUS
    <2> QED BY <2>1, <1>1, <1>2, <1>3
<1>8. \A k \in 1 .. l : (d \o c)[m + n + k] = c[k]
    <2> TAKE k \in 1 .. l
    <2>1. m + n + k \in 1 .. m + n + l /\ ~(m + n + k <= m + n) /\ (m + n + k) - (m + n) = k
        OBVIOUS
    <2> QED BY <2>1, <1>3
<1> QED BY <1>2, <1>3, <1>4, <1>6, <1>7, <1>8 DEF Joined

Added(o, s, c, m) ==
    Len(o) = m + 1 /\ o[m + 1] = c /\ \A j \in 1 .. m : o[j] = s[j]
LEMMA AppendFacts ==
    ASSUME NEW S, NEW s \in Seq(S), NEW c \in S, NEW m \in Nat, m = Len(s)
    PROVE  Append(s, c) \in Seq(S) /\ Added(Append(s, c), s, c, m)
BY AppendProperties DEF Added

Dropped(o, s, k, m) == Len(o) = m - k /\ \A j \in 1 .. m - k : o[j] = s[j + k]
LEMMA DropFacts ==
    ASSUME NEW S, NEW s \in Seq(S), NEW m \in Nat, m = Len(s), NEW k \in Nat, k <= m
    PROVE  /\ SubSeq(s, k + 1, m) \in Seq(S) /\ Dropped(SubSeq(s, k + 1, m), s, k, m)
           /\ m # 0 => /\ s # <<>> /\ Head(s) = s[1]
                       /\ Tail(s) \in Seq(S) /\ Dropped(Tail(s), s, 1, m)
<1>1. SubSeq(s, k + 1, m) \in Seq(S) /\ Dropped(SubSeq(s, k + 1, m), s, k, m)
    BY DEF Dropped
<1>2. m # 0 => /\ s # <<>> /\ Head(s) = s[1]
               /\ Tail(s) \in Seq(S) /\ Dropped(Tail(s), s, 1, m)
    BY EmptySeq, HeadTailProperties DEF Dropped
<1> QED BY <1>1, <1>2

LEMMA ScriptFacts ==
    /\ L \in Nat /\ L >= 9 /\ DOMAIN Script = 1 .. L /\ Script \in Seq([op : Op, val : Symbol])
    /\ \A k \in 1 .. L : /\ Script[k].op \in Op /\ Script[k].val \in Symbol
                         /\ Script[k].op = "READ32" => Script[k].val # Bogus
    /\ Script[L].op = "READ32" /\ Script[L - 1].op = "WRITE32"
<1> DEFINE E == [op : Op, val : Symbol]
           a == << Put("SOH"), Put("size"), Put("hash"), Get("SOH"), Get("crc"), Get("hash"),
                   Put("ACK") >>
           p == [k \in 1 .. Len(Program) |-> Put(Program[k])]
           z == << Put("EOT"), Get("ACK") >>
<1>0. \A w \in Symbol : /\ Put(w) \in E /\ Put(w).op = "WRITE32"
                        /\ Get(w) \in E /\ Get(w).op = "READ32" /\ Get(w).val = w
    BY DEF Put, Get, Op
<1>a. /\ "SOH" \in Symbol /\ "size" \in Symbol /\ "hash" \in Symbol /\ "crc" \in Symbol
      /\ "ACK" \in Symbol /\ "EOT" \in Symbol
    BY ReplayAssumption DEF ReplayAssumption
<1>1. PICK n \in Nat : n = Len(Program)
    BY ReplayAssumption DEF ReplayAssumption
<1>2. /\ a \in Seq(E) /\ Len(a) = 7 /\ a[1].op = "WRITE32" /\ a[4].op = "READ32"
      /\ \A k \in 1 .. 7 : a[k].op = "READ32" => a[k].val # Bogus
    <2> HIDE DEF E
    <2>1. PICK a1, a2, a3, a4, a5, a6, a7 :
             /\ a1 = Put("SOH") /\ a2 = Put("size") /\ a3 = Put("hash") /\ a4 = Get("SOH")
             /\ a5 = Get("crc") /\ a6 = Get("hash") /\ a7 = Put("ACK")
        OBVIOUS
    <2>2. a = <<a1, a2, a3, a4, a5, a6, a7>>
        BY <2>1
    <2>3. /\ a1 \in E /\ a2 \in E /\ a3 \in E /\ a4 \in E /\ a5 \in E /\ a6 \in E /\ a7 \in E
          /\ a1.op = "WRITE32" /\ a2.op = "WRITE32" /\ a3.op = "WRITE32" /\ a7.op = "WRITE32"
          /\ a4.op = "READ32" /\ a4.val # Bogus /\ a5.val # Bogus /\ a6.val # Bogus
        BY <1>0, <1>a, <2>1 DEF Bogus
    <2> HIDE DEF a
    <2> QED BY <2>2, <2>3
<1>3. /\ p \in Seq(E) /\ Len(p) = n /\ \A k \in 1 .. n : p[k].op = "WRITE32"
    <2>1. \A k \in 1 .. n : Put(Program[k]) \in E /\ Put(Program[k]).op = "WRITE32"
        BY <1>1, ReplayAssumption DEF ReplayAssumption, Put, Op
    <2>2. p = [k \in 1 .. n |-> Put(Program[k])]
        BY <1>1
    <2> QED BY <2>1, <2>2
<1>4. /\ z \in Seq(E) /\ Len(z) = 2 /\ z[1].op = "WRITE32" /\ z[2].op = "READ32"
      /\ z[2].val # Bogus
    <2> HIDE DEF E
    <2>1. PICK z1, z2 : z1 = Put("EOT") /\ z2 = Get("ACK")
        OBVIOUS
    <2>2. z = <<z1, z2>>
        BY <2>1
    <2>3. /\ z1 \in E /\ z2 \in E /\ z1.op = "WRITE32" /\ z2.op = "READ32" /\ z2.val # Bogus
        BY <1>0, <1>a, <2>1 DEF Bogus
    <2> HIDE DEF z
    <2> QED BY <2>2, <2>3
<1>5. Script = a \o p \o z
    BY DEF Script
<1>b. /\ E = [op : Op, val : Symbol]
      /\ \A e \in E : e.op \in Op /\ e.val \in Symbol
    OBVIOUS
<1> HIDE DEF a, p, z, E
<1>6. /\ Script \in Seq(E) /\ Len(Script) = 9 + n
      /\ DOMAIN Script = 1 .. 9 + n
      /\ \A k \in 1 .. 7 : Script[k] = a[k]
      /\ \A k \in 1 .. n : Script[7 + k] = p[k]
      /\ \A k \in 1 .. 2 : Script[7 + n + k] = z[k]
    <2>1. PICK m \in Nat, l \in Nat : m = 7 /\ l = 2
        OBVIOUS
    <2>2. /\ Script \in Seq(E) /\ Len(Script) = m + n + l
          /\ DOMAIN Script = 1 .. m + n + l
          /\ \A k \in 1 .. m : Script[k] = a[k]
          /\ \A k \in 1 .. n : Script[m + k] = p[k]
          /\ \A k \in 1 .. l : Script[m + n + k] = z[k]
        <3>1. /\ a \in Seq(E) /\ p \in Seq(E) /\ z \in Seq(E)
              /\ Len(a) = m /\ Len(p) = n /\ Len(z) = l
            BY <1>2, <1>3, <1>4, <2>1
        <3>2. a \o p \o z \in Seq(E) /\ Joined(a \o p \o z, a, p, z, m, n, l)
            BY <3>1, ThreeParts
        <3> QED BY <3>2, <1>5 DEF Joined
    <2>3. m + n + l = 9 + n
        BY <2>1
    <2> QED BY <2>1, <2>2, <2>3
<1>7. \A k \in 1 .. 9 + n : Script[k] \in E
    BY <1>6
<1>8. \A k \in 1 .. 9 + n : Script[k].op = "READ32" => Script[k].val # Bogus
    <2> TAKE k \in 1 .. 9 + n
    <2>1. CASE k \in 1 .. 7
        BY <2>1, <1>2, <1>6
    <2>2. CASE k \in 8 .. 7 + n
        <3>1. PICK j \in 1 .. n : k = 7 + j
            <4>1. k - 7 \in 1 .. n /\ k = 7 + (k - 7)
                BY <2>2, <1>1
            <4> QED BY <4>1
        <3>2. Script[7 + j] = p[j]
            BY <1>6
        <3> QED BY <3>1, <3>2, <1>3
    <2>3. CASE k \in 8 + n .. 9 + n
        <3>1. PICK j \in 1 .. 2 : k = 7 + n + j
            <4>1. k - (7 + n) \in 1 .. 2 /\ k = 7 + n + (k - (7 + n))
                BY <2>3, <1>1
            <4> QED BY <4>1
        <3> QED BY <3>1, <1>4, <1>6
    <2> QED BY <2>1, <2>2, <2>3
<1>9. Script[9 + n].op = "READ32" /\ Script[(9 + n) - 1].op = "WRITE32"
    <2>1. 9 + n = 7 + n + 2 /\ (9 + n) - 1 = 7 + n + 1 /\ 1 \in 1 .. 2 /\ 2 \in 1 .. 2
        BY <1>1
    <2> QED BY <2>1, <1>4, <1>6
<1> QED BY <1>b, <1>1, <1>2, <1>4, <1>6, <1>7, <1>8, <1>9 DEF L

-----------------------------------------------------------------------------
(* The recogniser, character by character.  A run is the function that done
   computes; it exists, is unique, and stays typed. *)
Alert == {r \in Recogniser : r.seen \/ r.pos < 8}
IsRun(h, r, p, K) == h = [k \in 0 .. K |-> IF k = 0 THEN r ELSE Step[h[k - 1]][p[k]]]
Follows(h, r, p, K) == h[0] = r /\ \A k \in 1 .. K : h[k] = Step[h[k - 1]][p[k]]

LEMMA StepType ==
    /\ Fresh \in Alert
    /\ \A r \in Alert, c \in Symbol :
         /\ Step[r][c] \in Alert
         /\ r.stop \/ r.seen => Step[r][c] = r
         /\ c # NUL => Step[r][c].stop = r.stop
<1>0. Len(EXIT_STRING) = 8
    BY DEF EXIT_STRING
<1>1. Fresh \in Alert
    BY <1>0 DEF Alert, Fresh, Recogniser
<1>2. ASSUME NEW r \in Alert, NEW c \in Symbol
      PROVE  /\ Step[r][c] \in Alert
             /\ r.stop \/ r.seen => Step[r][c] = r
             /\ c # NUL => Step[r][c].stop = r.stop
    <2>1. r \in Recogniser
        BY DEF Alert
    <2>2. Step[r][c] = IF r.stop \/ r.seen THEN r
                        ELSE IF c = NUL THEN [r EXCEPT !.stop = TRUE]
                        ELSE IF Matches(r, c) THEN Matched(r) ELSE [r EXCEPT !.pos = 0]
        BY <2>1, Zenon DEF Step
    <2>3. CASE r.stop \/ r.seen
        <3>1. Step[r][c] = r
            BY <2>2, <2>3
        <3> QED BY <3>1, Zenon
    <2>4. CASE ~(r.stop \/ r.seen) /\ c = NUL
        <3>1. Step[r][c] = [r EXCEPT !.stop = TRUE]
            BY <2>2, <2>4
        <3> QED BY <2>1, <2>4, <3>1 DEF Alert, Recogniser
    <2>5. CASE ~(r.stop \/ r.seen) /\ c # NUL /\ Matches(r, c)
        <3>1. Step[r][c] = [r EXCEPT !.pos = r.pos + 1, !.seen = (r.pos + 1 = 8)]
            BY <1>0, <2>1, <2>2, <2>5 DEF Matched, Recogniser
        <3>2. r.pos < 8
            BY <2>5 DEF Alert
        <3>3. PICK b \in BOOLEAN : b = (r.pos + 1 = 8)
            BY Zenon
        <3>4. Step[r][c] = [r EXCEPT !.pos = r.pos + 1, !.seen = b]
            BY <3>1, <3>3, Zenon
        <3>5. Step[r][c] \in Recogniser /\ Step[r][c].stop = r.stop
              /\ Step[r][c].seen = b /\ Step[r][c].pos = r.pos + 1
            <4>1. r \in [pos : 0 .. 8, seen : BOOLEAN, stop : BOOLEAN] /\ r.pos + 1 \in 0 .. 8
                BY <1>0, <2>1, <3>2 DEF Recogniser
            <4> QED BY <1>0, <3>4, <4>1 DEF Recogniser
        <3>6. r.pos = 7 => b
            <4>1. 7 + 1 = 8
                OBVIOUS
            <4>2. r.pos = 7 => r.pos + 1 = 8
                BY <4>1
            <4> QED BY <3>3, <4>2, Zenon
        <3>7. b \/ r.pos + 1 < 8
            <4>1. r.pos \in Nat
                BY <1>0, <2>1 DEF Recogniser
            <4>2. r.pos < 7 => r.pos + 1 < 8
                BY <4>1
            <4> QED BY <3>2, <3>6, <4>1, <4>2
        <3> QED BY <2>5, <3>5, <3>7 DEF Alert
    <2>6. CASE ~(r.stop \/ r.seen) /\ c # NUL /\ ~Matches(r, c)
        <3>1. Step[r][c] = [r EXCEPT !.pos = 0]
            BY <2>2, <2>6
        <3> QED BY <2>1, <2>6, <3>1 DEF Alert, Recogniser
    <2> QED BY <2>3, <2>4, <2>5, <2>6
<1> QED BY <1>1, <1>2

LEMMA RunExists ==
    ASSUME NEW r, NEW p, NEW K \in Nat
    PROVE  \E h : IsRun(h, r, p, K)
<1> DEFINE S == {n \in Nat : \E h : IsRun(h, r, p, n)}
<1>1. 0 \in S
    <2>1. IsRun([k \in 0 .. 0 |-> r], r, p, 0)
        BY DEF IsRun
    <2> QED BY <2>1
<1>2. ASSUME NEW n \in Nat, n \in S PROVE n + 1 \in S
    <2>1. PICK h : IsRun(h, r, p, n)
        BY <1>2
    <2> DEFINE g == [k \in 0 .. n + 1 |-> IF k = n + 1 THEN Step[h[n]][p[n + 1]] ELSE h[k]]
    <2>2. ASSUME NEW k \in 0 .. n + 1
          PROVE  g[k] = IF k = 0 THEN r ELSE Step[g[k - 1]][p[k]]
        <3>1. CASE k = 0
            BY <2>1, <3>1 DEF IsRun
        <3>2. CASE k \in 1 .. n
            <4>1. g[k] = h[k] /\ g[k - 1] = h[k - 1]
                BY <3>2
            <4>2. h[k] = Step[h[k - 1]][p[k]]
                BY <2>1, <3>2 DEF IsRun
            <4> QED BY <3>2, <4>1, <4>2
        <3>3. CASE k = n + 1
            <4>1. g[k] = Step[h[n]][p[n + 1]] /\ g[k - 1] = h[n]
                BY <3>3
            <4> QED BY <3>3, <4>1
        <3>4. k = 0 \/ k \in 1 .. n \/ k = n + 1
            OBVIOUS
        <3> HIDE DEF g
        <3> QED BY <3>1, <3>2, <3>3, <3>4
    <2>3. IsRun(g, r, p, n + 1)
        BY <2>2, Zenon DEF IsRun
    <2> QED BY <2>3
<1> HIDE DEF S
<1>3. Nat \subseteq S
    BY <1>1, <1>2, Induction
<1> QED BY <1>3 DEF S

LEMMA RunValues ==
    ASSUME NEW r, NEW p, NEW K \in Nat, NEW h, IsRun(h, r, p, K)
    PROVE  Follows(h, r, p, K)
BY DEF IsRun, Follows

LEMMA RunUnique ==
    ASSUME NEW r, NEW p, NEW q, NEW K \in Nat, NEW M \in Nat, NEW h, NEW g,
           Follows(h, r, p, K), Follows(g, r, q, M),
           M <= K, \A k \in 1 .. M : p[k] = q[k]
    PROVE  \A k \in 0 .. M : h[k] = g[k]
<1> DEFINE S == {n \in Nat : n <= M => h[n] = g[n]}
<1>1. 0 \in S
    BY DEF Follows
<1>2. ASSUME NEW n \in Nat, n \in S PROVE n + 1 \in S
    <2> SUFFICES ASSUME n + 1 <= M PROVE h[n + 1] = g[n + 1]
        OBVIOUS
    <2>1. n + 1 \in 1 .. M /\ n + 1 \in 1 .. K /\ (n + 1) - 1 = n /\ n <= M
        OBVIOUS
    <2>2. h[n] = g[n]
        BY <1>2, <2>1
    <2>3. h[n + 1] = Step[h[n]][p[n + 1]]
        BY <2>1 DEF Follows
    <2>4. g[n + 1] = Step[g[n]][q[n + 1]] /\ p[n + 1] = q[n + 1]
        BY <2>1 DEF Follows
    <2> QED BY <2>2, <2>3, <2>4
<1>3. Nat \subseteq S
    <2> HIDE DEF S
    <2> QED BY <1>1, <1>2, Induction
<1> QED BY <1>3

LEMMA RunType ==
    ASSUME NEW r \in Alert, NEW p \in Seq(Symbol), NEW h, Follows(h, r, p, Len(p))
    PROVE  \A k \in 0 .. Len(p) : h[k] \in Alert
<1> DEFINE S == {n \in Nat : n <= Len(p) => h[n] \in Alert}
<1>1. 0 \in S
    BY DEF Follows
<1>2. ASSUME NEW n \in Nat, n \in S PROVE n + 1 \in S
    <2> SUFFICES ASSUME n + 1 <= Len(p) PROVE h[n + 1] \in Alert
        OBVIOUS
    <2>1. n + 1 \in 1 .. Len(p) /\ (n + 1) - 1 = n /\ n <= Len(p) /\ p[n + 1] \in Symbol
        OBVIOUS
    <2>2. h[n + 1] = Step[h[n]][p[n + 1]]
        BY <2>1 DEF Follows
    <2> QED BY <1>2, <2>1, <2>2, StepType
<1>3. Nat \subseteq S
    <2> HIDE DEF S
    <2> QED BY <1>1, <1>2, Induction
<1> QED BY <1>3

(* done is the last element of such a run. *)
LEMMA DoneIsRun ==
    ASSUME NEW r, NEW p \in Seq(Symbol)
    PROVE  \E h : /\ Follows(h, r, p, Len(p))
                  /\ done(r, p) = [h[Len(p)] EXCEPT !.stop = FALSE]
<1>0. Len(p) \in Nat
    OBVIOUS
<1> DEFINE after == CHOOSE g : IsRun(g, r, p, Len(p))
<1>1. IsRun(after, r, p, Len(p))
    <2>1. \E h : IsRun(h, r, p, Len(p))
        BY <1>0, RunExists
    <2> QED BY <2>1, Zenon
<1>2. done(r, p) = [after[Len(p)] EXCEPT !.stop = FALSE]
    BY Zenon DEF done, IsRun
<1> HIDE DEF after
<1>3. Follows(after, r, p, Len(p))
    BY <1>0, <1>1, RunValues
<1> QED BY <1>2, <1>3

-----------------------------------------------------------------------------
(* The inductive invariant for every trace: what has been read of it, the    *)
(* cells of both processes, the words already tried, who may have failed.    *)
Cell == (Symbol \cup {"?"}) \X (1 .. 4)
ToolType ==
    [pc : {"parse", "spawn", "op", "wait", "error", "exit0", "exit1", "killed"},
     n : Nat, bad : Int, can : BOOLEAN, temp : [1 .. 4 -> Cell], got : 0 .. 3,
     round : 1 .. 2 * N]
ChildType ==
    [kind : Children, resets : Resets, pc : {"none", "boot", "echo", "exited", "signalled"},
     i : 1 .. L + 1, sent : 0 .. 3, wrote : Seq(Symbol), rec : Alert, echoed : Seq(Symbol),
     status : {0, 1}, reset : BOOLEAN]

TypeInv ==
    /\ trace \in Traces /\ log \in Seq(Line)
    /\ tool \in ToolType /\ child \in ChildType
    /\ toChild \in Seq(Symbol) /\ toTool \in Seq(Cell)

LogInv ==
    /\ Len(log) <= Len(trace)
    /\ \A k \in 1 .. Len(log) : log[k] = trace[k] /\ log[k].cnt = k - 1
    /\ tool.pc \notin {"parse", "exit1"} => Len(log) = Len(trace)

ToolInv ==
    /\ tool.pc = "parse" => tool = Idle
    /\ tool.n <= Len(log) + 1
    /\ tool.pc \in {"op", "wait", "error"} => tool.n >= 1
    /\ tool.got > 0 => tool.n \in 1 .. Len(log) /\ log[tool.n].op = "WRITE32"
    /\ tool.pc = "wait" => ~tool.can /\ tool.n > Len(log)
    /\ tool.pc = "error" => tool.can
    /\ (tool.can /\ tool.pc # "spawn") => tool.bad # -1

CoverInv ==
    /\ tried \subseteq ProtocolReads
    /\ tool.round <= N => tool.bad = -1 /\ tried = {}
    /\ tool.round > N =>
          /\ tool.bad \in ProtocolReads
          /\ tool.pc # "exit0" => {c \in ProtocolReads : c < tool.bad} \subseteq tried
    /\ tool.pc = "exit0" => tried = ProtocolReads

ChildInv ==
    /\ child.pc = "boot" => child.i <= L
    /\ child.pc = "echo" => child.i = L + 1
    /\ ~child.rec.stop
    /\ tool.pc \in {"op", "wait", "error"} => child.pc # "none"
    /\ child.sent > 0 => child.i <= L /\ Script[child.i].op = "WRITE32"

BlameInv ==
    child.status = 1 =>
        child.pc = "exited" /\ (HungUp \/ (child.kind # "ignores" /\ child.i <= L))

Base == TypeInv /\ LogInv /\ ToolInv /\ CoverInv /\ ChildInv /\ BlameInv

-----------------------------------------------------------------------------
LEMMA Constants ==
    /\ N \in Nat /\ N >= 1 /\ Bogus \in Symbol
    /\ \A w \in Symbol : Bytes(w) \in [1 .. 4 -> Cell]
    /\ Unset \in [1 .. 4 -> Cell] /\ Bytes("SOH") \in [1 .. 4 -> Cell]
<1>1. N \in Nat /\ N >= 1 /\ Bogus \in Symbol /\ "SOH" \in Symbol
    BY ReplayAssumption DEF ReplayAssumption, Bogus
<1>2. \A w \in Symbol : Bytes(w) \in [1 .. 4 -> Cell]
    BY DEF Bytes, Cell
<1>3. Unset \in [1 .. 4 -> Cell]
    BY DEF Unset, Cell
<1> QED BY <1>1, <1>2, <1>3

(* An entry of the log, and what becomes of it. *)
LEMMA EntryFacts ==
    ASSUME TypeInv, tool.n \in 1 .. Len(log)
    PROVE  /\ Entry.op \in {"READ8", "READ32", "WRITE32"} /\ Entry.cnt \in Nat
           /\ Entry.val \in Symbol /\ Value \in Symbol
<1>1. Entry \in Line
    BY DEF TypeInv, Entry
<1>2. Bogus \in Symbol
    BY Constants
<1> QED BY <1>1, <1>2 DEF Line, Value

LEMMA BaseInit == Init => Base
<1> SUFFICES ASSUME Init PROVE Base
    OBVIOUS
<1>1. Idle \in ToolType
    <2>1. N \in Nat /\ N >= 1 /\ Unset \in [1 .. 4 -> Cell]
        BY Constants
    <2> QED BY <2>1 DEF Idle, ToolType
<1>2. PICK kind \in Children, r \in Resets : child = NoChild(kind, r)
    BY DEF Init
<1>3. NoChild(kind, r) \in ChildType
    <2>1. L \in Nat /\ Fresh \in Alert
        BY ScriptFacts, StepType
    <2> QED BY <2>1 DEF NoChild, ChildType
<1>4. TypeInv
    BY <1>1, <1>2, <1>3 DEF TypeInv, Init
<1>5. trace \in Seq(Line)
    BY ReplayAssumption DEF ReplayAssumption, Init
<1>6. LogInv
    BY <1>5 DEF LogInv, Init, Idle
<1>7. ToolInv
    BY DEF ToolInv, Init, Idle
<1>8. CoverInv
    <2>1. N >= 1 /\ N \in Nat
        BY Constants
    <2> QED BY <2>1 DEF CoverInv, Init, Idle
<1>9. ChildInv /\ BlameInv
    BY <1>2 DEF ChildInv, BlameInv, Init, Idle, NoChild, Fresh
<1> QED BY <1>4, <1>6, <1>7, <1>8, <1>9 DEF Base

-----------------------------------------------------------------------------
(* What the five actions on an entry, or on the end of the log, have in      *)
(* common.                                                                   *)
ToolStep ==
    /\ tool.pc = "op" /\ tool' \in ToolType
    /\ tool'.bad = tool.bad /\ tool'.round = tool.round
    /\ tool'.pc \in {"op", "wait", "error", "exit1", "killed"}
    /\ tool'.n = tool.n \/ (tool'.n = tool.n + 1 /\ tool.n <= Len(log))
    /\ tool'.got > 0 => tool'.n = tool.n /\ (tool'.got = tool.got \/ Reading)
    /\ tool'.pc = "wait" => ~tool'.can /\ tool'.n > Len(log)
    /\ tool'.pc = "error" => tool'.can
    /\ tool'.can => tool.can \/ tool.bad # -1
    /\ UNCHANGED <<trace, log, tried, child>>
    /\ toChild' \in Seq(Symbol) /\ toTool' \in Seq(Cell)

LEMMA ToolStepBase == ASSUME Base, ToolStep PROVE Base'
<1> USE DEF Base, ToolStep
<1>1. TypeInv'
    BY DEF TypeInv
<1>2. LogInv'
    BY DEF LogInv
<1>3. ToolInv'
    <2>1. tool.n \in Nat /\ tool'.n \in Nat /\ Len(log) \in Nat /\ tool.n >= 1
        BY DEF TypeInv, ToolType, ToolInv
    <2>2. (tool'.got > 0 => tool'.n \in 1 .. Len(log) /\ log[tool'.n].op = "WRITE32")
        BY <2>1 DEF ToolInv, Reading, InLog, Entry
    <2>3. tool'.n <= Len(log) + 1 /\ tool'.n >= 1
        BY <2>1 DEF ToolInv
    <2>4. tool'.can => tool'.bad # -1
        BY DEF ToolInv
    <2>5. tool'.pc # "parse" /\ tool'.pc # "spawn"
        OBVIOUS
    <2> QED BY <2>2, <2>3, <2>4, <2>5 DEF ToolInv
<1>4. CoverInv'
    <2>1. ProtocolReads' = ProtocolReads
        BY DEF ProtocolReads
    <2>2. tool.pc # "exit0" /\ tool'.pc # "exit0"
        OBVIOUS
    <2> QED BY <2>1, <2>2 DEF CoverInv
<1>5. ChildInv'
    BY DEF ChildInv
<1>6. BlameInv'
    BY DEF BlameInv, HungUp
<1> QED BY <1>1, <1>2, <1>3, <1>4, <1>5, <1>6

LEMMA ToolIs ==
    ASSUME NEW pc \in {"parse", "spawn", "op", "wait", "error", "exit0", "exit1", "killed"},
           NEW n \in Nat, NEW bad \in Int, NEW can \in BOOLEAN, NEW temp \in [1 .. 4 -> Cell],
           NEW got \in 0 .. 3, NEW round \in 1 .. 2 * N
    PROVE  [pc |-> pc, n |-> n, bad |-> bad, can |-> can, temp |-> temp, got |-> got,
            round |-> round] \in ToolType
BY DEF ToolType

LEMMA NextOpStep ==
    ASSUME Base, InLog, NEW temp \in [1 .. 4 -> Cell], tool' = [NextOp EXCEPT !.temp = temp],
           UNCHANGED <<trace, log, tried, child>>,
           toChild' \in Seq(Symbol), toTool' \in Seq(Cell)
    PROVE  ToolStep
<1>1. tool \in ToolType /\ tool.n \in 1 .. Len(log) /\ Len(log) \in Nat /\ tool.pc = "op"
    BY DEF Base, TypeInv, ToolType, ToolInv, InLog
<1>2. PICK b \in BOOLEAN : b = CanFail
    BY Zenon, <1>1 DEF CanFail, Corrupted, ToolType
<1>3. tool' = [tool EXCEPT !.n = tool.n + 1, !.can = b, !.got = 0, !.temp = temp]
    BY <1>2 DEF NextOp
<1>4. /\ tool' \in ToolType /\ tool'.bad = tool.bad /\ tool'.round = tool.round
      /\ tool'.pc = "op" /\ tool'.n = tool.n + 1 /\ tool'.got = 0 /\ tool'.can = b
    <2>1. tool' \in ToolType
        <3>1. tool' = [pc |-> "op", n |-> tool.n + 1, bad |-> tool.bad, can |-> b,
                       temp |-> temp, got |-> 0, round |-> tool.round]
            BY <1>1, <1>3 DEF ToolType
        <3>2. /\ tool.n + 1 \in Nat /\ tool.bad \in Int /\ 0 \in 0 .. 3
              /\ tool.round \in 1 .. 2 * N /\ b \in BOOLEAN
            BY <1>1 DEF ToolType
        <3>3. "op" \in {"parse", "spawn", "op", "wait", "error", "exit0", "exit1", "killed"}
            OBVIOUS
        <3>4. PICK p, m, o, g, q :
                 p = "op" /\ m = tool.n + 1 /\ o = tool.bad /\ g = 0 /\ q = tool.round
            OBVIOUS
        <3>5. [pc |-> p, n |-> m, bad |-> o, can |-> b, temp |-> temp, got |-> g,
               round |-> q] \in ToolType
            BY <3>2, <3>3, <3>4, ToolIs
        <3> QED BY <3>1, <3>4, <3>5
    <2>2. /\ tool'.bad = tool.bad /\ tool'.round = tool.round
          /\ tool'.n = tool.n + 1 /\ tool'.got = 0
        BY <1>1, <1>3 DEF ToolType
    <2>3. tool'.pc = "op"
        BY <1>1, <1>3 DEF ToolType
    <2>4. tool'.can = b
        BY <1>1, <1>3, Zenon DEF ToolType
    <2> QED BY <2>1, <2>2, <2>3, <2>4
<1>5. b => tool.can \/ tool.bad # -1
    <2>1. Entry.cnt \in Nat
        BY <1>1, EntryFacts DEF Base
    <2>2. b => tool.can \/ Entry.cnt = tool.bad
        BY <1>2, Zenon DEF CanFail, Corrupted
    <2>3. Entry.cnt # -1
        BY <2>1
    <2> QED BY <2>2, <2>3
<1> QED BY <1>1, <1>4, <1>5 DEF ToolStep

LEMMA FailsStep ==
    ASSUME Base, tool.pc = "op", NEW pc \in {"error", "exit1", "killed", "wait"},
           pc = "error" => tool.can, pc = "wait" => ~tool.can /\ tool.n > Len(log),
           NEW temp \in [1 .. 4 -> Cell], NEW g \in {0, tool.got},
           tool' = [tool EXCEPT !.pc = pc, !.temp = temp, !.got = g],
           UNCHANGED <<trace, log, tried, child>>,
           toChild' \in Seq(Symbol), toTool' \in Seq(Cell)
    PROVE  ToolStep
<1>1. tool \in ToolType
    BY DEF Base, TypeInv
<1>2. /\ tool' \in ToolType /\ tool'.bad = tool.bad /\ tool'.round = tool.round
      /\ tool'.pc = pc /\ tool'.n = tool.n /\ tool'.got = g /\ tool'.can = tool.can
    <2>1. tool' \in ToolType
        <3>1. tool' = [pc |-> pc, n |-> tool.n, bad |-> tool.bad, can |-> tool.can,
                       temp |-> temp, got |-> g, round |-> tool.round]
            BY <1>1 DEF ToolType
        <3>2. /\ tool.n \in Nat /\ tool.bad \in Int /\ g \in 0 .. 3
              /\ tool.round \in 1 .. 2 * N /\ tool.can \in BOOLEAN
            BY <1>1 DEF ToolType
        <3> QED BY <3>1, <3>2 DEF ToolType
    <2>2. /\ tool'.bad = tool.bad /\ tool'.round = tool.round
          /\ tool'.n = tool.n /\ tool'.got = g
        BY <1>1 DEF ToolType
    <2>3. tool'.pc = pc
        BY <1>1 DEF ToolType
    <2>4. tool'.can = tool.can
        BY <1>1, Zenon DEF ToolType
    <2> QED BY <2>1, <2>2, <2>3, <2>4
<1> QED BY <1>1, <1>2 DEF ToolStep, ToolType

LEMMA CompareStep ==
    ASSUME Base, Reading, NEW temp \in [1 .. 4 -> Cell], Compare(temp),
           UNCHANGED <<trace, log, tried, child>>,
           toChild' \in Seq(Symbol), toTool' \in Seq(Cell)
    PROVE  ToolStep
<1>1. InLog /\ tool.pc = "op"
    BY DEF Reading, InLog
<1>2. CASE temp = Bytes(Entry.val)
    BY <1>1, <1>2, NextOpStep DEF Compare
<1>3. CASE temp # Bytes(Entry.val)
    <2> DEFINE pc == IF tool.can THEN "error" ELSE "exit1"
    <2>1. tool' = [tool EXCEPT !.pc = pc, !.temp = temp, !.got = 0]
        BY <1>3, <1>1 DEF Compare, Base, TypeInv, ToolType
    <2>2. pc \in {"error", "exit1"} /\ (pc = "error" => tool.can)
        OBVIOUS
    <2> HIDE DEF pc
    <2> QED BY <1>1, <2>1, <2>2, FailsStep
<1> QED BY <1>2, <1>3

LEMMA WriteStep == ASSUME Base, write_exact PROVE ToolStep
<1>1. /\ InLog /\ tool.pc = "op" /\ tool.n \in 1 .. Len(log) /\ tool \in ToolType
      /\ toChild \in Seq(Symbol) /\ toTool \in Seq(Cell) /\ TypeInv
      /\ tool.temp \in [1 .. 4 -> Cell]
    BY DEF write_exact, InLog, Base, TypeInv, ToolType, ToolInv
<1>2. Value \in Symbol
    BY <1>1, EntryFacts
<1>3. /\ UNCHANGED <<trace, log, tried, child>> /\ toTool' \in Seq(Cell)
      /\ toChild' \in Seq(Symbol)
    <2>1. UNCHANGED <<trace, log, tried, child, toTool>>
        BY DEF write_exact
    <2>2. toChild' = toChild \/ toChild' = Append(toChild, Value)
        BY DEF write_exact
    <2>3. Append(toChild, Value) \in Seq(Symbol)
        BY <1>1, <1>2, AppendProperties
    <2> QED BY <1>1, <2>1, <2>2, <2>3
<1>4. CASE tool' = NextOp
    <2>1. tool' = [NextOp EXCEPT !.temp = tool.temp]
        BY <1>1, <1>4 DEF NextOp, ToolType
    <2> QED BY <1>1, <1>3, <2>1, NextOpStep
<1>5. ASSUME NEW pc \in {"exit1", "killed"}, tool' = [tool EXCEPT !.pc = pc] PROVE ToolStep
    <2>1. tool' = [tool EXCEPT !.pc = pc, !.temp = tool.temp, !.got = tool.got]
        BY <1>1, <1>5 DEF ToolType
    <2> QED BY <1>1, <1>3, <2>1, FailsStep
<1> QED BY <1>4, <1>5 DEF write_exact, Fails

LEMMA ReadStep == ASSUME Base, read_exact PROVE ToolStep
<1>1. /\ Reading /\ InLog /\ tool.pc = "op" /\ tool \in ToolType
      /\ toChild \in Seq(Symbol) /\ toTool \in Seq(Cell) /\ toTool # <<>>
      /\ tool.temp \in [1 .. 4 -> Cell] /\ tool.got \in 0 .. 3 /\ Len(toTool) \in Nat
    BY DEF read_exact, Reading, InLog, Base, TypeInv, ToolType
<1> DEFINE k == IF Len(toTool) < 4 - tool.got THEN Len(toTool) ELSE 4 - tool.got
           temp == [j \in 1 .. 4 |-> IF j \in tool.got + 1 .. tool.got + k
                                     THEN toTool[j - tool.got] ELSE tool.temp[j]]
<1>2. k \in 1 .. 4 /\ k <= Len(toTool) /\ tool.got + k <= 4
    <2>1. PICK l \in Nat : l = Len(toTool) /\ l >= 1
        <3>1. Len(toTool) # 0
            BY <1>1, EmptySeq
        <3> QED BY <1>1, <3>1
    <2>2. PICK g \in 0 .. 3 : g = tool.got
        BY <1>1
    <2>3. k = IF l < 4 - g THEN l ELSE 4 - g
        BY <2>1, <2>2
    <2> QED BY <2>1, <2>2, <2>3
<1>3. temp \in [1 .. 4 -> Cell]
    BY <1>1, <1>2
<1>4. /\ UNCHANGED <<trace, log, tried, child, toChild>>
      /\ toTool' = SubSeq(toTool, k + 1, Len(toTool))
      /\ \/ tool.got + k = 4 /\ Compare(temp)
         \/ tool.got + k < 4 /\ tool' = [tool EXCEPT !.temp = temp, !.got = tool.got + k]
    BY DEF read_exact
<1> HIDE DEF k, temp
<1>5. toTool' \in Seq(Cell)
    BY <1>1, <1>2, <1>4
<1>6. CASE Compare(temp)
    BY <1>1, <1>3, <1>4, <1>5, <1>6, CompareStep
<1>7. CASE tool.got + k < 4 /\ tool' = [tool EXCEPT !.temp = temp, !.got = tool.got + k]
    <2>1. tool.got + k \in 0 .. 3
        BY <1>1, <1>2, <1>7
    <2>2. /\ tool' \in ToolType /\ tool'.bad = tool.bad /\ tool'.round = tool.round
          /\ tool'.pc = "op" /\ tool'.n = tool.n /\ tool'.can = tool.can
        BY <1>1, <1>3, <1>7, <2>1 DEF ToolType
    <2> QED BY <1>1, <1>4, <1>5, <2>2 DEF ToolStep
<1> QED BY <1>4, <1>6, <1>7

LEMMA EndOfReadStep == ASSUME Base, ReadEOF \/ ReadTimeout PROVE ToolStep
<1>1. /\ Reading /\ tool.pc = "op" /\ tool \in ToolType
      /\ tool.temp \in [1 .. 4 -> Cell]
      /\ toChild' \in Seq(Symbol) /\ toTool' \in Seq(Cell)
      /\ UNCHANGED <<trace, log, tried, child>>
    BY DEF ReadEOF, ReadTimeout, Reading, InLog, Base, TypeInv, ToolType
<1>2. CASE Compare(tool.temp)
    BY <1>1, <1>2, CompareStep
<1>3. CASE Fails
    <2>1. tool' = [tool EXCEPT !.pc = "exit1", !.temp = tool.temp, !.got = tool.got]
        BY <1>1, <1>3 DEF ToolType, Fails
    <2> QED BY <1>1, <2>1, FailsStep
<1> QED BY <1>2, <1>3 DEF ReadEOF, ReadTimeout

LEMMA IsEofStep == ASSUME Base, is_eof PROVE ToolStep
<1>1. /\ tool.pc = "op" /\ tool \in ToolType /\ tool.n > Len(log)
      /\ tool.temp \in [1 .. 4 -> Cell]
      /\ toChild' \in Seq(Symbol) /\ toTool' \in Seq(Cell)
      /\ UNCHANGED <<trace, log, tried, child>>
    BY DEF is_eof, Finished, Base, TypeInv, ToolType
<1>2. ASSUME NEW pc \in {"exit1", "error", "wait"}, tool' = [tool EXCEPT !.pc = pc],
             pc = "error" => tool.can, pc = "wait" => ~tool.can
      PROVE  ToolStep
    <2>1. tool' = [tool EXCEPT !.pc = pc, !.temp = tool.temp, !.got = tool.got]
        BY <1>1, <1>2 DEF ToolType
    <2> QED BY <1>1, <1>2, <2>1, FailsStep
<1> QED BY <1>2 DEF is_eof, Fails

-----------------------------------------------------------------------------
(* What the steps of the child have in common. *)
ChildStep ==
    /\ child' \in ChildType /\ toChild' \in Seq(Symbol) /\ toTool' \in Seq(Cell)
    /\ ChildInv' /\ (child'.status = 1 => child.status = 1 \/ BlameInv')
    /\ (child.status = 1 => child' = child)
    /\ UNCHANGED <<trace, log, tool, tried>>

LEMMA ChildStepBase == ASSUME Base, ChildStep PROVE Base'
<1> USE DEF Base, ChildStep
<1>1. TypeInv' /\ LogInv' /\ ToolInv'
    BY DEF TypeInv, LogInv, ToolInv
<1>2. CoverInv'
    <2>1. ProtocolReads' = ProtocolReads
        BY DEF ProtocolReads
    <2> QED BY <2>1 DEF CoverInv
<1>3. BlameInv'
    <2>1. HungUp' = HungUp
        BY DEF HungUp
    <2>2. CASE child'.status = 1 /\ child.status = 1
        BY <2>1, <2>2 DEF BlameInv
    <2>3. CASE child'.status # 1
        BY <2>3 DEF BlameInv
    <2> QED BY <2>2, <2>3
<1> QED BY <1>1, <1>2, <1>3

(* The child dies, for one reason or another. *)
LEMMA DiesStep ==
    ASSUME Base, Running, NEW pc \in {"exited", "signalled"}, NEW status \in {0, 1},
           NEW rest, Dies(pc, status, rest),
           status = 1 => pc = "exited" /\ (HungUp \/ (child.kind # "ignores" /\ child.i <= L)),
           toTool' = toTool, UNCHANGED <<trace, log, tool, tried>>
    PROVE  ChildStep
<1>1. child \in ChildType /\ child.status # 1 /\ toTool \in Seq(Cell) /\ ChildInv
    BY DEF Base, TypeInv, BlameInv, Running
<1>2. PICK b \in BOOLEAN : b = (child.resets /\ rest # <<>>)
    BY Zenon, ReplayAssumption DEF ReplayAssumption
<1>3. child' = [child EXCEPT !.pc = pc, !.status = status, !.reset = b]
    BY <1>2 DEF Dies
<1>4. child' \in ChildType
    BY <1>1, <1>3 DEF ChildType
<1>5. /\ child'.pc = pc /\ child'.status = status /\ child'.i = child.i
      /\ child'.kind = child.kind /\ child'.rec = child.rec /\ child'.sent = child.sent
    BY <1>1, <1>3 DEF ChildType
<1>6. ChildInv'
    BY <1>1, <1>5 DEF ChildInv
<1>7. BlameInv'
    BY <1>5 DEF BlameInv, HungUp
<1>8. toChild' \in Seq(Symbol)
    BY DEF Dies
<1> QED BY <1>1, <1>4, <1>6, <1>7, <1>8 DEF ChildStep

LEMMA PutStep == ASSUME Base, put_uint PROVE ChildStep
<1>1. /\ child \in ChildType /\ child.status # 1 /\ toTool \in Seq(Cell) /\ ChildInv
      /\ toChild' = toChild /\ toChild \in Seq(Symbol)
      /\ UNCHANGED <<trace, log, tool, tried>>
    BY DEF Base, TypeInv, BlameInv, put_uint, At
<1>2. /\ child.pc = "boot" /\ child.i \in 1 .. L /\ Script[child.i].op = "WRITE32"
      /\ child.sent \in 0 .. 3 /\ child.wrote \in Seq(Symbol) /\ child.i \in Nat
    BY <1>1, ScriptFacts DEF ChildInv, ChildType, put_uint, At
<1>3. Script[child.i].val \in Symbol /\ child.i + 1 <= L
    <2>1. child.i # L
        BY <1>2, ScriptFacts
    <2>2. L \in Nat
        BY ScriptFacts
    <2> QED BY <1>2, <2>1, <2>2, ScriptFacts
<1>4. toTool' \in Seq(Cell)
    <2>1. PICK c : c = Bytes(Script[child.i].val)[child.sent + 1]
        OBVIOUS
    <2>2. Bytes(Script[child.i].val) \in [1 .. 4 -> Cell] /\ child.sent + 1 \in 1 .. 4
        BY <1>2, <1>3, Constants
    <2>3. c \in Cell
        BY <2>1, <2>2
    <2>4. toTool' = Append(toTool, c)
        BY <2>1 DEF put_uint
    <2> QED BY <1>1, <2>3, <2>4, AppendProperties
<1>5. CASE child.sent = 3
    <2>1. child' = [child EXCEPT !.sent = 0, !.i = child.i + 1,
                                 !.wrote = Append(child.wrote, Script[child.i].val)]
        BY <1>5 DEF put_uint
    <2>2. Append(child.wrote, Script[child.i].val) \in Seq(Symbol) /\ child.i + 1 \in 1 .. L + 1
        BY <1>2, <1>3, ScriptFacts
    <2>3. child' \in ChildType
        <3>1. PICK w \in Seq(Symbol) : w = Append(child.wrote, Script[child.i].val)
            BY <2>2
        <3>2. PICK i \in 1 .. L + 1 : i = child.i + 1
            BY <2>2
        <3>3. PICK z \in 0 .. 3 : z = 0
            OBVIOUS
        <3>4. child' = [child EXCEPT !.sent = z, !.i = i, !.wrote = w]
            BY <2>1, <3>1, <3>2, <3>3
        <3> QED BY <1>1, <3>4 DEF ChildType
    <2>4. /\ child'.pc = "boot" /\ child'.i = child.i + 1 /\ child'.rec = child.rec
          /\ child'.sent = 0 /\ child'.status = child.status
        BY <1>1, <1>2, <2>1 DEF ChildType
    <2>5. ChildInv'
        BY <1>1, <1>2, <1>3, <2>4 DEF ChildInv
    <2> QED BY <1>1, <1>4, <2>3, <2>4, <2>5 DEF ChildStep
<1>6. CASE child.sent # 3
    <2>1. child' = [child EXCEPT !.sent = child.sent + 1]
        BY <1>6 DEF put_uint
    <2>2. child' \in ChildType
        <3>1. PICK s \in 0 .. 3 : s = child.sent + 1
            BY <1>2, <1>6
        <3>2. child' = [child EXCEPT !.sent = s]
            BY <2>1, <3>1
        <3> QED BY <1>1, <3>2 DEF ChildType
    <2>4. /\ child'.pc = "boot" /\ child'.i = child.i /\ child'.rec = child.rec
          /\ child'.status = child.status
        BY <1>1, <1>2, <2>1 DEF ChildType
    <2>5. ChildInv'
        BY <1>1, <1>2, <1>3, <2>4 DEF ChildInv
    <2> QED BY <1>1, <1>4, <2>2, <2>4, <2>5 DEF ChildStep
<1> QED BY <1>5, <1>6

LEMMA ExpectStep == ASSUME Base, expect PROVE ChildStep
<1>1. /\ child \in ChildType /\ child.status # 1 /\ toTool \in Seq(Cell) /\ ChildInv
      /\ toTool' = toTool /\ toChild \in Seq(Symbol) /\ toChild # <<>>
      /\ UNCHANGED <<trace, log, tool, tried>>
    BY DEF Base, TypeInv, BlameInv, expect, At
<1>2. /\ child.pc = "boot" /\ child.i \in 1 .. L /\ Script[child.i].op = "READ32"
      /\ child.i \in Nat /\ Running
    BY <1>1, ScriptFacts DEF ChildInv, ChildType, expect, At, Running
<1>3. CASE /\ child' = [child EXCEPT !.i = child.i + 1, !.pc = Advance]
           /\ toChild' = Tail(toChild)
    <2>1. child.i + 1 \in 1 .. L + 1 /\ toChild' \in Seq(Symbol)
        BY <1>1, <1>2, <1>3, ScriptFacts, HeadTailProperties
    <2>2. Advance \in {"boot", "echo"} /\ (Advance = "echo" <=> child.i = L)
        BY DEF Advance, L
    <2>3. PICK a \in {"boot", "echo"} : a = Advance
        BY <2>2
    <2>4. child' \in ChildType
        BY <1>1, <1>3, <2>1, <2>3 DEF ChildType
    <2>5. /\ child'.pc = a /\ child'.i = child.i + 1 /\ child'.rec = child.rec
          /\ child'.sent = child.sent /\ child'.status = child.status
        BY <1>1, <1>3, <2>3 DEF ChildType
    <2>6. ChildInv'
        <3>1. child.sent = 0
            BY <1>1, <1>2 DEF ChildInv, ChildType
        <3> QED BY <1>1, <1>2, <2>2, <2>3, <2>5, <3>1, ScriptFacts DEF ChildInv
    <2> QED BY <1>1, <2>1, <2>4, <2>5, <2>6 DEF ChildStep
<1>4. CASE child.kind \in {"checks", "quits"} /\ Dies("exited", 1, Tail(toChild))
    BY <1>1, <1>2, <1>4, DiesStep
<1>5. CASE Dies("signalled", 0, Tail(toChild))
    BY <1>1, <1>2, <1>5, DiesStep
<1> QED BY <1>3, <1>4, <1>5 DEF expect

LEMMA QuitsStep == ASSUME Base, quit \/ LosesTool PROVE ChildStep
<1>1. Running /\ toTool' = toTool /\ UNCHANGED <<trace, log, tool, tried>>
    BY DEF quit, LosesTool, Running
<1>2. CASE Dies("exited", 0, toChild)
    BY <1>1, <1>2, DiesStep
<1>3. CASE HungUp /\ Dies("exited", 1, <<>>)
    BY <1>1, <1>3, DiesStep
<1> QED BY <1>2, <1>3 DEF quit, LosesTool

(* What is printed of a piece: the characters before its first NUL. *)
PrintedOf(t, piece) ==
    /\ t \in Seq(Symbol) /\ Len(t) <= Len(piece)
    /\ \A k \in 1 .. Len(t) : t[k] = piece[k] /\ t[k] # NUL
    /\ Len(t) < Len(piece) => piece[Len(t) + 1] = NUL
LEMMA PrintedFacts ==
    ASSUME NEW piece \in Seq(Symbol)
    PROVE  PrintedOf(Printed(piece), piece)
<1> DEFINE I == {i \in 1 .. Len(piece) : piece[i] = NUL}
           m == Min(I)
<1>1. CASE I = {}
    <2>1. Printed(piece) = piece
        BY <1>1 DEF Printed, SelectInSeq
    <2> QED BY <1>1, <2>1 DEF PrintedOf
<1>2. CASE I # {}
    <2>1. m \in I /\ \A y \in I : m <= y
        <3>1. I \in SUBSET Nat
            OBVIOUS
        <3>2. Least(I) \in I /\ \A y \in I : Least(I) <= y
            BY <1>2, <3>1, LeastIsIn
        <3> QED BY <3>2 DEF Min
    <2>2. Printed(piece) = SubSeq(piece, 1, m - 1)
        <3>1. SelectInSeq(piece, LAMBDA c : c = NUL) = m
            BY <1>2 DEF SelectInSeq
        <3>2. m # 0
            BY <2>1
        <3> HIDE DEF m
        <3> QED BY <3>1, <3>2 DEF Printed
    <2>3. m \in 1 .. Len(piece) /\ piece[m] = NUL /\ \A k \in 1 .. m - 1 : piece[k] # NUL
        <3>1. m \in 1 .. Len(piece) /\ piece[m] = NUL
            BY <2>1
        <3>2. ASSUME NEW k \in 1 .. m - 1, piece[k] = NUL PROVE FALSE
            <4> HIDE DEF m
            <4>1. k \in 1 .. Len(piece) /\ k < m /\ k \in Int /\ m \in Int
                BY <3>1
            <4>2. k \in I
                BY <3>2, <4>1
            <4> HIDE DEF I
            <4>3. m <= k
                BY <2>1, <4>2
            <4> QED BY <4>1, <4>3
        <3> QED BY <3>1, <3>2
    <2> HIDE DEF m
    <2>4. /\ SubSeq(piece, 1, m - 1) \in Seq(Symbol) /\ Len(SubSeq(piece, 1, m - 1)) = m - 1
          /\ \A k \in 1 .. m - 1 : SubSeq(piece, 1, m - 1)[k] = piece[k]
        BY <2>3
    <2> QED BY <2>2, <2>3, <2>4 DEF PrintedOf
<1> QED BY <1>1, <1>2

LEMMA DoneType ==
    ASSUME NEW r \in Alert, NEW p \in Seq(Symbol)
    PROVE  done(r, p) \in Alert /\ ~done(r, p).stop
<1>1. PICK h : Follows(h, r, p, Len(p)) /\ done(r, p) = [h[Len(p)] EXCEPT !.stop = FALSE]
    BY DoneIsRun
<1>2. h[Len(p)] \in Alert
    BY <1>1, RunType
<1> QED BY <1>1, <1>2 DEF Alert, Recogniser

LEMMA EchoStep == ASSUME Base, echo PROVE ChildStep
<1>1. /\ child \in ChildType /\ child.status # 1 /\ toTool \in Seq(Cell) /\ ChildInv
      /\ toTool' = toTool /\ toChild \in Seq(Symbol) /\ toChild' = <<>> /\ child.pc = "echo"
      /\ UNCHANGED <<trace, log, tool, tried>> /\ child.rec \in Alert
      /\ child.echoed \in Seq(Symbol)
    BY DEF Base, TypeInv, BlameInv, ChildType, echo
<1>2. PICK r : r = done(child.rec, toChild) /\ r \in Alert /\ ~r.stop
    BY <1>1, DoneType
<1>3. PICK p : p = Printed(toChild) /\ p \in Seq(Symbol)
    BY <1>1, PrintedFacts DEF PrintedOf
<1>4. PICK a \in {"exited", "echo"} : a = IF r.seen THEN "exited" ELSE "echo"
    OBVIOUS
<1>5. child' = [child EXCEPT !.rec = r, !.echoed = child.echoed \o p, !.pc = a]
    BY <1>2, <1>3, <1>4 DEF echo
<1>6. child.echoed \o p \in Seq(Symbol)
    BY <1>1, <1>3
<1>7. child' \in ChildType
    BY <1>1, <1>2, <1>5, <1>6 DEF ChildType
<1>8. /\ child'.pc = a /\ child'.i = child.i /\ child'.rec = r
      /\ child'.sent = child.sent /\ child'.status = child.status
    BY <1>1, <1>5 DEF ChildType
<1>9. ChildInv'
    BY <1>1, <1>2, <1>8 DEF ChildInv
<1> QED BY <1>1, <1>7, <1>8, <1>9 DEF ChildStep

-----------------------------------------------------------------------------
(* The other three: reading the log, starting a run, and ending one. *)
LEMMA ReadInputBase == ASSUME Base, read_input PROVE Base'
<1> USE DEF Base
<1>1. /\ tool.pc = "parse" /\ tool = Idle /\ log \in Seq(Line) /\ tool \in ToolType
      /\ UNCHANGED <<trace, child, toChild, toTool, tried>>
      /\ Len(log) <= Len(trace) /\ trace \in Seq(Line) /\ tried = {} /\ TypeInv
      /\ tool.bad = -1 /\ tool.can = FALSE /\ tool.n = 0 /\ tool.got = 0 /\ tool.round = 1
      /\ 1 <= N /\ N \in Nat
    BY Constants, ReplayAssumption
       DEF read_input, TypeInv, ToolInv, LogInv, CoverInv, Idle, ReplayAssumption
<1>2. ASSUME NEW pc \in {"parse", "spawn", "exit1"}, tool' = [tool EXCEPT !.pc = pc],
             log' \in Seq(Line), LogInv', pc = "parse" => tool' = tool
      PROVE  Base'
    <2>1. /\ tool' \in ToolType /\ tool'.pc = pc /\ tool'.n = 0 /\ tool'.bad = -1
          /\ tool'.got = 0 /\ tool'.round = 1
        BY <1>1, <1>2 DEF ToolType
    <2>2. tool'.can = FALSE
        BY <1>1, <1>2, Zenon DEF ToolType
    <2>3. TypeInv'
        BY <1>1, <1>2, <2>1 DEF TypeInv
    <2>4. ToolInv'
        <3>1. Len(log') \in Nat
            BY <1>2
        <3>2. pc = "parse" => tool' = Idle
            BY <1>1, <1>2
        <3> QED BY <2>1, <2>2, <3>1, <3>2 DEF ToolInv
    <2>5. CoverInv'
        BY <1>1, <2>1 DEF CoverInv
    <2>6. ChildInv'
        BY <1>1, <2>1 DEF ChildInv
    <2>7. BlameInv'
        BY <1>1, <2>1 DEF BlameInv, HungUp
    <2> QED BY <1>2, <2>3, <2>4, <2>5, <2>6, <2>7
<1>3. CASE Len(log) = Len(trace) /\ tool' = [tool EXCEPT !.pc = "spawn"] /\ log' = log
    <2>1. LogInv'
        BY <1>1, <1>3 DEF LogInv
    <2> QED BY <1>1, <1>2, <1>3, <2>1
<1>4. ASSUME Len(log) < Len(trace), NEW e, e = trace[Len(log) + 1], e.cnt = Len(log),
             Q_append(e), tool' = tool
      PROVE  Base'
    <2>1. e \in Line
        BY <1>1, <1>4
    <2>2. log' = Append(log, e)
        BY <1>4 DEF Q_append
    <2>3. /\ log' \in Seq(Line) /\ Len(log') = Len(log) + 1 /\ log'[Len(log) + 1] = e
          /\ \A k \in 1 .. Len(log) : log'[k] = log[k]
        BY <1>1, <2>1, <2>2, AppendProperties
    <2>4. LogInv'
        <3>1. PICK l \in Nat : l = Len(log)
            BY <1>1
        <3>2. ASSUME NEW k \in 1 .. l + 1 PROVE log'[k] = trace[k] /\ log'[k].cnt = k - 1
            <4>1. CASE k = l + 1
                BY <1>4, <2>3, <3>1, <4>1
            <4>2. CASE k \in 1 .. l
                BY <2>3, <3>1, <4>2 DEF LogInv
            <4> QED BY <4>1, <4>2
        <3>3. tool'.pc = "parse" /\ trace' = trace /\ Len(trace) \in Nat
            BY <1>1, <1>4
        <3> QED BY <1>4, <2>3, <3>1, <3>2, <3>3 DEF LogInv
    <2>5. tool' = [tool EXCEPT !.pc = "parse"]
        BY <1>1, <1>4 DEF ToolType
    <2> QED BY <1>2, <1>4, <2>3, <2>4, <2>5
<1>5. CASE Fails /\ log' = log
    <2>1. tool' = [tool EXCEPT !.pc = "exit1"] /\ tool'.pc = "exit1"
        BY <1>1, <1>5 DEF Fails, ToolType
    <2>2. LogInv'
        BY <1>1, <1>5, <2>1 DEF LogInv
    <2> QED BY <1>1, <1>2, <1>5, <2>1, <2>2
<1> QED BY <1>3, <1>4, <1>5 DEF read_input

LEMMA SpawnBase == ASSUME Base, mk_endpoint_proc PROVE Base'
<1> USE DEF Base
<1>1. /\ tool.pc = "spawn" /\ tool \in ToolType /\ child \in ChildType /\ TypeInv /\ LogInv
      /\ log \in Seq(Line)
      /\ child' = [NoChild(child.kind, child.resets) EXCEPT !.pc = "boot"]
      /\ toChild' = <<>> /\ toTool' = <<>> /\ UNCHANGED <<trace, log, tried>>
    BY DEF mk_endpoint_proc, TypeInv
<1>2. PICK temp \in [1 .. 4 -> Cell] :
         tool' = [tool EXCEPT !.pc = "op", !.n = 1, !.can = FALSE, !.got = 0, !.temp = temp]
    <2>1. tool.temp \in [1 .. 4 -> Cell] /\ Bytes("SOH") \in [1 .. 4 -> Cell]
        BY <1>1, Constants DEF ToolType
    <2> QED BY <2>1 DEF mk_endpoint_proc
<1>3. tool' = [pc |-> "op", n |-> 1, bad |-> tool.bad, can |-> FALSE, temp |-> temp,
               got |-> 0, round |-> tool.round]
    BY <1>1, <1>2 DEF ToolType
<1>4. tool' \in ToolType
    <2>1. PICK p \in {"parse", "spawn", "op", "wait", "error", "exit0", "exit1", "killed"},
               m \in Nat, g \in 0 .. 3 : p = "op" /\ m = 1 /\ g = 0
        OBVIOUS
    <2>2. PICK b \in BOOLEAN : b = FALSE
        OBVIOUS
    <2>3. tool' = [pc |-> p, n |-> m, bad |-> tool.bad, can |-> b, temp |-> temp,
                   got |-> g, round |-> tool.round]
        BY <1>3, <2>1, <2>2, Zenon
    <2>4. tool.bad \in Int /\ tool.round \in 1 .. 2 * N
        BY <1>1 DEF ToolType
    <2> QED BY <2>3, <2>4, ToolIs
<1>5. /\ tool'.pc = "op" /\ tool'.n = 1 /\ tool'.bad = tool.bad /\ tool'.got = 0
      /\ tool'.round = tool.round
    BY <1>3
<1>6. ~tool'.can
    BY <1>3, Zenon
<1>7. child' = [kind |-> child.kind, resets |-> child.resets, pc |-> "boot", i |-> 1,
                sent |-> 0, wrote |-> <<>>, rec |-> Fresh, echoed |-> <<>>, status |-> 0,
                reset |-> FALSE]
    BY <1>1 DEF NoChild
<1>8. child' \in ChildType
    <2>1. Fresh \in Alert /\ L \in Nat /\ child.kind \in Children /\ child.resets \in Resets
        BY <1>1, ScriptFacts, StepType DEF ChildType
    <2> QED BY <1>7, <2>1 DEF ChildType
<1>9. TypeInv'
    BY <1>1, <1>4, <1>8 DEF TypeInv
<1>10. LogInv'
    BY <1>1, <1>5 DEF LogInv
<1>11. ToolInv'
    BY <1>1, <1>5, <1>6 DEF ToolInv
<1>12. CoverInv'
    <2>1. ProtocolReads' = ProtocolReads
        BY <1>1 DEF ProtocolReads
    <2> QED BY <1>1, <1>5, <2>1 DEF CoverInv
<1>13. ChildInv' /\ BlameInv'
    BY <1>7, ScriptFacts DEF ChildInv, BlameInv, Fresh
<1> QED BY <1>9, <1>10, <1>11, <1>12, <1>13

LEMMA ProtocolReadsType == ASSUME TypeInv PROVE ProtocolReads \in SUBSET Nat
<1>1. \A k \in DOMAIN log : log[k] \in Line
    BY DEF TypeInv
<1>2. \A k \in DOMAIN log : log[k].cnt \in Nat
    BY <1>1 DEF Line
<1> QED BY <1>2 DEF ProtocolReads

(* The word of the next run comes after every word that was tried. *)
LEMMA ExitCodeBase == ASSUME Base, proc_exit_code PROVE Base'
<1> USE DEF Base
<1>1. /\ tool.pc \in {"wait", "error"} /\ tool \in ToolType /\ child \in ChildType /\ TypeInv
      /\ LogInv /\ log \in Seq(Line) /\ UNCHANGED <<trace, log, child, toChild, toTool>>
      /\ CoverInv /\ N \in Nat /\ N >= 1 /\ tool.round \in 1 .. 2 * N /\ tool.bad \in Int
    BY Constants DEF proc_exit_code, TypeInv, ToolType
<1>2. /\ ProtocolReads' = ProtocolReads /\ ProtocolReads \in SUBSET Nat
      /\ tried \subseteq ProtocolReads
    BY <1>1, ProtocolReadsType DEF ProtocolReads, CoverInv
<1> DEFINE Same == /\ tool'.n = tool.n /\ tool'.got = tool.got /\ tool'.can = tool.can
                   /\ tool' \in ToolType
<1>3. ASSUME Same, CoverInv', tool'.pc \in {"spawn", "exit0", "exit1"}, 
             tool'.can => tool'.pc = "spawn" \/ tool'.bad # -1
      PROVE  Base'
    <2>1. TypeInv' /\ LogInv'
        BY <1>1, <1>3 DEF TypeInv, LogInv
    <2>2. ToolInv'
        BY <1>1, <1>3 DEF ToolInv
    <2>3. ChildInv' /\ BlameInv'
        BY <1>1, <1>3 DEF ChildInv, BlameInv, HungUp
    <2> QED BY <1>3, <2>1, <2>2, <2>3
<1>4. tool.can => tool.bad # -1
    BY <1>1 DEF ToolInv
<1>5. CASE Fails /\ tried' = tried
    <2>1. Same /\ tool'.pc = "exit1" /\ tool'.bad = tool.bad /\ tool'.round = tool.round
        BY <1>1, <1>5 DEF Fails, ToolType
    <2>2. CoverInv'
        BY <1>1, <1>2, <1>5, <2>1 DEF CoverInv
    <2> QED BY <1>3, <1>4, <2>1, <2>2
<1> DEFINE Below(m) == {c \in ProtocolReads : c < m}
<1>6. CASE tool' = NextRun /\ tried' = Tried
    <2>1. Tried \subseteq ProtocolReads
        <3>1. CASE tool.bad = -1
            BY <3>1 DEF Tried
        <3>2. CASE tool.bad # -1
            <4>1. tool.bad \in ProtocolReads
                BY <1>1, <3>2 DEF CoverInv
            <4> QED BY <1>2, <3>2, <4>1 DEF Tried
        <3> QED BY <3>1, <3>2
    <2>2. \A c \in ProtocolReads : tool.round > N /\ c <= tool.bad => c \in Tried
        <3> SUFFICES ASSUME NEW c \in ProtocolReads, tool.round > N, c <= tool.bad
                     PROVE  c \in Tried
            OBVIOUS
        <3>1. c \in Nat /\ tool.bad \in Nat /\ tool.bad \in Int /\ Below(tool.bad) \subseteq tried
            BY <1>1, <1>2 DEF CoverInv
        <3>2. tool.bad # -1
            BY <3>1
        <3>3. CASE c = tool.bad
            BY <3>2, <3>3 DEF Tried
        <3>4. CASE c < tool.bad
            BY <3>1, <3>2, <3>4 DEF Tried
        <3> QED BY <3>1, <3>3, <3>4
    <2>3. tool.round <= N => Tried = {}
        BY <1>1 DEF Tried, CoverInv
    <2>4. CASE tool.round > N /\ Later # {}
        <3>1. Later \in SUBSET Nat
            BY <1>2 DEF Later
        <3>2. PICK m \in Later : m = Least(Later) /\ \A y \in Later : m <= y
            BY <2>4, <3>1, LeastIsIn
        <3>3. tool' = [tool EXCEPT !.pc = "spawn", !.bad = m]
            BY <1>6, <2>4, <3>2 DEF NextRun
        <3>4. m \in ProtocolReads /\ m \in Nat /\ m \in Int
            BY <1>2, <3>2 DEF Later
        <3>5. Same /\ tool'.pc = "spawn" /\ tool'.bad = m /\ tool'.round = tool.round
            BY <1>1, <3>3, <3>4 DEF ToolType
        <3>6. Below(m) \subseteq Tried
            <4> SUFFICES ASSUME NEW c \in ProtocolReads, c < m PROVE c \in Tried
                OBVIOUS
            <4>1. c \notin Later /\ c \in Nat
                BY <1>2, <3>2, <3>4
            <4>2. ~(c > tool.bad)
                BY <4>1 DEF Later
            <4> QED BY <1>1, <2>2, <2>4, <4>1, <4>2
        <3>7. CoverInv'
            BY <1>1, <1>2, <1>6, <2>1, <2>4, <3>4, <3>5, <3>6 DEF CoverInv
        <3> QED BY <1>3, <3>5, <3>7
    <2>5. CASE /\ ~(tool.round > N /\ Later # {})
               /\ tool.round = 2 * N \/ (tool.round = N /\ ProtocolReads = {})
        <3>1. tool' = [tool EXCEPT !.pc = "exit0"]
            BY <1>6, <2>5 DEF NextRun
        <3>2. Same /\ tool'.pc = "exit0" /\ tool'.bad = tool.bad /\ tool'.round = tool.round
            BY <1>1, <3>1 DEF ToolType
        <3>3. Tried = ProtocolReads
            <4>1. CASE tool.round = 2 * N
                <5>1. tool.round > N /\ Later = {}
                    BY <1>1, <2>5, <4>1
                <5>2. \A c \in ProtocolReads : c <= tool.bad
                    BY <1>1, <1>2, <5>1 DEF Later
                <5> QED BY <2>1, <2>2, <5>1, <5>2
            <4>2. CASE ProtocolReads = {}
                BY <2>1, <4>2
            <4> QED BY <2>5, <4>1, <4>2
        <3>4. CoverInv'
            BY <1>1, <1>2, <1>6, <2>1, <2>3, <3>2, <3>3 DEF CoverInv
        <3> QED BY <1>3, <1>4, <3>2, <3>4
    <2>6. CASE /\ ~(tool.round > N /\ Later # {})
               /\ ~(tool.round = 2 * N \/ (tool.round = N /\ ProtocolReads = {}))
        <3>1. PICK m : m = IF tool.round >= N THEN Least(ProtocolReads) ELSE -1
            OBVIOUS
        <3>2. tool' = [tool EXCEPT !.pc = "spawn", !.round = tool.round + 1, !.bad = m]
            BY <1>6, <2>6, <3>1 DEF NextRun
        <3>3. tool.round >= N => /\ m \in ProtocolReads /\ m \in Nat
                                 /\ \A c \in ProtocolReads : m <= c
            <4> SUFFICES ASSUME tool.round >= N
                         PROVE  m \in ProtocolReads /\ \A c \in ProtocolReads : m <= c
                BY <1>2
            <4>1. ProtocolReads # {}
                BY <1>1, <2>6 DEF CoverInv
            <4> QED BY <1>2, <3>1, <4>1, LeastIsIn
        <3>4. m \in Int /\ tool.round + 1 \in 1 .. 2 * N
            <4>1. tool.round < 2 * N
                BY <1>1, <2>6
            <4>2. m \in Int
                BY <1>1, <3>1, <3>3
            <4> QED BY <1>1, <4>1, <4>2
        <3>5. Same /\ tool'.pc = "spawn" /\ tool'.bad = m /\ tool'.round = tool.round + 1
            <4>1. PICK q \in 1 .. 2 * N : q = tool.round + 1
                BY <3>4
            <4>2. tool' = [tool EXCEPT !.pc = "spawn", !.round = q, !.bad = m]
                BY <3>2, <4>1
            <4> QED BY <1>1, <3>4, <4>1, <4>2 DEF ToolType
        <3>6. tool.round >= N => Below(m) = {}
            <4> SUFFICES ASSUME tool.round >= N, NEW c \in ProtocolReads, c < m PROVE FALSE
                OBVIOUS
            <4> QED BY <1>2, <3>3
        <3>7. tool.round < N => m = -1
            BY <1>1, <3>1
        <3>8. CoverInv'
            BY <1>1, <1>2, <1>6, <2>1, <2>3, <3>3, <3>5, <3>6, <3>7 DEF CoverInv
        <3> QED BY <1>3, <3>5, <3>8
    <2> QED BY <2>4, <2>5, <2>6
<1> QED BY <1>5, <1>6 DEF proc_exit_code

LEMMA BaseStep == Base /\ [Next]_vars => Base'
<1> SUFFICES ASSUME Base, [Next]_vars PROVE Base'
    OBVIOUS
<1>1. CASE read_input
    BY <1>1, ReadInputBase
<1>2. CASE mk_endpoint_proc
    BY <1>2, SpawnBase
<1>3. CASE write_exact \/ read_exact \/ ReadEOF \/ ReadTimeout \/ is_eof
    BY <1>3, WriteStep, ReadStep, EndOfReadStep, IsEofStep, ToolStepBase
<1>4. CASE proc_exit_code
    BY <1>4, ExitCodeBase
<1>5. CASE Child \/ quit
    BY <1>5, PutStep, ExpectStep, EchoStep, QuitsStep, ChildStepBase DEF Child
<1>6. CASE UNCHANGED vars
    BY <1>6 DEF vars, Base, TypeInv, LogInv, ToolInv, CoverInv, ChildInv, BlameInv, HungUp,
                ProtocolReads
<1> QED BY <1>1, <1>2, <1>3, <1>4, <1>5, <1>6 DEF Next, replay

LEMMA BaseAlways == FairSpec => []Base
<1>1. Init => Base
    BY BaseInit
<1>2. Base /\ [Next]_vars => Base'
    BY BaseStep
<1> QED BY <1>1, <1>2, PTL DEF FairSpec

(* The types of the replay tool: the cells of both processes, the bound on   *)
(* what a read has collected, and the words tried, for every program, every  *)
(* file given to the tool and every number of rounds.                        *)
THEOREM ReplayTypeOKAlways == FairSpec => []ReplayTypeOK
<1>1. Base => ReplayTypeOK
    <2> SUFFICES ASSUME Base PROVE ReplayTypeOK
        OBVIOUS
    <2>1. /\ tool \in ToolType /\ child \in ChildType /\ log \in Seq(Line)
          /\ tool.n <= Len(log) + 1 /\ tried \subseteq ProtocolReads
          /\ tool.got > 0 => tool.n \in 1 .. Len(log) /\ log[tool.n].op = "WRITE32"
        BY DEF Base, TypeInv, ToolInv, CoverInv
    <2>2. tool.n \in 0 .. Len(log) + 1 /\ tool.got \in 0 .. 3 /\ tool.round \in 1 .. 2 * N
        BY <2>1 DEF ToolType
    <2>3. tool.got > 0 => tool.n <= Len(log) /\ log[tool.n].op = "WRITE32"
        BY <2>1
    <2>4. /\ child.pc \in {"none", "boot", "echo", "exited", "signalled"}
          /\ child.i \in 1 .. Len(Script) + 1 /\ child.sent \in 0 .. 3 /\ child.rec \in Recogniser
        BY <2>1 DEF ChildType, Alert, L
    <2>5. tool.pc \in {"parse", "spawn", "op", "wait", "error", "exit0", "exit1", "killed"}
        BY <2>1 DEF ToolType
    <2> QED BY <2>1, <2>2, <2>3, <2>4, <2>5 DEF ReplayTypeOK
<1> QED BY <1>1, BaseAlways, PTL

(* A run in which a word was changed counts as a success only if the program *)
(* refused to go on with it.                                                 *)
THEOREM ToleranceCaughtAlways == FairSpec => ToleranceCaught
<1> DEFINE Caught == (tool.pc = "error" /\ tool'.pc \in {"spawn", "exit0"})
                     => /\ child.kind # "ignores"
                        /\ child.pc = "exited" => child.i <= Len(Script)
<1>1. Base /\ [Next]_vars => [Caught]_vars
    <2> SUFFICES ASSUME Base, Next, tool.pc = "error", tool'.pc \in {"spawn", "exit0"}
                 PROVE  child.kind # "ignores" /\ child.i <= L
        BY DEF L
    <2>1. tool' # tool
        OBVIOUS
    <2>2. proc_exit_code
        BY <2>1 DEF Next, replay, Child, read_input, mk_endpoint_proc, write_exact, InLog,
                    read_exact, Reading, ReadEOF, ReadTimeout, is_eof, Finished,
                    put_uint, expect, echo, LosesTool, quit
    <2>3. tool \in ToolType /\ ~(tool' = [tool EXCEPT !.pc = "exit1"])
        BY DEF Base, TypeInv, ToolType
    <2>4. OK
        BY <2>2, <2>3 DEF proc_exit_code, Fails
    <2>5. WEXITSTATUS # 0
        BY <2>4 DEF OK
    <2>6. child.pc # "signalled" /\ child.status # 0
        BY <2>5 DEF WEXITSTATUS
    <2>7. child.status = 1
        BY <2>6 DEF Base, TypeInv, ChildType
    <2> QED BY <2>7 DEF Base, BlameInv, HungUp
<1>2. FairSpec => [][Caught]_vars
    BY <1>1, BaseAlways, PTL DEF FairSpec
<1> QED BY <1>2 DEF ToleranceCaught

-----------------------------------------------------------------------------
(* The exit string.  What has been printed ends, while it has not been seen, *)
(* with the part of it that has been matched.                                *)
HasBy(t, m) == \E e \in 8 .. m : \A j \in 1 .. 8 : t[e - 8 + j] = EXIT_STRING[j]
EndsAt(t, m, pos) == pos <= m /\ \A j \in 1 .. pos : t[m - pos + j] = EXIT_STRING[j]
Judged(t, m, r) == IF r.seen THEN HasBy(t, m) ELSE EndsAt(t, m, r.pos)
EchoInv == Judged(child.echoed, Len(child.echoed), child.rec)

(* One more character. *)
LEMMA JudgedStep ==
    ASSUME NEW S, NEW t \in Seq(S), NEW m \in Nat, m + 1 <= Len(t), NEW r \in Alert, ~r.stop,
           t[m + 1] \in Symbol, t[m + 1] # NUL, Judged(t, m, r)
    PROVE  Judged(t, m + 1, Step[r][t[m + 1]])
<1>0. /\ Len(EXIT_STRING) = 8 /\ r \in Recogniser /\ r.pos \in 0 .. 8
      /\ r.seen \in BOOLEAN /\ r.stop \in BOOLEAN
    BY DEF Alert, Recogniser, EXIT_STRING
<1> DEFINE c == t[m + 1]
<1>1. Step[r][c] = IF r.stop \/ r.seen THEN r
                   ELSE IF c = NUL THEN [r EXCEPT !.stop = TRUE]
                   ELSE IF Matches(r, c) THEN Matched(r) ELSE [r EXCEPT !.pos = 0]
    BY <1>0, Zenon DEF Step
<1>2. CASE r.seen
    <2>1. Step[r][c] = r
        BY <1>1, <1>2
    <2>2. HasBy(t, m)
        BY <1>2 DEF Judged
    <2>3. PICK e \in 8 .. m : \A j \in 1 .. 8 : t[e - 8 + j] = EXIT_STRING[j]
        BY <2>2 DEF HasBy
    <2>4. e \in 8 .. m + 1
        OBVIOUS
    <2>5. HasBy(t, m + 1)
        BY <2>3, <2>4 DEF HasBy
    <2> QED BY <1>2, <2>1, <2>5 DEF Judged
<1>3. CASE ~r.seen /\ ~Matches(r, c)
    <2>1. Step[r][c] = [r EXCEPT !.pos = 0]
        BY <1>1, <1>3
    <2>2. ~Step[r][c].seen /\ Step[r][c].pos = 0
        BY <1>0, <1>3, <2>1 DEF Recogniser
    <2>3. EndsAt(t, m + 1, 0)
        BY DEF EndsAt
    <2> QED BY <2>2, <2>3 DEF Judged
<1>4. CASE ~r.seen /\ Matches(r, c)
    <2>1. Step[r][c] = [r EXCEPT !.pos = r.pos + 1, !.seen = (r.pos + 1 = 8)]
        BY <1>0, <1>1, <1>4 DEF Matched, Recogniser
    <2>2. PICK p \in 0 .. 7 : p = r.pos
        BY <1>0, <1>4 DEF Alert
    <2>3. /\ p <= m /\ \A j \in 1 .. p : t[m - p + j] = EXIT_STRING[j]
          /\ t[m + 1] = EXIT_STRING[p + 1]
        BY <1>4, <2>2 DEF Judged, EndsAt, Matches
    <2>4. EndsAt(t, m + 1, p + 1)
        <3>1. ASSUME NEW j \in 1 .. p + 1 PROVE t[(m + 1) - (p + 1) + j] = EXIT_STRING[j]
            <4>1. CASE j = p + 1
                <5>1. (m + 1) - (p + 1) + j = m + 1
                    BY <2>3, <4>1
                <5> QED BY <2>3, <4>1, <5>1
            <4>2. CASE j \in 1 .. p
                <5>1. (m + 1) - (p + 1) + j = m - p + j
                    BY <2>3, <4>2
                <5> QED BY <2>3, <4>2, <5>1
            <4> QED BY <4>1, <4>2
        <3> QED BY <2>3, <3>1 DEF EndsAt
    <2>5. Step[r][c].pos = p + 1 /\ (Step[r][c].seen = (p + 1 = 8))
        BY <1>0, <2>1, <2>2, Zenon DEF Recogniser
    <2>6. CASE p + 1 = 8
        <3>1. Step[r][c].seen
            BY <2>5, <2>6, Zenon
        <3>2. m + 1 \in 8 .. m + 1
            BY <2>3, <2>6
        <3>3. \A j \in 1 .. 8 : t[(m + 1) - 8 + j] = EXIT_STRING[j]
            BY <2>4, <2>6 DEF EndsAt
        <3>4. HasBy(t, m + 1)
            BY <3>2, <3>3 DEF HasBy
        <3> QED BY <3>1, <3>4 DEF Judged
    <2>7. CASE p + 1 # 8
        <3>1. ~Step[r][c].seen
            BY <2>5, <2>7, Zenon
        <3> QED BY <2>4, <2>5, <3>1 DEF Judged
    <2> QED BY <2>6, <2>7
<1> QED BY <1>2, <1>3, <1>4

(* Once the string is seen, or the piece has ended, nothing changes. *)
LEMMA Sticky ==
    ASSUME NEW r \in Alert, NEW p \in Seq(Symbol), NEW h, Follows(h, r, p, Len(p)),
           NEW K \in 0 .. Len(p), h[K].stop \/ h[K].seen
    PROVE  \A k \in K .. Len(p) : h[k] = h[K]
<1> DEFINE S == {n \in Nat : n >= K /\ n <= Len(p) => h[n] = h[K]}
<1>0. Len(p) \in Nat /\ K \in Nat /\ \A k \in 0 .. Len(p) : h[k] \in Alert
    BY RunType
<1>1. 0 \in S
    BY <1>0
<1>2. ASSUME NEW n \in Nat, n \in S PROVE n + 1 \in S
    <2> SUFFICES ASSUME n + 1 >= K, n + 1 <= Len(p) PROVE h[n + 1] = h[K]
        OBVIOUS
    <2>1. CASE n + 1 = K
        BY <2>1
    <2>2. CASE n >= K
        <3>1. h[n] = h[K] /\ n + 1 \in 1 .. Len(p) /\ (n + 1) - 1 = n /\ h[n] \in Alert
            BY <1>0, <1>2, <2>2
        <3>2. h[n + 1] = Step[h[n]][p[n + 1]] /\ p[n + 1] \in Symbol
            BY <3>1 DEF Follows
        <3> QED BY <3>1, <3>2, StepType
    <2> QED BY <1>0, <2>1, <2>2
<1>3. Nat \subseteq S
    <2> HIDE DEF S
    <2> QED BY <1>1, <1>2, Induction
<1> QED BY <1>0, <1>3

(* A whole piece, with or without a NUL in it. *)
LEMMA JudgedPiece ==
    ASSUME NEW e \in Seq(Symbol), NEW p \in Seq(Symbol), NEW r \in Alert, ~r.stop,
           Judged(e, Len(e), r)
    PROVE  Judged(e \o Printed(p), Len(e \o Printed(p)), done(r, p))
<1>1. PICK q \in Seq(Symbol) : q = Printed(p) /\ PrintedOf(q, p)
    BY PrintedFacts DEF PrintedOf
<1>2. PICK h : Follows(h, r, p, Len(p)) /\ done(r, p) = [h[Len(p)] EXCEPT !.stop = FALSE]
    BY DoneIsRun
<1>3. \A k \in 0 .. Len(p) : h[k] \in Alert
    BY <1>2, RunType
<1>4. PICK t \in Seq(Symbol) : /\ t = e \o q /\ Len(t) = Len(e) + Len(q)
                               /\ \A k \in 1 .. Len(e) : t[k] = e[k]
                               /\ \A k \in 1 .. Len(q) : t[Len(e) + k] = q[k]
    <2>1. /\ e \o q \in Seq(Symbol) /\ Len(e \o q) = Len(e) + Len(q)
          /\ \A i \in 1 .. Len(e) + Len(q) :
                 (e \o q)[i] = IF i <= Len(e) THEN e[i] ELSE q[i - Len(e)]
        BY ConcatProperties
    <2>2. PICK t \in Seq(Symbol) : t = e \o q
        BY <2>1
    <2>3. \A k \in 1 .. Len(e) : t[k] = e[k]
        BY <2>1, <2>2
    <2>4. ASSUME NEW k \in 1 .. Len(q) PROVE t[Len(e) + k] = q[k]
        <3>1. /\ Len(e) + k \in 1 .. Len(e) + Len(q) /\ ~(Len(e) + k <= Len(e))
              /\ (Len(e) + k) - Len(e) = k
            OBVIOUS
        <3> QED BY <2>1, <2>2, <3>1
    <2> QED BY <2>1, <2>2, <2>3, <2>4
<1>5. PICK l \in Nat, n \in Nat : l = Len(e) /\ n = Len(q) /\ n <= Len(p) /\ Len(p) \in Nat
    BY <1>1 DEF PrintedOf
<1> DEFINE S == {k \in Nat : k <= n => ~h[k].stop /\ Judged(t, l + k, h[k])}
<1>6. 0 \in S
    <2>1. h[0] = r
        BY <1>2 DEF Follows
    <2>2. Judged(t, l, r)
        <3>1. CASE r.seen
            <4>1. PICK x \in 8 .. l : \A j \in 1 .. 8 : e[x - 8 + j] = EXIT_STRING[j]
                BY <1>5, <3>1 DEF Judged, HasBy
            <4>2. \A j \in 1 .. 8 : x - 8 + j \in 1 .. l
                BY <1>5
            <4>3. \A j \in 1 .. 8 : t[x - 8 + j] = EXIT_STRING[j]
                BY <1>4, <1>5, <4>1, <4>2
            <4> QED BY <3>1, <4>3 DEF Judged, HasBy
        <3>2. CASE ~r.seen
            <4>1. /\ r.pos \in Nat /\ r.pos <= l
                  /\ \A j \in 1 .. r.pos : e[l - r.pos + j] = EXIT_STRING[j]
                BY <1>5, <3>2 DEF Judged, EndsAt, Alert, Recogniser
            <4>2. \A j \in 1 .. r.pos : l - r.pos + j \in 1 .. l
                BY <4>1
            <4>3. \A j \in 1 .. r.pos : t[l - r.pos + j] = EXIT_STRING[j]
                BY <1>4, <1>5, <4>1, <4>2
            <4> QED BY <3>2, <4>1, <4>3 DEF Judged, EndsAt
        <3> QED BY <3>1, <3>2
    <2>3. l + 0 = l
        OBVIOUS
    <2> QED BY <2>1, <2>2, <2>3
<1>7. ASSUME NEW k \in Nat, k \in S PROVE k + 1 \in S
    <2> SUFFICES ASSUME k + 1 <= n
                 PROVE  ~h[k + 1].stop /\ Judged(t, l + (k + 1), h[k + 1])
        OBVIOUS
    <2>1. /\ ~h[k].stop /\ Judged(t, l + k, h[k]) /\ h[k] \in Alert
          /\ k + 1 \in 1 .. Len(p) /\ k + 1 \in 1 .. n /\ (k + 1) - 1 = k
        BY <1>3, <1>5, <1>7
    <2>2. PICK c \in Symbol : c = p[k + 1] /\ c # NUL /\ c = t[l + k + 1]
        <3>1. p[k + 1] \in Symbol /\ q[k + 1] = p[k + 1] /\ q[k + 1] # NUL
            BY <1>1, <1>5, <2>1 DEF PrintedOf
        <3>2. t[l + (k + 1)] = q[k + 1] /\ l + (k + 1) = l + k + 1
            <4>1. t[l + (k + 1)] = q[k + 1]
                BY <1>4, <1>5, <2>1
            <4>2. l + (k + 1) = l + k + 1
                BY <1>5
            <4> QED BY <4>1, <4>2
        <3> QED BY <3>1, <3>2
    <2>3. h[k + 1] = Step[h[k]][c]
        BY <1>2, <2>1, <2>2 DEF Follows
    <2>4. ~h[k + 1].stop
        BY <2>1, <2>2, <2>3, StepType
    <2>5. PICK m \in Nat : m = l + k /\ m + 1 = l + k + 1 /\ m + 1 = l + (k + 1)
        OBVIOUS
    <2>6. m + 1 <= Len(t)
        BY <1>4, <1>5, <2>5
    <2>7. Judged(t, m + 1, Step[h[k]][t[m + 1]])
        <3>1. t[m + 1] \in Symbol /\ t[m + 1] # NUL
            BY <2>2, <2>5
        <3> QED BY <2>1, <2>5, <2>6, <3>1, JudgedStep
    <2> QED BY <2>2, <2>3, <2>4, <2>5, <2>7
<1>8. Nat \subseteq S
    <2> HIDE DEF S
    <2> QED BY <1>6, <1>7, Induction
<1>9. Judged(t, l + n, h[n])
    BY <1>8
<1>10. h[Len(p)].seen = h[n].seen /\ h[Len(p)].pos = h[n].pos
    <2>1. CASE n = Len(p)
        BY <2>1
    <2>2. CASE n < Len(p)
        <3>1. PICK c \in Symbol : c = p[n + 1] /\ c = NUL
            BY <1>1, <1>5, <2>2 DEF PrintedOf
        <3>2. h[n + 1] = Step[h[n]][c] /\ h[n] \in Alert /\ n + 1 \in 0 .. Len(p)
            <4>1. n + 1 \in 1 .. Len(p) /\ (n + 1) - 1 = n /\ n \in 0 .. Len(p)
                BY <1>5, <2>2
            <4>2. h[n + 1] = Step[h[n]][p[n + 1]]
                BY <1>2, <4>1 DEF Follows
            <4>3. h[n] \in Alert
                BY <1>3, <4>1
            <4>4. n + 1 \in 0 .. Len(p)
                BY <4>1
            <4>5. h[n + 1] = Step[h[n]][c]
                BY <3>1, <4>2, Zenon
            <4> QED BY <4>3, <4>4, <4>5
        <3>3. /\ h[n + 1].stop \/ h[n + 1].seen
              /\ h[n + 1].seen = h[n].seen /\ h[n + 1].pos = h[n].pos
            <4>1. h[n] \in Recogniser
                BY <3>2 DEF Alert
            <4>2. h[n + 1] = IF h[n].stop \/ h[n].seen THEN h[n] ELSE [h[n] EXCEPT !.stop = TRUE]
                BY <3>1, <3>2, <4>1, Zenon DEF Step
            <4> QED BY <4>1, <4>2 DEF Recogniser
        <3>4. h[Len(p)] = h[n + 1]
            <4>1. PICK K \in 0 .. Len(p), z \in 0 .. Len(p) :
                      K = n + 1 /\ z = Len(p) /\ z \in K .. Len(p)
                BY <1>5, <3>2
            <4>2. h[K].stop \/ h[K].seen
                BY <3>3, <4>1
            <4>3. \A k \in K .. Len(p) : h[k] = h[K]
                BY <1>2, <4>2, Sticky
            <4> QED BY <4>1, <4>3
        <3> QED BY <3>3, <3>4
    <2> QED BY <1>5, <2>1, <2>2
<1>11. done(r, p).seen = h[n].seen /\ done(r, p).pos = h[n].pos
    <2>1. h[Len(p)] \in Recogniser
        BY <1>3, <1>5 DEF Alert
    <2> QED BY <1>2, <1>10, <2>1 DEF Recogniser
<1> QED BY <1>1, <1>4, <1>5, <1>9, <1>11 DEF Judged

LEMMA EchoInvStep == Base /\ EchoInv /\ [Next]_vars => EchoInv'
<1> SUFFICES ASSUME Base, EchoInv, [Next]_vars PROVE EchoInv'
    OBVIOUS
<1>0. child \in ChildType /\ toChild \in Seq(Symbol) /\ ~child.rec.stop
    BY DEF Base, TypeInv, ChildInv
<1>1. CASE echo
    <2>1. PICK r, p, a : /\ r = done(child.rec, toChild) /\ p = Printed(toChild)
                         /\ child' = [child EXCEPT !.rec = r, !.echoed = child.echoed \o p,
                                                   !.pc = a]
        BY <1>1 DEF echo
    <2>2. child'.rec = r /\ child'.echoed = child.echoed \o p
        BY <1>0, <2>1 DEF ChildType
    <2>3. child.echoed \in Seq(Symbol) /\ child.rec \in Alert
        BY <1>0 DEF ChildType
    <2>4. Judged(child.echoed \o p, Len(child.echoed \o p), r)
        BY <1>0, <2>1, <2>3, JudgedPiece DEF EchoInv
    <2> QED BY <2>2, <2>4 DEF EchoInv
<1>2. CASE mk_endpoint_proc
    <2>1. child'.rec = Fresh /\ child'.echoed = <<>>
        BY <1>2 DEF mk_endpoint_proc, NoChild
    <2>2. ~Fresh.seen /\ Fresh.pos = 0
        BY DEF Fresh
    <2> QED BY <2>1, <2>2 DEF EchoInv, Judged, EndsAt
<1>3. CASE ~echo /\ ~mk_endpoint_proc
    <2>1. child'.rec = child.rec /\ child'.echoed = child.echoed
        <3>1. CASE put_uint
            BY <1>0, <3>1 DEF put_uint, ChildType
        <3>2. CASE expect
            BY <1>0, <3>2 DEF expect, Dies, ChildType
        <3>3. CASE quit \/ LosesTool
            BY <1>0, <3>3 DEF quit, LosesTool, Dies, ChildType
        <3>4. CASE child' = child
            BY <3>4
        <3> QED BY <1>3, <3>1, <3>2, <3>3, <3>4
                DEF Next, Child, replay, read_input, write_exact, read_exact, ReadEOF,
                    ReadTimeout, is_eof, proc_exit_code, vars
    <2> QED BY <2>1 DEF EchoInv
<1> QED BY <1>1, <1>2, <1>3

(* The program takes the session to be over only when the exit string stands *)
(* in one run in what it has printed, for every session and every way the    *)
(* output is cut into pieces.                                                *)
THEOREM DoneOnlyOnExitStringAlways == FairSpec => []DoneOnlyOnExitString
<1>1. Init => EchoInv
    BY DEF Init, NoChild, Fresh, EchoInv, Judged, EndsAt
<1>2. Base /\ EchoInv => DoneOnlyOnExitString
    <2> SUFFICES ASSUME Base, EchoInv, child.rec.seen PROVE DoneOnlyOnExitString
        BY DEF DoneOnlyOnExitString
    <2>1. PICK t \in Seq(Symbol) : t = child.echoed
        BY DEF Base, TypeInv, ChildType
    <2>2. PICK e \in 8 .. Len(t) : \A j \in 1 .. 8 : t[e - 8 + j] = EXIT_STRING[j]
        BY <2>1 DEF EchoInv, Judged, HasBy
    <2>3. PICK k \in 0 .. Len(t) - 8 : k = e - 8 /\ k + 8 <= Len(t) /\ Len(t) \in Nat
        <3>1. Len(t) \in Nat
            BY <2>1
        <3>2. e - 8 \in 0 .. Len(t) - 8 /\ (e - 8) + 8 <= Len(t)
            BY <2>2, <3>1
        <3> QED BY <3>1, <3>2
    <2>4. SubSeq(t, k + 1, k + 8) = EXIT_STRING
        <3>1. /\ SubSeq(t, k + 1, k + 8) = [j \in 1 .. 8 |-> t[k + j]]
            BY <2>3
        <3>2. EXIT_STRING = [j \in 1 .. 8 |-> EXIT_STRING[j]]
            BY DEF EXIT_STRING
        <3>3. \A j \in 1 .. 8 : t[k + j] = EXIT_STRING[j]
            BY <2>2, <2>3
        <3> QED BY <3>1, <3>2, <3>3
    <2>5. Len(EXIT_STRING) = 8
        BY DEF EXIT_STRING
    <2> QED BY <2>1, <2>3, <2>4, <2>5 DEF DoneOnlyOnExitString
<1>3. FairSpec => []EchoInv
    BY <1>1, EchoInvStep, BaseAlways, PTL DEF FairSpec
<1> QED BY <1>2, <1>3, BaseAlways, PTL

-----------------------------------------------------------------------------
(* Sessions as trace_read32, trace_write32 and trace_read_bytes record them. *)
IsRecording == \E output \in Seq(Symbol) : trace = Recorded(output)

(* The log of one: the script, and then output. *)
OnRecord ==
    /\ log \in Seq(Line) /\ Len(log) \in Nat /\ Len(log) >= L
    /\ \A k \in 1 .. L : log[k].op = Script[k].op /\ log[k].val = Script[k].val
    /\ \A k \in 1 .. Len(log) : log[k].cnt = k - 1 /\ (k > L => log[k].op = "READ8")

LEMMA LineCount ==
    ASSUME OnRecord, NEW j \in DOMAIN log
    PROVE  j \in 1 .. Len(log) /\ log[j].cnt = j - 1
<1>1. DOMAIN log = 1 .. Len(log)
    BY DEF OnRecord
<1> QED BY <1>1 DEF OnRecord

LEMMA RecordedFacts ==
    ASSUME NEW output \in Seq(Symbol), NEW t \in Seq(Line), t = Recorded(output)
    PROVE  /\ Len(t) = L + Len(output)
           /\ \A k \in 1 .. L : t[k].op = Script[k].op /\ t[k].val = Script[k].val
           /\ \A k \in 1 .. Len(t) : t[k].cnt = k - 1 /\ (k > L => t[k].op = "READ8")
<1> DEFINE r == [k \in 1 .. Len(output) |-> [op |-> "READ8", val |-> output[k]]]
           ops == Script \o r
<1>1. PICK n \in Nat : n = Len(output)
    OBVIOUS
<1>2. /\ Len(r) = n /\ \A k \in 1 .. n : r[k].op = "READ8"
    BY <1>1
<1>3. /\ DOMAIN ops = 1 .. L + n
      /\ \A k \in 1 .. L + n : ops[k] = IF k <= L THEN Script[k] ELSE r[k - L]
    <2> DEFINE E == [op : Op \cup {"READ8"}, val : Symbol]
    <2>1. Script \in Seq(E) /\ r \in Seq(E) /\ Len(Script) = L
        <3> DEFINE D == [op : Op, val : Symbol]
        <3>1. Script \in Seq(D) /\ Len(Script) = L /\ L \in Nat
            BY ScriptFacts DEF L
        <3>2. D \subseteq E /\ r \in Seq(E)
            OBVIOUS
        <3> HIDE DEF D, E, r
        <3>3. Script \in [1 .. L -> E]
            BY <3>1, <3>2
        <3> QED BY <3>1, <3>2, <3>3
    <2> HIDE DEF r, E
    <2>2. /\ ops \in Seq(E) /\ Len(ops) = L + n
          /\ \A k \in 1 .. L + n : ops[k] = IF k <= L THEN Script[k] ELSE r[k - L]
        BY <1>2, <2>1, ConcatProperties
    <2> HIDE DEF ops
    <2> QED BY <2>2
<1>4. t = [k \in DOMAIN ops |-> [op |-> ops[k].op, cnt |-> k - 1, val |-> ops[k].val]]
    BY DEF Recorded
<1> HIDE DEF ops, r
<1>5. L \in Nat /\ L + n \in Nat
    BY <1>1, ScriptFacts
<1>6. DOMAIN t = 1 .. L + n
    BY <1>3, <1>4
<1>7. Len(t) = L + n
    <2>1. DOMAIN t = 1 .. Len(t) /\ Len(t) \in Nat
        OBVIOUS
    <2> QED BY <1>5, <1>6, <2>1, SMT
<1>8. \A k \in 1 .. L + n : /\ t[k].op = ops[k].op /\ t[k].val = ops[k].val /\ t[k].cnt = k - 1
    BY <1>3, <1>4
<1>9. \A k \in 1 .. L : k \in 1 .. L + n /\ ops[k] = Script[k]
    BY <1>1, <1>3, <1>5
<1>10. \A k \in 1 .. L + n : k > L => k - L \in 1 .. n /\ ops[k] = r[k - L]
    BY <1>1, <1>3, <1>5
<1>11. \A k \in 1 .. L : t[k].op = Script[k].op /\ t[k].val = Script[k].val
    BY <1>8, <1>9
<1>12. \A k \in 1 .. L + n : k > L => t[k].op = "READ8"
    BY <1>2, <1>8, <1>10
<1> QED BY <1>1, <1>7, <1>8, <1>11, <1>12

LEMMA RecordFacts ==
    ASSUME Base, IsRecording, tool.pc \notin {"parse", "exit1"}
    PROVE  OnRecord
<1>1. PICK output \in Seq(Symbol) : trace = Recorded(output)
    BY DEF IsRecording
<1>2. trace \in Seq(Line) /\ log \in Seq(Line)
    BY ReplayAssumption DEF ReplayAssumption, Base, TypeInv
<1>3. Len(log) = Len(trace) /\ \A k \in 1 .. Len(log) : log[k] = trace[k]
    BY DEF Base, LogInv
<1>4. /\ Len(trace) = L + Len(output)
      /\ \A k \in 1 .. L : trace[k].op = Script[k].op /\ trace[k].val = Script[k].val
      /\ \A k \in 1 .. Len(trace) : trace[k].cnt = k - 1 /\ (k > L => trace[k].op = "READ8")
    BY <1>1, <1>2, RecordedFacts
<1>5. L \in Nat /\ Len(output) \in Nat /\ Len(log) \in Nat
    BY <1>2, ScriptFacts
<1>6. \A k \in 1 .. L : k \in 1 .. Len(log)
    BY <1>3, <1>4, <1>5
<1>7. Len(log) >= L
    BY <1>3, <1>4, <1>5
<1> QED BY <1>2, <1>3, <1>4, <1>5, <1>6, <1>7 DEF OnRecord

(* The tool reports success for the record of a session only after a run for *)
(* each word of the protocol that the program reads, with that word changed, *)
(* whatever the program and its output.                                      *)
THEOREM CoversEveryReadOnRecords == FairSpec => [](IsRecording => CoversEveryRead)
<1>1. Base => (IsRecording => CoversEveryRead)
    <2> SUFFICES ASSUME Base, IsRecording, tool.pc = "exit0"
                 PROVE  tried = {k - 1 : k \in {j \in DOMAIN Script : Script[j].op = "READ32"}}
        BY DEF CoversEveryRead
    <2>1. OnRecord
        BY RecordFacts
    <2>2. tried = ProtocolReads
        BY DEF Base, CoverInv
    <2>3. L \in Nat /\ DOMAIN Script = 1 .. L /\ \A k \in 1 .. L : Script[k].op # "READ8"
        BY ScriptFacts DEF Op
    <2>4. DOMAIN log = 1 .. Len(log) /\ \A k \in 1 .. L : k \in DOMAIN log
        BY <2>1, <2>3 DEF OnRecord
    <2>5. \A j \in DOMAIN log :
             (log[j].op = "READ32" /\ \A h \in 1 .. j : log[h].op # "READ8")
             <=> (j \in 1 .. L /\ Script[j].op = "READ32")
        <3> TAKE j \in DOMAIN log
        <3>1. j \in 1 .. L => /\ log[j].op = Script[j].op
                              /\ \A h \in 1 .. j : h \in 1 .. L /\ log[h].op # "READ8"
            BY <2>1, <2>3 DEF OnRecord
        <3>2. j \notin 1 .. L => log[j].op = "READ8"
            BY <2>1, <2>3, <2>4 DEF OnRecord
        <3> QED BY <3>1, <3>2
    <2>6. \A j \in DOMAIN log : log[j].cnt = j - 1
        BY <2>1, <2>4 DEF OnRecord
    <2> QED BY <2>2, <2>3, <2>4, <2>5, <2>6 DEF ProtocolReads
<1> QED BY <1>1, BaseAlways, PTL

-----------------------------------------------------------------------------
(* The words written: those of the script up to where the program is. *)
Before(i) == {k \in 1 .. L : k < i /\ Script[k].op = "WRITE32"}
WrittenTo(w, i) ==
    /\ Len(w) = Cardinality(Before(i))
    /\ \A k \in Before(i) : w[Cardinality({j \in Before(i) : j <= k})] = Script[k].val
WroteInv == WrittenTo(child.wrote, child.i)

LEMMA BeforeFacts ==
    ASSUME NEW i \in 1 .. L
    PROVE  /\ Script[i].op = "WRITE32" => Before(i + 1) = Before(i) \cup {i}
           /\ Script[i].op # "WRITE32" => Before(i + 1) = Before(i)
           /\ IsFiniteSet(Before(i)) /\ Cardinality(Before(i)) \in Nat
           /\ Script[i].op = "WRITE32" => Cardinality(Before(i + 1)) = Cardinality(Before(i)) + 1
<1>1. L \in Nat
    BY ScriptFacts
<1>2. Before(i) \subseteq 1 .. L /\ IsFiniteSet(1 .. L)
    BY <1>1, FS_Interval DEF Before
<1>3. IsFiniteSet(Before(i)) /\ Cardinality(Before(i)) \in Nat
    BY <1>2, FS_Subset, FS_CardinalityType
<1>4. i \notin Before(i)
    BY DEF Before
<1>5. Script[i].op = "WRITE32" => Before(i + 1) = Before(i) \cup {i}
    BY <1>1 DEF Before
<1>6. Script[i].op # "WRITE32" => Before(i + 1) = Before(i)
    BY <1>1 DEF Before
<1>7. Cardinality(Before(i) \cup {i}) = Cardinality(Before(i)) + 1
    BY <1>3, <1>4, FS_AddElement
<1> QED BY <1>3, <1>5, <1>6, <1>7

LEMMA WrittenStep ==
    ASSUME NEW i \in 1 .. L, NEW w \in Seq(Symbol), WrittenTo(w, i),
           Script[i].op = "WRITE32"
    PROVE  WrittenTo(Append(w, Script[i].val), i + 1)
<1>1. PICK B, C, n : /\ n \in Nat
                     /\ B = Before(i) /\ C = Before(i + 1) /\ n = Cardinality(B)
                     /\ C = B \cup {i} /\ Cardinality(C) = n + 1 /\ IsFiniteSet(B)
    BY BeforeFacts
<1>2. PICK v \in Symbol : v = Script[i].val
    BY ScriptFacts
<1>3. /\ Append(w, v) \in Seq(Symbol) /\ Len(Append(w, v)) = n + 1 /\ Append(w, v)[n + 1] = v
      /\ \A k \in 1 .. n : Append(w, v)[k] = w[k]
    BY <1>1, AppendProperties DEF WrittenTo
<1>4. \A k \in B : k < i /\ k \in Nat
    BY <1>1, ScriptFacts DEF Before
<1>5. ASSUME NEW k \in C
      PROVE  Append(w, v)[Cardinality({j \in C : j <= k})] = Script[k].val
    <2>1. CASE k = i
        <3>1. {j \in C : j <= k} = C
            <4>1. \A j \in C : j <= k
                BY <1>1, <1>4, <2>1
            <4> QED BY <4>1
        <3> QED BY <1>1, <1>2, <1>3, <2>1, <3>1
    <2>2. CASE k \in B
        <3>1. {j \in C : j <= k} = {j \in B : j <= k}
            BY <1>1, <1>4, <2>2
        <3>2. PICK D : D = {j \in B : j <= k} /\ D \subseteq B /\ k \in D
            <4>1. k \in {j \in B : j <= k}
                BY <1>4, <2>2
            <4> QED BY <4>1, Zenon
        <3>3. IsFiniteSet(D) /\ Cardinality(D) \in Nat /\ Cardinality(D) <= n
            BY <1>1, <3>2, FS_Subset, FS_CardinalityType
        <3>4. Cardinality(D) # 0
            BY <3>2, <3>3, FS_EmptySet
        <3>5. w[Cardinality(D)] = Script[k].val
            BY <1>1, <2>2, <3>2 DEF WrittenTo
        <3>6. PICK m : m = Cardinality(D) /\ m \in 1 .. n
            BY <1>1, <3>3, <3>4
        <3>7. Append(w, v)[m] = w[m]
            BY <1>3, <3>6
        <3>8. {j \in C : j <= k} = D
            BY <3>1, <3>2
        <3> QED BY <3>5, <3>6, <3>7, <3>8, Zenon
    <2> QED BY <1>1, <2>1, <2>2
<1> QED BY <1>1, <1>2, <1>3, <1>5 DEF WrittenTo

LEMMA WroteStep == Base /\ WroteInv /\ [Next]_vars => WroteInv'
<1> SUFFICES ASSUME Base, WroteInv, [Next]_vars PROVE WroteInv'
    OBVIOUS
<1>0. child \in ChildType /\ child.wrote \in Seq(Symbol) /\ ChildInv /\ L \in Nat
    BY ScriptFacts DEF Base, TypeInv, ChildType
<1>1. CASE put_uint
    <2>1. child.i \in 1 .. L /\ Script[child.i].op = "WRITE32"
        BY <1>0, <1>1 DEF put_uint, At, ChildInv, ChildType
    <2>2. CASE child.sent = 3
        <3>1. child'.i = child.i + 1 /\ child'.wrote = Append(child.wrote, Script[child.i].val)
            BY <1>0, <1>1, <2>2 DEF put_uint, ChildType
        <3> QED BY <1>0, <2>1, <3>1, WrittenStep DEF WroteInv
    <2>3. CASE child.sent # 3
        BY <1>0, <1>1, <2>3 DEF put_uint, ChildType, WroteInv
    <2> QED BY <2>2, <2>3
<1>2. CASE expect
    <2>1. child.i \in 1 .. L /\ Script[child.i].op # "WRITE32"
        BY <1>0, <1>2 DEF expect, At, ChildInv, ChildType
    <2>2. child'.wrote = child.wrote /\ (child'.i = child.i \/ child'.i = child.i + 1)
        BY <1>0, <1>2 DEF expect, Dies, ChildType
    <2>3. Before(child.i + 1) = Before(child.i)
        BY <2>1, BeforeFacts
    <2> QED BY <2>2, <2>3 DEF WroteInv, WrittenTo
<1>3. CASE mk_endpoint_proc
    <2>1. child'.i = 1 /\ child'.wrote = <<>>
        BY <1>3 DEF mk_endpoint_proc, NoChild
    <2>2. Before(1) = {}
        BY DEF Before
    <2> QED BY <2>1, <2>2, FS_EmptySet DEF WroteInv, WrittenTo
<1>4. CASE ~put_uint /\ ~expect /\ ~mk_endpoint_proc
    <2>1. child'.i = child.i /\ child'.wrote = child.wrote
        <3>1. CASE echo
            BY <1>0, <3>1 DEF echo, ChildType
        <3>2. CASE quit \/ LosesTool
            BY <1>0, <3>2 DEF quit, LosesTool, Dies, ChildType
        <3>3. CASE child' = child
            BY <3>3
        <3> QED BY <1>4, <3>1, <3>2, <3>3
                DEF Next, Child, replay, read_input, write_exact, read_exact, ReadEOF,
                    ReadTimeout, is_eof, proc_exit_code, vars
    <2> QED BY <2>1 DEF WroteInv
<1> QED BY <1>1, <1>2, <1>3, <1>4

-----------------------------------------------------------------------------
(* The two processes in step.  Either the program is ahead, and what lies    *)
(* between are the bytes of the words it has written, or it is behind, and   *)
(* what lies between are the words it has to read.                           *)
Byte(l, n, q) == <<l[n + (q \div 4)].val, (q % 4) + 1>>
AheadOf(l, n, i, s, g, temp, in, out) ==
    /\ n <= i /\ in = <<>>
    /\ \A k \in n .. i - 1 : l[k].op = "WRITE32"
    /\ Len(out) = 4 * (i - n) + s - g
    /\ \A j \in 1 .. Len(out) : out[j] = Byte(l, n, g + j - 1)
    /\ \A j \in 1 .. g : temp[j] = <<l[n].val, j>>
BehindOf(l, n, i, s, g, in, out) ==
    /\ i < n /\ out = <<>> /\ s = 0 /\ g = 0
    /\ \A k \in i .. n - 1 : l[k].op # "WRITE32"
    /\ Len(in) = n - i
    /\ \A j \in 1 .. n - i : in[j] = l[i + j - 1].val

Ahead == AheadOf(log, tool.n, child.i, child.sent, tool.got, tool.temp, toChild, toTool)
Behind == BehindOf(log, tool.n, child.i, child.sent, tool.got, toChild, toTool)

(* Until a word was changed. *)
InStep == tool.pc = "op" /\ ~tool.can
SyncInv ==
    InStep => /\ child.pc = "boot" => Ahead \/ Behind
              /\ child.pc = "echo" => tool.n > L /\ toTool = <<>>

LEMMA QuotientOf ==
    \A d \in Nat, s \in 0 .. 3 : (4 * d + s) \div 4 = d /\ (4 * d + s) % 4 = s
<1> TAKE d \in Nat, s \in 0 .. 3
<1>1. (4 * d + s) \div 4 = d
    OBVIOUS
<1>2. (4 * d + s) % 4 = s
    OBVIOUS
<1> QED BY <1>1, <1>2

LEMMA PutAhead ==
    ASSUME NEW l, NEW n \in Nat, NEW i \in Nat, NEW s \in 0 .. 3, NEW g \in 0 .. 3, NEW temp,
           NEW in, NEW out \in Seq(Cell), AheadOf(l, n, i, s, g, temp, in, out),
           l[i].op = "WRITE32", NEW c \in Cell, c = <<l[i].val, s + 1>>,
           NEW o, o = Append(out, c)
    PROVE  /\ s = 3 => AheadOf(l, n, i + 1, 0, g, temp, in, o)
           /\ s # 3 => AheadOf(l, n, i, s + 1, g, temp, in, o)
<1>0. PICK m \in Nat : m = Len(out)
    OBVIOUS
<1>1. m = 4 * (i - n) + s - g /\ n <= i
    BY <1>0 DEF AheadOf
<1>2. o \in Seq(Cell) /\ Added(o, out, c, m)
    <2>1. Append(out, c) \in Seq(Cell) /\ Added(Append(out, c), out, c, m)
        BY <1>0, AppendFacts
    <2> QED BY <2>1, Zenon
<1>7. Len(o) = m + 1 /\ o[m + 1] = c /\ \A j \in 1 .. m : o[j] = out[j]
    BY <1>2 DEF Added
<1>3. c = Byte(l, n, g + (m + 1) - 1)
    <2>1. PICK d \in Nat : d = i - n /\ n + d = i
        BY <1>1
    <2>2. g + (m + 1) - 1 = 4 * d + s
        BY <1>1, <2>1
    <2>3. (4 * d + s) \div 4 = d /\ (4 * d + s) % 4 = s
        BY QuotientOf
    <2> QED BY <2>1, <2>2, <2>3 DEF Byte
<1>4. \A j \in 1 .. m + 1 : o[j] = Byte(l, n, g + j - 1)
    <2> TAKE j \in 1 .. m + 1
    <2>1. CASE j = m + 1
        BY <1>7, <1>3, <2>1
    <2>2. CASE j \in 1 .. m
        BY <1>0, <1>7, <2>2 DEF AheadOf
    <2>3. j = m + 1 \/ j \in 1 .. m
        OBVIOUS
    <2> QED BY <2>1, <2>2, <2>3, Zenon
<1>5. CASE s = 3
    <2>1. \A k \in n .. (i + 1) - 1 : l[k].op = "WRITE32"
        BY <1>1 DEF AheadOf
    <2>2. n <= i + 1 /\ Len(o) = 4 * ((i + 1) - n) + 0 - g
        <3>1. PICK d \in Nat : d = i - n /\ (i + 1) - n = d + 1
            BY <1>1
        <3>2. m = 4 * d + s - g
            BY <1>1, <3>1
        <3>3. m + 1 = 4 * (d + 1) + 0 - g
            BY <1>5, <3>2
        <3>4. 4 * ((i + 1) - n) = 4 * (d + 1) /\ n <= i + 1
            BY <1>1, <3>1
        <3> QED BY <1>7, <3>3, <3>4
    <2>3. AheadOf(l, n, i + 1, 0, g, temp, in, o)
        BY <1>7, <1>4, <2>1, <2>2 DEF AheadOf
    <2> QED BY <1>5, <2>3
<1>6. CASE s # 3
    <2>1. Len(o) = 4 * (i - n) + (s + 1) - g
        BY <1>1, <1>7
    <2>2. AheadOf(l, n, i, s + 1, g, temp, in, o)
        BY <1>7, <1>4, <2>1 DEF AheadOf
    <2> QED BY <1>6, <2>2
<1> QED BY <1>5, <1>6

(* What a read takes from the program that is ahead. *)
Taken(l, n, i, s, g, k, t, in, o) ==
    /\ g + k = 4 => /\ t = Bytes(l[n].val) /\ n + 1 <= i
                    /\ AheadOf(l, n + 1, i, s, 0, t, in, o)
    /\ g + k < 4 => AheadOf(l, n, i, s, g + k, t, in, o)
LEMMA ReadAhead ==
    ASSUME NEW l, NEW n \in Nat, NEW i \in Nat, NEW s \in 0 .. 3, NEW g \in 0 .. 3,
           NEW temp \in [1 .. 4 -> Cell],
           NEW in, NEW out \in Seq(Cell), AheadOf(l, n, i, s, g, temp, in, out),
           NEW k \in 1 .. 4, k <= Len(out), g + k <= 4,
           NEW o, o = SubSeq(out, k + 1, Len(out)),
           NEW t, t = [j \in 1 .. 4 |-> IF j \in g + 1 .. g + k THEN out[j - g] ELSE temp[j]]
    PROVE  Taken(l, n, i, s, g, k, t, in, o)
<1>0. PICK m \in Nat : m = Len(out) /\ k <= m /\ k \in Nat
    OBVIOUS
<1>a. PICK d \in Nat : d = i - n /\ n <= i /\ m = 4 * d + s - g
    BY <1>0 DEF AheadOf
<1>2. o \in Seq(Cell) /\ Len(o) = m - k /\ \A j \in 1 .. m - k : o[j] = out[j + k]
    <2>1. o = SubSeq(out, k + 1, m)
        BY <1>0
    <2>2. SubSeq(out, k + 1, m) \in Seq(Cell) /\ Dropped(SubSeq(out, k + 1, m), out, k, m)
        BY <1>0, DropFacts
    <2>3. o \in Seq(Cell) /\ Dropped(o, out, k, m)
        BY <2>1, <2>2, Zenon
    <2> QED BY <2>3 DEF Dropped
<1>b. \A j \in 1 .. m : out[j] = Byte(l, n, g + j - 1)
    BY <1>0 DEF AheadOf
<1>3. \A j \in 1 .. m - k : j + k \in 1 .. m /\ o[j] = Byte(l, n, g + (j + k) - 1)
    BY <1>0, <1>2, <1>b
<1>4. \A j \in 1 .. g + k : t[j] = <<l[n].val, j>>
    <2> TAKE j \in 1 .. g + k
    <2>1. j \in 1 .. 4
        OBVIOUS
    <2>2. CASE j \in 1 .. g
        <3>1. t[j] = temp[j]
            BY <2>1, <2>2
        <3>2. temp[j] = <<l[n].val, j>>
            BY <2>2 DEF AheadOf
        <3> QED BY <3>1, <3>2
    <2>3. CASE j \in g + 1 .. g + k
        <3>1. PICK q \in 1 .. m : q = j - g /\ g + q - 1 = j - 1
            BY <1>0, <2>3
        <3>2. t[j] = out[q] /\ out[q] = Byte(l, n, g + q - 1)
            BY <1>b, <2>1, <2>3, <3>1
        <3>3. t[j] = Byte(l, n, j - 1)
            BY <3>1, <3>2
        <3>4. PICK e \in 0 .. 3 : e = j - 1 /\ e + 1 = j
            BY <2>1
        <3>5. e \div 4 = 0 /\ e % 4 = e /\ n + 0 = n
            OBVIOUS
        <3>6. Byte(l, n, e) = <<l[n].val, j>>
            BY <3>4, <3>5 DEF Byte
        <3> QED BY <3>3, <3>4, <3>6
    <2>4. j \in 1 .. g \/ j \in g + 1 .. g + k
        OBVIOUS
    <2> QED BY <2>2, <2>3, <2>4, Zenon
<1>5. CASE g + k = 4
    <2>1. t = Bytes(l[n].val)
        <3>1. \A j \in 1 .. 4 : t[j] = <<l[n].val, j>>
            BY <1>4, <1>5
        <3>2. t = [j \in 1 .. 4 |-> t[j]]
            OBVIOUS
        <3> QED BY <3>1, <3>2 DEF Bytes
    <2>2. n + 1 <= i /\ d >= 1
        BY <1>0, <1>a, <1>5
    <2>3. \A j \in 1 .. m - k : o[j] = Byte(l, n + 1, 0 + j - 1)
        <3> TAKE j \in 1 .. m - k
        <3>1. PICK q \in Nat : q = j - 1 /\ g + (j + k) - 1 = 4 + q /\ 0 + j - 1 = q
            BY <1>0, <1>5
        <3>2. PICK e \in Nat : e = q \div 4 /\ (4 + q) \div 4 = e + 1 /\ (4 + q) % 4 = q % 4
            OBVIOUS
        <3>3. n + (e + 1) = n + 1 + e
            OBVIOUS
        <3> QED BY <1>3, <3>1, <3>2, <3>3 DEF Byte
    <2>4. Len(o) = 4 * (i - (n + 1)) + s - 0
        <3>1. PICK e \in Nat : e = i - (n + 1) /\ d = e + 1
            BY <1>a, <2>2
        <3>2. m - k = 4 * e + s - 0
            BY <1>0, <1>a, <1>5, <3>1
        <3> QED BY <1>2, <3>1, <3>2
    <2>5. \A j \in n + 1 .. i - 1 : l[j].op = "WRITE32"
        BY DEF AheadOf
    <2>6. in = <<>> /\ \A j \in 1 .. 0 : t[j] = <<l[n + 1].val, j>>
        BY DEF AheadOf
    <2>7. AheadOf(l, n + 1, i, s, 0, t, in, o)
        BY <1>2, <2>2, <2>3, <2>4, <2>5, <2>6 DEF AheadOf
    <2>8. ~(g + k < 4)
        BY <1>5
    <2> QED BY <2>1, <2>2, <2>7, <2>8, Zenon DEF Taken
<1>6. CASE g + k < 4
    <2>1. Len(o) = 4 * (i - n) + s - (g + k)
        <3>1. m - k = 4 * d + s - (g + k)
            BY <1>0, <1>a
        <3> QED BY <1>2, <1>a, <3>1
    <2>2. \A j \in 1 .. m - k : g + (j + k) - 1 = (g + k) + j - 1
        BY <1>0
    <2>3. \A j \in 1 .. m - k : o[j] = Byte(l, n, (g + k) + j - 1)
        BY <1>3, <2>2
    <2>4. in = <<>> /\ \A j \in n .. i - 1 : l[j].op = "WRITE32"
        BY DEF AheadOf
    <2>5. AheadOf(l, n, i, s, g + k, t, in, o)
        BY <1>a, <1>2, <1>4, <2>1, <2>3, <2>4 DEF AheadOf
    <2> QED BY <1>6, <2>5 DEF Taken
<1> QED BY <1>5, <1>6

Popped(l, n, i, s, g, temp, in, r, out) ==
    /\ in # <<>> /\ Head(in) = l[i].val
    /\ i + 1 = n => AheadOf(l, n, i + 1, s, g, temp, r, out)
    /\ i + 1 # n => BehindOf(l, n, i + 1, s, g, r, out)
LEMMA ExpectBehind ==
    ASSUME NEW l, NEW n \in Nat, NEW i \in Nat, NEW s, NEW g, NEW temp,
           NEW in \in Seq(Symbol), NEW out, BehindOf(l, n, i, s, g, in, out)
    PROVE  Popped(l, n, i, s, g, temp, in, Tail(in), out)
<1>1. PICK m \in Nat : m = Len(in) /\ m = n - i /\ m >= 1
    BY DEF BehindOf
<1>2. in # <<>> /\ Head(in) = in[1] /\ 1 \in 1 .. n - i /\ i + 1 - 1 = i /\ 1 <= m /\ m # 0
    <2>1. m # 0 /\ 1 <= m
        BY <1>1
    <2>2. in # <<>> /\ Head(in) = in[1]
        BY <1>1, <2>1, DropFacts
    <2> QED BY <1>1, <2>1, <2>2
<1>3. Head(in) = l[i].val
    BY <1>2 DEF BehindOf
<1>4. PICK r \in Seq(Symbol) : /\ r = Tail(in) /\ Len(r) = m - 1
                               /\ \A j \in 1 .. m - 1 : r[j] = in[j + 1]
    <2>1. Tail(in) \in Seq(Symbol) /\ Dropped(Tail(in), in, 1, m)
        BY <1>1, <1>2, DropFacts
    <2>2. PICK r \in Seq(Symbol) : r = Tail(in) /\ Dropped(r, in, 1, m)
        BY <2>1, Zenon
    <2> QED BY <2>2 DEF Dropped
<1>5. CASE i + 1 = n
    <2>1. r = <<>>
        BY <1>1, <1>4, <1>5, EmptySeq
    <2>2. s = 0 /\ g = 0 /\ out = <<>> /\ Len(out) = 0
        BY DEF BehindOf
    <2>3. n <= i + 1 /\ 0 = 4 * ((i + 1) - n) + s - g
        BY <1>5, <2>2
    <2> QED BY <1>2, <1>3, <1>4, <1>5, <2>1, <2>2, <2>3 DEF AheadOf, Popped
<1>6. CASE i + 1 # n
    <2>1. i + 1 < n /\ m - 1 = n - (i + 1)
        BY <1>1, <1>6
    <2>2. \A j \in 1 .. n - (i + 1) : r[j] = l[(i + 1) + j - 1].val
        <3> TAKE j \in 1 .. n - (i + 1)
        <3>1. j + 1 \in 1 .. n - i /\ i + (j + 1) - 1 = (i + 1) + j - 1 /\ j \in 1 .. m - 1
            BY <2>1
        <3> QED BY <1>4, <3>1 DEF BehindOf
    <2>3. \A k \in i + 1 .. n - 1 : l[k].op # "WRITE32"
        BY DEF BehindOf
    <2> QED BY <1>2, <1>3, <1>4, <1>6, <2>1, <2>2, <2>3 DEF BehindOf, Popped
<1> QED BY <1>5, <1>6

LEMMA PieceSize ==
    ASSUME NEW out \in Seq(Cell), out # <<>>, NEW g \in 0 .. 3,
           NEW k, k = IF Len(out) < 4 - g THEN Len(out) ELSE 4 - g
    PROVE  k \in 1 .. 4 /\ k <= Len(out) /\ g + k <= 4
<1>1. PICK l \in Nat : l = Len(out) /\ l >= 1
    <2>1. Len(out) # 0 /\ Len(out) \in Nat
        BY EmptySeq
    <2> QED BY <2>1
<1> QED BY <1>1

(* The tool writes a word. *)
Ready(l, n, i, s, g, in, out) ==
    /\ out = <<>> /\ s = 0 /\ g = 0 /\ i <= n /\ Len(in) = n - i
    /\ \A k \in i .. n : l[k].op # "WRITE32"
    /\ \A j \in 1 .. n - i : in[j] = l[i + j - 1].val
LEMMA WriteAhead ==
    ASSUME NEW l, NEW n \in Nat, NEW i \in Nat, NEW s \in 0 .. 3, NEW g \in 0 .. 3, NEW temp,
           NEW in \in Seq(Symbol), NEW out \in Seq(Cell),
           \/ AheadOf(l, n, i, s, g, temp, in, out)
           \/ BehindOf(l, n, i, s, g, in, out),
           l[n].op # "WRITE32", g > 0 => l[n].op = "WRITE32", s > 0 => l[i].op = "WRITE32"
    PROVE  Ready(l, n, i, s, g, in, out)
<1>1. CASE AheadOf(l, n, i, s, g, temp, in, out)
    <2>1. n <= i /\ ~(n \in n .. i - 1) /\ Len(out) = 4 * (i - n) + s - g /\ in = <<>>
        BY <1>1 DEF AheadOf
    <2>2. n = i
        BY <2>1
    <2>3. s = 0 /\ g = 0
        BY <2>2
    <2>4. Len(out) = 0 /\ n - i = 0
        BY <2>1, <2>2, <2>3
    <2>5. out = <<>> /\ Len(in) = n - i
        BY <2>1, <2>4, EmptySeq
    <2> QED BY <2>2, <2>3, <2>4, <2>5 DEF Ready
<1>2. CASE BehindOf(l, n, i, s, g, in, out)
    BY <1>2 DEF BehindOf, Ready
<1> QED BY <1>1, <1>2

LEMMA WriteBehind ==
    ASSUME NEW l, NEW n \in Nat, NEW i \in Nat, NEW in \in Seq(Symbol), NEW s, NEW g, NEW out,
           Ready(l, n, i, s, g, in, out), l[n].val \in Symbol
    PROVE  BehindOf(l, n + 1, i, 0, 0, Append(in, l[n].val), <<>>)
<1>0. /\ i <= n /\ Len(in) = n - i /\ \A k \in i .. n : l[k].op # "WRITE32"
      /\ \A j \in 1 .. n - i : in[j] = l[i + j - 1].val
    BY DEF Ready
<1>1. PICK m \in Nat : m = n - i /\ m = Len(in) /\ m + 1 = (n + 1) - i /\ i + (m + 1) - 1 = n
    BY <1>0
<1>2. PICK v \in Symbol : v = l[n].val
    OBVIOUS
<1>3. PICK r \in Seq(Symbol) : /\ r = Append(in, v) /\ Len(r) = m + 1 /\ r[m + 1] = v
                               /\ \A j \in 1 .. m : r[j] = in[j]
    <2>1. Append(in, v) \in Seq(Symbol) /\ Added(Append(in, v), in, v, m)
        BY <1>1, AppendFacts
    <2>2. PICK r \in Seq(Symbol) : r = Append(in, v) /\ Added(r, in, v, m)
        BY <2>1, Zenon
    <2> QED BY <2>2 DEF Added
<1>4. \A j \in 1 .. m + 1 : r[j] = l[i + j - 1].val
    <2> TAKE j \in 1 .. m + 1
    <2>1. CASE j = m + 1
        BY <1>1, <1>2, <1>3, <2>1
    <2>2. CASE j \in 1 .. m
        BY <1>0, <1>1, <1>3, <2>2
    <2> QED BY <2>1, <2>2
<1>5. i < n + 1 /\ \A k \in i .. (n + 1) - 1 : l[k].op # "WRITE32"
    BY <1>0
<1> QED BY <1>1, <1>2, <1>3, <1>4, <1>5 DEF BehindOf

AllInv == ((InStep /\ tool.n > L) \/ tool.pc = "wait") => child.i >= L

Stepped ==
    /\ OnRecord /\ TypeInv /\ ToolInv /\ ChildInv
    /\ tool \in ToolType /\ child \in ChildType
    /\ toChild \in Seq(Symbol) /\ toTool \in Seq(Cell)
    /\ tool.n \in Nat /\ tool.n \in 1 .. Len(log) + 1 /\ tool.got \in 0 .. 3
    /\ tool.temp \in [1 .. 4 -> Cell]
    /\ child.i \in 1 .. L + 1 /\ child.i \in Nat /\ child.sent \in 0 .. 3
    /\ child.pc = "boot" => /\ child.i \in 1 .. L /\ log[child.i].op = Script[child.i].op
                            /\ log[child.i].val = Script[child.i].val
    /\ child.sent > 0 => log[child.i].op = "WRITE32"
    /\ L \in Nat /\ L >= 9 /\ Len(log) \in Nat /\ Len(log) >= L

LEMMA StepFacts == ASSUME Base, IsRecording, InStep PROVE Stepped
<1>1. /\ OnRecord /\ TypeInv /\ ToolInv /\ ChildInv
      /\ tool \in ToolType /\ child \in ChildType
      /\ toChild \in Seq(Symbol) /\ toTool \in Seq(Cell)
    BY RecordFacts DEF InStep, Base, TypeInv
<1>2. L \in Nat /\ L >= 9 /\ Len(log) \in Nat /\ Len(log) >= L
    BY <1>1, ScriptFacts DEF OnRecord
<1>3. /\ tool.n \in Nat /\ tool.n \in 1 .. Len(log) + 1 /\ tool.got \in 0 .. 3
      /\ tool.temp \in [1 .. 4 -> Cell]
    BY <1>1, <1>2 DEF ToolType, ToolInv, InStep
<1>4. child.i \in 1 .. L + 1 /\ child.i \in Nat /\ child.sent \in 0 .. 3
    BY <1>1, <1>2 DEF ChildType
<1>5. child.i <= L => /\ child.i \in 1 .. L /\ log[child.i].op = Script[child.i].op
                      /\ log[child.i].val = Script[child.i].val
    BY <1>1, <1>2, <1>4 DEF OnRecord
<1> QED BY <1>1, <1>2, <1>3, <1>4, <1>5 DEF ChildInv, Stepped

(* The steps of the program keep it in step. *)
LEMMA PutSync == ASSUME Base, IsRecording, SyncInv, InStep, put_uint PROVE SyncInv'
<1>0. Stepped
    BY StepFacts
<1> USE <1>0 DEF Stepped
<1>1. /\ child.pc = "boot" /\ child.i \in 1 .. L /\ log[child.i].op = "WRITE32"
      /\ log[child.i].val = Script[child.i].val /\ Script[child.i].val \in Symbol
    BY ScriptFacts DEF put_uint, At
<1>2. Ahead
    <2>1. ~Behind
        <3>1. child.i < tool.n => child.i \in child.i .. tool.n - 1
            OBVIOUS
        <3> QED BY <1>1, <3>1 DEF Behind, BehindOf
    <2> QED BY <1>1, <2>1 DEF SyncInv
<1>3. PICK c \in Cell : /\ c = <<log[child.i].val, child.sent + 1>>
                        /\ toTool' = Append(toTool, c)
    <2>1. Bytes(Script[child.i].val)[child.sent + 1] = <<log[child.i].val, child.sent + 1>>
        BY <1>1 DEF Bytes
    <2>2. <<log[child.i].val, child.sent + 1>> \in Cell
        BY <1>1 DEF Cell
    <2> QED BY <2>1, <2>2 DEF put_uint
<1>4. /\ child.sent = 3 =>
            AheadOf(log, tool.n, child.i + 1, 0, tool.got, tool.temp, toChild, toTool')
      /\ child.sent # 3 =>
            AheadOf(log, tool.n, child.i, child.sent + 1, tool.got, tool.temp, toChild, toTool')
    BY <1>1, <1>2, <1>3, PutAhead DEF Ahead
<1>5. tool' = tool /\ log' = log /\ toChild' = toChild
    BY DEF put_uint
<1>6. /\ child'.pc = "boot"
      /\ child.sent = 3 => child'.sent = 0 /\ child'.i = child.i + 1
      /\ child.sent # 3 => child'.sent = child.sent + 1 /\ child'.i = child.i
    BY <1>1 DEF put_uint, ChildType
<1>7. Ahead'
    BY <1>4, <1>5, <1>6 DEF Ahead
<1> QED BY <1>6, <1>7 DEF SyncInv

(* The word expected is there, and it is the right one. *)
LEMMA ExpectSync ==
    ASSUME Base, IsRecording, SyncInv, InStep, expect
    PROVE  /\ SyncInv' /\ Head(toChild) = Script[child.i].val
           /\ child' = [child EXCEPT !.i = child.i + 1, !.pc = Advance]
           /\ toChild' = Tail(toChild) /\ Behind
           /\ child'.i = child.i + 1 /\ child'.pc = Advance
<1>0. Stepped
    BY StepFacts
<1> USE <1>0 DEF Stepped
<1>1. /\ child.pc = "boot" /\ child.i \in 1 .. L /\ toChild # <<>>
      /\ log[child.i].val = Script[child.i].val
    BY DEF expect, At
<1>2. Behind
    BY <1>1 DEF SyncInv, Ahead, AheadOf
<1>3. Popped(log, tool.n, child.i, child.sent, tool.got, tool.temp, toChild, Tail(toChild), toTool)
    BY <1>2, ExpectBehind DEF Behind
<1>4. Head(toChild) = Script[child.i].val
    BY <1>1, <1>3 DEF Popped
<1>5. child' = [child EXCEPT !.i = child.i + 1, !.pc = Advance] /\ toChild' = Tail(toChild)
    BY <1>4 DEF expect
<1>6. tool' = tool /\ log' = log /\ toTool' = toTool
    BY DEF expect
<1>7. child'.i = child.i + 1 /\ child'.pc = Advance /\ child'.sent = child.sent
    BY <1>5 DEF ChildType
<1>8. Ahead' \/ Behind'
    BY <1>3, <1>5, <1>6, <1>7 DEF Ahead, Behind, Popped
<1>9. Advance = "echo" => tool.n > L /\ toTool = <<>>
    <2>1. Advance = "echo" => child.i = L
        BY DEF Advance, L
    <2> QED BY <1>2, <2>1 DEF Behind, BehindOf
<1>10. SyncInv'
    BY <1>6, <1>7, <1>8, <1>9 DEF SyncInv
<1> QED BY <1>2, <1>4, <1>5, <1>7, <1>10

(* The steps of the tool do. *)
LEMMA WriteSync ==
    ASSUME Base, IsRecording, SyncInv, InStep, write_exact, child.pc \in {"boot", "echo"}
    PROVE  /\ child.pc = "boot" =>
                 Ready(log, tool.n, child.i, child.sent, tool.got, toChild, toTool)
           /\ InStep' => SyncInv'
           /\ toChild' = Append(toChild, Value) /\ tool' = NextOp
           /\ tool.n = L => child.i >= L
<1>0. Stepped
    BY StepFacts
<1> USE <1>0 DEF Stepped
<1>1. /\ tool.n \in 1 .. Len(log) /\ log[tool.n].op # "WRITE32" /\ log[tool.n].val \in Symbol
      /\ UNCHANGED <<log, child, toTool>>
    <2>1. tool.n \in 1 .. Len(log)
        BY DEF write_exact, InLog
    <2> QED BY <2>1, EntryFacts DEF write_exact, Entry
<1>2. toChild' = Append(toChild, Value) /\ tool' = NextOp
    BY DEF write_exact, Dead
<1>3. /\ tool'.n = tool.n + 1 /\ tool'.got = 0
    BY <1>2 DEF NextOp, ToolType
<1>4. InStep' => Value = log[tool.n].val
    <2>1. tool'.can = CanFail
        BY <1>2, Zenon DEF NextOp, ToolType
    <2>2. InStep' => ~Corrupted
        BY <2>1, Zenon DEF InStep, CanFail
    <2> QED BY <2>2 DEF Value, Entry
<1>5. ASSUME child.pc = "boot"
      PROVE  Ready(log, tool.n, child.i, child.sent, tool.got, toChild, toTool)
    <2>1. tool.got > 0 => log[tool.n].op = "WRITE32"
        BY DEF ToolInv
    <2>2. Ahead \/ Behind
        BY <1>5 DEF SyncInv
    <2> QED BY <1>1, <2>1, <2>2, WriteAhead DEF Ahead, Behind
<1>6. ASSUME InStep' PROVE SyncInv'
    <2>1. ASSUME child.pc = "boot" PROVE Behind'
        <3>1. BehindOf(log, tool.n + 1, child.i, 0, 0, Append(toChild, log[tool.n].val), <<>>)
            BY <1>1, <1>5, <2>1, WriteBehind
        <3> QED BY <1>1, <1>2, <1>3, <1>4, <1>5, <1>6, <2>1, <3>1 DEF Behind, Ready
    <2>2. child.pc = "echo" => tool'.n > L /\ toTool' = <<>>
        BY <1>1, <1>3 DEF SyncInv
    <2> QED BY <1>1, <2>1, <2>2 DEF SyncInv
<1>7. tool.n = L => child.i >= L
    <2>1. CASE child.pc = "boot" /\ tool.n = L
        <3>1. log[L - 1].op = "WRITE32" /\ L - 1 \in 1 .. L
            BY ScriptFacts DEF OnRecord
        <3>2. L - 1 \notin child.i .. L
            BY <1>5, <2>1, <3>1 DEF Ready
        <3> QED BY <3>1, <3>2
    <2>2. CASE child.pc = "echo"
        BY <2>2 DEF ChildInv
    <2> QED BY <2>1, <2>2
<1> QED BY <1>2, <1>5, <1>6, <1>7

LEMMA ReadSync ==
    ASSUME Base, IsRecording, SyncInv, InStep, read_exact, child.pc \in {"boot", "echo"}
    PROVE  SyncInv' /\ tool'.pc = "op" /\ tool.n <= L /\ (tool'.can => CanFail)
<1>0. Stepped
    BY StepFacts
<1> USE <1>0 DEF Stepped
<1>1. /\ tool.n \in 1 .. Len(log) /\ log[tool.n].op = "WRITE32" /\ toTool # <<>>
      /\ UNCHANGED <<log, child, toChild>>
    BY DEF read_exact, Reading, InLog, Entry
<1>2. tool.n <= L
    BY <1>1 DEF OnRecord
<1>3. child.pc = "boot" /\ Ahead
    BY <1>1, <1>2 DEF SyncInv, Behind, BehindOf
<1> DEFINE k == IF Len(toTool) < 4 - tool.got THEN Len(toTool) ELSE 4 - tool.got
           temp == [j \in 1 .. 4 |-> IF j \in tool.got + 1 .. tool.got + k
                                     THEN toTool[j - tool.got] ELSE tool.temp[j]]
<1>4. k \in 1 .. 4 /\ k <= Len(toTool) /\ tool.got + k <= 4
    BY <1>1, PieceSize
<1>5. /\ toTool' = SubSeq(toTool, k + 1, Len(toTool))
      /\ \/ tool.got + k = 4 /\ Compare(temp)
         \/ tool.got + k < 4 /\ tool' = [tool EXCEPT !.temp = temp, !.got = tool.got + k]
    BY DEF read_exact
<1>6. temp = [j \in 1 .. 4 |-> IF j \in tool.got + 1 .. tool.got + k
                               THEN toTool[j - tool.got] ELSE tool.temp[j]]
    OBVIOUS
<1> HIDE DEF k, temp
<1>7. Taken(log, tool.n, child.i, child.sent, tool.got, k, temp, toChild, toTool')
    <2>1. /\ tool.n \in Nat /\ child.i \in Nat /\ child.sent \in 0 .. 3 /\ tool.got \in 0 .. 3
          /\ tool.temp \in [1 .. 4 -> Cell] /\ toTool \in Seq(Cell)
        BY DEF Stepped
    <2>2. AheadOf(log, tool.n, child.i, child.sent, tool.got, tool.temp, toChild, toTool)
        BY <1>3 DEF Ahead
    <2>3. toTool' = SubSeq(toTool, k + 1, Len(toTool))
        BY <1>5
    <2> QED BY <1>4, <1>6, <2>1, <2>2, <2>3, ReadAhead
<1>8. CASE tool.got + k = 4 /\ Compare(temp)
    <2>1. tool' = [NextOp EXCEPT !.temp = temp]
        BY <1>7, <1>8 DEF Compare, Entry, Taken
    <2>2. /\ tool'.n = tool.n + 1 /\ tool'.got = 0 /\ tool'.temp = temp /\ tool'.pc = "op"
        BY <2>1 DEF NextOp, ToolType, InStep
    <2>3. tool'.can => CanFail
        BY <2>1, Zenon DEF NextOp, ToolType
    <2>4. Ahead'
        BY <1>1, <1>7, <1>8, <2>2 DEF Ahead, Taken
    <2> QED BY <1>1, <1>2, <1>3, <2>2, <2>3, <2>4 DEF SyncInv
<1>9. CASE tool.got + k < 4 /\ tool' = [tool EXCEPT !.temp = temp, !.got = tool.got + k]
    <2>1. /\ tool'.n = tool.n /\ tool'.got = tool.got + k /\ tool'.temp = temp /\ tool'.pc = "op"
        BY <1>9 DEF ToolType, InStep
    <2>2. tool'.can => CanFail
        BY <1>9, Zenon DEF ToolType, CanFail
    <2>3. Ahead'
        BY <1>1, <1>7, <1>9, <2>1 DEF Ahead, Taken
    <2> QED BY <1>1, <1>2, <1>3, <2>1, <2>2, <2>3 DEF SyncInv
<1> QED BY <1>5, <1>8, <1>9

(* Nothing is waited for that does not come. *)
LEMMA NoTimeout == ASSUME Base, IsRecording, SyncInv, InStep, ReadTimeout PROVE FALSE
<1>0. Stepped
    BY StepFacts
<1> USE <1>0 DEF Stepped
<1>1. /\ tool.n \in 1 .. Len(log) /\ log[tool.n].op = "WRITE32" /\ toTool = <<>>
      /\ toChild = <<>> /\ child.pc \in {"boot", "echo"}
      /\ child.pc = "boot" => Script[child.i].op # "WRITE32"
    BY DEF ReadTimeout, Reading, InLog, Entry, Blocked, Running, At
<1>2. tool.n <= L
    BY <1>1 DEF OnRecord
<1>3. child.pc = "boot"
    BY <1>1, <1>2 DEF SyncInv
<1>4. Len(toTool) = 0 /\ Len(toChild) = 0
    BY <1>1
<1>5. CASE Ahead
    <2>1. child.sent = 0 /\ log[child.i].op # "WRITE32"
        BY <1>1, <1>3
    <2>2. 0 = 4 * (child.i - tool.n) + child.sent - tool.got /\ tool.n <= child.i
        BY <1>4, <1>5 DEF Ahead, AheadOf
    <2>3. child.i # tool.n
        BY <1>1, <2>1
    <2>4. ASSUME NEW i \in Nat, NEW n \in Nat, NEW g \in 0 .. 3, i # n, n <= i,
                 0 = 4 * (i - n) + 0 - g
          PROVE  FALSE
        <3>1. PICK d \in Nat : d = i - n /\ d >= 1
            BY <2>4
        <3> QED BY <2>4, <3>1
    <2> QED BY <2>1, <2>2, <2>3, <2>4
<1>6. CASE Behind
    BY <1>4, <1>6 DEF Behind, BehindOf
<1> QED BY <1>3, <1>5, <1>6 DEF SyncInv

LEMMA SyncStep == Base /\ IsRecording /\ SyncInv /\ [Next]_vars => SyncInv'
<1> SUFFICES ASSUME Base, IsRecording, SyncInv, [Next]_vars, InStep' PROVE SyncInv'
    BY DEF SyncInv
<1>1. CASE mk_endpoint_proc
    <2>1. /\ tool'.n = 1 /\ tool'.got = 0 /\ child'.i = 1 /\ child'.sent = 0
          /\ child'.pc = "boot" /\ toChild' = <<>> /\ toTool' = <<>> /\ Len(toTool') = 0
        BY <1>1 DEF mk_endpoint_proc, NoChild, Base, TypeInv, ToolType
    <2>2. Ahead'
        BY <2>1 DEF Ahead, AheadOf
    <2> QED BY <2>1, <2>2 DEF SyncInv
<1>2. CASE UNCHANGED vars
    BY <1>2 DEF vars, SyncInv, InStep, Ahead, Behind
<1>3. CASE read_input \/ proc_exit_code
    <2>1. tool.pc \in {"parse", "wait", "error"}
        BY <1>3 DEF read_input, proc_exit_code
    <2>2. tool'.pc # "op"
        BY <1>3, <2>1 DEF read_input, proc_exit_code, Fails, NextRun, Base, TypeInv, ToolType
    <2> QED BY <2>2 DEF InStep
<1>4. CASE is_eof
    <2>1. tool'.pc # "op"
        BY <1>4 DEF is_eof, Fails, Base, TypeInv, ToolType
    <2> QED BY <2>1 DEF InStep
<1>5. CASE Child \/ quit
    <2>1. tool' = tool /\ log' = log /\ InStep
        BY <1>5 DEF Child, put_uint, expect, echo, LosesTool, quit, InStep
    <2>2. CASE put_uint
        BY <2>1, <2>2, PutSync
    <2>3. CASE expect
        BY <2>1, <2>3, ExpectSync
    <2>4. CASE echo
        <3>1. child.pc = "echo" /\ child'.pc \in {"echo", "exited"} /\ toTool' = toTool
            BY <2>4 DEF echo, Base, TypeInv, ChildType
        <3> QED BY <2>1, <3>1 DEF SyncInv
    <2>5. CASE quit \/ LosesTool
        <3>1. child'.pc \in {"exited", "signalled"}
            BY <2>5 DEF quit, LosesTool, Dies, Base, TypeInv, ChildType
        <3> QED BY <3>1 DEF SyncInv
    <2> QED BY <1>5, <2>2, <2>3, <2>4, <2>5 DEF Child
<1>6. CASE write_exact \/ read_exact \/ ReadEOF \/ ReadTimeout
    <2>1. ToolStep /\ InStep
        <3>1. ToolStep
            BY <1>6, WriteStep, ReadStep, EndOfReadStep
        <3>2. tool.can => tool'.can
            BY <1>6, Zenon DEF write_exact, read_exact, ReadEOF, ReadTimeout, Compare, Fails,
                               NextOp, CanFail, Base, TypeInv, ToolType
        <3> QED BY <3>1, <3>2 DEF ToolStep, InStep
    <2>2. CASE child.pc \notin {"boot", "echo"}
        <3>1. child' = child
            BY <2>1 DEF ToolStep
        <3> QED BY <2>2, <3>1 DEF SyncInv
    <2>3. CASE child.pc \in {"boot", "echo"}
        <3>1. ~ReadEOF
            BY <2>3 DEF ReadEOF, Dead
        <3> QED BY <1>6, <2>1, <2>3, <3>1, WriteSync, ReadSync, NoTimeout
    <2> QED BY <2>2, <2>3
<1> QED BY <1>1, <1>2, <1>3, <1>4, <1>5, <1>6 DEF Next, replay

(* When the tool has done with the script, so has the program. *)
LEMMA AllStep == Base /\ IsRecording /\ SyncInv /\ AllInv /\ [Next]_vars => AllInv'
<1> SUFFICES ASSUME Base, IsRecording, SyncInv, AllInv, [Next]_vars,
                    (InStep' /\ tool'.n > L) \/ tool'.pc = "wait"
             PROVE  child'.i >= L
    BY DEF AllInv
<1>0. L \in Nat /\ L >= 9 /\ tool \in ToolType /\ child \in ChildType /\ child.i \in Nat
    BY ScriptFacts DEF Base, TypeInv, ChildType
<1>1. CASE mk_endpoint_proc
    <2>1. tool'.n = 1 /\ tool'.pc = "op"
        BY <1>0, <1>1 DEF mk_endpoint_proc, ToolType
    <2> QED BY <1>0, <2>1
<1>2. CASE UNCHANGED vars
    BY <1>2 DEF vars, AllInv, InStep
<1>3. CASE read_input \/ proc_exit_code
    <2>1. tool.pc \in {"parse", "wait", "error"}
        BY <1>3 DEF read_input, proc_exit_code
    <2>2. tool'.pc \notin {"op", "wait"}
        BY <1>0, <1>3, <2>1 DEF read_input, proc_exit_code, Fails, NextRun, ToolType
    <2> QED BY <2>2 DEF InStep
<1>4. CASE is_eof
    <2>1. tool'.pc = "wait"
        BY <1>0, <1>4 DEF is_eof, Fails, ToolType, InStep
    <2>2. ~tool.can /\ tool.n > Len(log) /\ tool.pc = "op" /\ child' = child
        BY <1>0, <1>4, <2>1 DEF is_eof, Fails, ToolType, Finished
    <2>3. InStep
        BY <2>2 DEF InStep
    <2>4. tool.n > L
        <3>1. Stepped
            BY <2>3, StepFacts
        <3> QED BY <2>2, <3>1 DEF Stepped
    <2> QED BY <2>2, <2>3, <2>4 DEF AllInv
<1>5. CASE Child \/ quit
    <2>1. tool' = tool
        BY <1>5 DEF Child, put_uint, expect, echo, LosesTool, quit
    <2>2. child.i >= L
        BY <2>1 DEF AllInv, InStep
    <2>3. child'.i = child.i \/ child'.i = child.i + 1
        <3>1. CASE put_uint
            BY <1>0, <3>1 DEF put_uint, ChildType
        <3>2. CASE expect
            BY <1>0, <3>2 DEF expect, Dies, ChildType
        <3>3. CASE echo
            BY <1>0, <3>3 DEF echo, ChildType
        <3>4. CASE LosesTool \/ quit
            BY <1>0, <3>4 DEF LosesTool, quit, Dies, ChildType
        <3> QED BY <1>5, <3>1, <3>2, <3>3, <3>4 DEF Child
    <2> QED BY <1>0, <2>2, <2>3
<1>6. CASE write_exact \/ read_exact \/ ReadEOF \/ ReadTimeout
    <2>1. ToolStep
        BY <1>6, WriteStep, ReadStep, EndOfReadStep
    <2>2. tool.can => tool'.can
        BY <1>6, Zenon DEF write_exact, read_exact, ReadEOF, ReadTimeout, Compare, Fails,
                           NextOp, CanFail, Base, TypeInv, ToolType
    <2>3. tool'.pc # "wait"
        BY <1>0, <1>6 DEF write_exact, read_exact, ReadEOF, ReadTimeout, Compare, Fails,
                          NextOp, InLog, Reading, ToolType
    <2>4. InStep /\ child' = child /\ tool'.n > L /\ InStep'
        BY <2>1, <2>2, <2>3 DEF ToolStep, InStep
    <2>5. Stepped
        BY <2>4, StepFacts
    <2>6. CASE tool.n > L
        BY <2>4, <2>6 DEF AllInv
    <2>7. CASE ~(tool.n > L)
        <3>1. tool.n = L /\ tool'.n = tool.n + 1
            BY <2>1, <2>4, <2>5, <2>7 DEF ToolStep, Stepped
        <3>2. Entry.op = "READ32"
            <4>1. L \in 1 .. L
                BY <1>0
            <4> QED BY <2>5, <3>1, <4>1, ScriptFacts DEF Entry, Stepped, OnRecord
        <3>3. write_exact
            BY <1>6, <3>2 DEF read_exact, ReadEOF, ReadTimeout, Reading
        <3>4. ~Dead
            <4> SUFFICES ASSUME Dead PROVE FALSE
                OBVIOUS
            <4>1. tool' = NextOp /\ CanFail
                BY <1>0, <2>4, <3>3 DEF write_exact, Fails, InStep, ToolType
            <4>2. tool'.can
                BY <1>0, <4>1, Zenon DEF NextOp, ToolType
            <4> QED BY <2>4, <4>2 DEF InStep
        <3>5. child.pc \in {"boot", "echo"}
            BY <2>4, <3>4 DEF Dead, Base, TypeInv, ChildType, ChildInv, InStep
        <3> QED BY <2>4, <3>1, <3>3, <3>5, WriteSync
    <2> QED BY <2>6, <2>7
<1> QED BY <1>1, <1>2, <1>3, <1>4, <1>5, <1>6 DEF Next, replay

RecInv == IsRecording => SyncInv /\ AllInv

LEMMA RecAlways == FairSpec => [](WroteInv /\ RecInv)
<1>1. Init => WroteInv /\ RecInv
    <2>1. Init => child.i = 1 /\ child.wrote = <<>> /\ tool.pc = "parse"
        BY DEF Init, NoChild, Idle
    <2>2. Before(1) = {} /\ Cardinality({}) = 0
        BY FS_EmptySet DEF Before
    <2> QED BY <2>1, <2>2 DEF WroteInv, WrittenTo, RecInv, SyncInv, AllInv, InStep
<1>2. Base /\ RecInv /\ [Next]_vars => RecInv'
    <2>1. [Next]_vars => trace' = trace
        BY DEF Next, Child, replay, read_input, mk_endpoint_proc, write_exact, read_exact,
               ReadEOF, ReadTimeout, is_eof, proc_exit_code, put_uint, expect, echo,
               LosesTool, quit, vars
    <2>2. [Next]_vars => (IsRecording' <=> IsRecording)
        BY <2>1 DEF IsRecording
    <2> QED BY <2>2, SyncStep, AllStep DEF RecInv
<1> QED BY <1>1, <1>2, WroteStep, BaseAlways, PTL DEF FairSpec

(* Success of a run as recorded means that the program wrote the words of    *)
(* the log, for every session that was recorded whole: read_exact may take   *)
(* what is left in temp for a word, and one word of it may be like another,  *)
(* but then a word the program has to read cannot be delivered to it.        *)
THEOREM SuccessMeansSameWritesOnRecords == FairSpec => [](IsRecording => SuccessMeansSameWrites)
<1>1. Base /\ WroteInv /\ RecInv => (IsRecording => SuccessMeansSameWrites)
    <2> SUFFICES ASSUME Base, WroteInv, RecInv, IsRecording, tool.pc = "wait"
                 PROVE  SameWrites
        BY DEF SuccessMeansSameWrites
    <2>1. OnRecord /\ L \in Nat /\ child.i >= L /\ child.i \in Nat
        BY RecordFacts, ScriptFacts DEF RecInv, AllInv, Base, TypeInv, ChildType
    <2>2. LogWrites = Before(child.i)
        <3>1. DOMAIN log = 1 .. Len(log)
            BY <2>1 DEF OnRecord
        <3>2. ASSUME NEW k \in DOMAIN log, log[k].op = "WRITE32" PROVE k \in Before(child.i)
            <4>1. k \in 1 .. L /\ Script[k].op = "WRITE32"
                BY <2>1, <3>1, <3>2 DEF OnRecord
            <4>2. k # L
                BY <4>1, ScriptFacts
            <4> QED BY <2>1, <4>1, <4>2 DEF Before
        <3>3. ASSUME NEW k \in Before(child.i) PROVE k \in DOMAIN log /\ log[k].op = "WRITE32"
            <4>1. k \in 1 .. L /\ Script[k].op = "WRITE32"
                BY <3>3 DEF Before
            <4> QED BY <2>1, <3>1, <4>1 DEF OnRecord
        <3> QED BY <3>2, <3>3 DEF LogWrites
    <2>3. \A k \in LogWrites : Script[k].val = log[k].val
        BY <2>1, <2>2 DEF Before, OnRecord
    <2>4. /\ Len(child.wrote) = Cardinality(LogWrites)
          /\ \A k \in LogWrites :
                child.wrote[Cardinality({j \in LogWrites : j <= k})] = Script[k].val
        BY <2>2, Zenon DEF WroteInv, WrittenTo
    <2> QED BY <2>3, <2>4 DEF SameWrites
<1> QED BY <1>1, RecAlways, BaseAlways, PTL

-----------------------------------------------------------------------------
(* A faithful program on the record of a session whose output ends where the *)
(* exit string is first seen.  The recogniser's run over that output:        *)
M == Len(log) - L
OutputRun(h) ==
    /\ Follows(h, Fresh, Output, M)
    /\ h[M].seen /\ \A k \in 0 .. M - 1 : ~h[k].seen
    /\ \A k \in 0 .. M : h[k] \in Alert /\ ~h[k].stop
OutputOf(o, m, l) ==
    /\ m \in Nat /\ m >= 1 /\ o \in Seq(Symbol) /\ Len(o) = m
    /\ \A k \in 1 .. m : o[k] = l[L + k].val /\ o[k] # NUL

LEMMA StopUnset ==
    ASSUME NEW r \in Alert, ~r.stop
    PROVE  [r EXCEPT !.stop = FALSE] = r
<1>1. r \in [pos : 0 .. Len(EXIT_STRING), seen : BOOLEAN, stop : BOOLEAN]
    BY DEF Alert, Recogniser
<1>2. PICK b \in BOOLEAN : b = r.stop
    BY <1>1
<1>3. b = FALSE
    BY <1>2, Zenon
<1>4. [r EXCEPT !.stop = b] = r
    BY <1>1, <1>2
<1> QED BY <1>3, <1>4, Zenon

LEMMA OutputFacts ==
    ASSUME Base, OnRecord, EndsAtDone
    PROVE  OutputOf(Output, M, log) /\ \E h : OutputRun(h)
<1>1. /\ L \in Nat /\ Len(log) \in Nat /\ Len(log) > L /\ L = Len(Script)
      /\ \A k \in 1 .. Len(log) : log[k] \in Line /\ log[k].val \in Symbol
    <2>1. Len(log) > L
        BY Zenon DEF EndsAtDone, L
    <2>2. L \in Nat /\ L = Len(Script)
        BY ScriptFacts DEF L
    <2>3. log \in Seq(Line) /\ Len(log) \in Nat
        BY DEF OnRecord
    <2>4. \A k \in 1 .. Len(log) : log[k] \in Line
        BY <2>3
    <2>5. \A e \in Line : e.val \in Symbol
        BY DEF Line
    <2> QED BY <2>1, <2>2, <2>3, <2>4, <2>5
<1>2. PICK m \in Nat : m = M /\ m >= 1 /\ L + m = Len(log)
    BY <1>1 DEF M
<1>3. Output = [k \in 1 .. m |-> log[k + L].val]
    BY <1>1, <1>2 DEF Output, M
<1>4. \A k \in 1 .. m : k + L \in 1 .. Len(log) /\ k + L = L + k
    BY <1>1, <1>2
<1>5. PICK o : o = Output
    OBVIOUS
<1>6. o \in Seq(Symbol) /\ Len(o) = m /\ \A k \in 1 .. m : o[k] = log[L + k].val
    BY <1>1, <1>3, <1>4, <1>5
<1>7. \A k \in 1 .. m : o[k] # NUL
    <2>1. NUL \notin Range(o)
        BY <1>5, Zenon DEF EndsAtDone
    <2>2. DOMAIN o = 1 .. m
        BY <1>6
    <2> QED BY <2>1, <2>2, Zenon DEF Range
<1>8. PICK h : Follows(h, Fresh, o, m) /\ done(Fresh, o) = [h[m] EXCEPT !.stop = FALSE]
    BY <1>6, DoneIsRun
<1>9. Fresh \in Alert /\ \A k \in 0 .. m : h[k] \in Alert
    BY <1>6, <1>8, RunType, StepType
<1>10. h[m].seen
    <2>1. done(Fresh, o).seen
        BY <1>5 DEF EndsAtDone
    <2>2. h[m] \in Recogniser
        BY <1>9 DEF Alert
    <2> QED BY <1>8, <2>1, <2>2 DEF Recogniser
<1>11. ~h[m - 1].seen
    <2>1. PICK n \in Nat : n = m - 1 /\ n + 1 = m
        BY <1>2
    <2>2. PICK p : p = Front(o)
        OBVIOUS
    <2>3. p \in Seq(Symbol) /\ Len(p) = n /\ \A k \in 1 .. n : p[k] = o[k]
        BY <1>6, <2>1, <2>2 DEF Front
    <2>4. PICK g : Follows(g, Fresh, p, n) /\ done(Fresh, p) = [g[n] EXCEPT !.stop = FALSE]
        BY <2>3, DoneIsRun
    <2>5. \A k \in 0 .. n : h[k] = g[k]
        <3>1. n <= m /\ \A k \in 1 .. n : o[k] = p[k]
            BY <2>1, <2>3
        <3> QED BY <1>2, <1>8, <2>1, <2>4, <3>1, RunUnique
    <2>6. h[n] = g[n] /\ h[n] \in Recogniser
        BY <1>9, <2>1, <2>5 DEF Alert
    <2>7. ~done(Fresh, p).seen
        BY <1>5, <2>2 DEF EndsAtDone
    <2> QED BY <2>1, <2>4, <2>6, <2>7 DEF Recogniser
<1>12. ASSUME NEW k \in 0 .. m - 1, h[k].seen PROVE FALSE
    <2>1. k \in 0 .. m /\ m - 1 \in k .. m
        BY <1>2
    <2>2. h[m - 1] = h[k]
        BY <1>6, <1>8, <1>9, <1>12, <2>1, Sticky
    <2> QED BY <1>11, <1>12, <2>2
<1>13. \A k \in 0 .. m : ~h[k].stop
    <2> DEFINE S == {n \in Nat : n <= m => ~h[n].stop}
    <2>1. 0 \in S
        BY <1>8 DEF Follows, Fresh
    <2>2. ASSUME NEW n \in Nat, n \in S PROVE n + 1 \in S
        <3> SUFFICES ASSUME n + 1 <= m PROVE ~h[n + 1].stop
            OBVIOUS
        <3>1. n + 1 \in 1 .. m /\ (n + 1) - 1 = n /\ n \in 0 .. m /\ ~h[n].stop
            BY <2>2
        <3>2. PICK c \in Symbol : c = o[n + 1] /\ c # NUL
            BY <1>6, <1>7, <3>1
        <3>3. h[n + 1] = Step[h[n]][c] /\ h[n] \in Alert
            BY <1>8, <1>9, <3>1, <3>2 DEF Follows
        <3> QED BY <3>1, <3>2, <3>3, StepType
    <2>3. Nat \subseteq S
        <3> HIDE DEF S
        <3> QED BY <2>1, <2>2, Induction
    <2> QED BY <2>3
<1>14. OutputRun(h)
    BY <1>2, <1>5, <1>8, <1>9, <1>10, <1>12, <1>13 DEF OutputRun
<1>15. OutputOf(Output, M, log)
    BY <1>2, <1>5, <1>6, <1>7 DEF OutputOf
<1> QED BY <1>14, <1>15

(* The next piece of it, whatever its length. *)
Within(h, o, m, r, e, p, n) ==
    /\ Follows(h, Fresh, o, m) /\ \A k \in 0 .. m : h[k] \in Alert /\ ~h[k].stop
    /\ r = h[e] /\ n = Len(p) /\ e + n <= m /\ \A j \in 1 .. n : p[j] = o[e + j]
LEMMA PieceOfRun ==
    ASSUME NEW h, NEW o \in Seq(Symbol), NEW m \in Nat, NEW r, NEW e \in Nat,
           NEW p \in Seq(Symbol), NEW n \in Nat, Within(h, o, m, r, e, p, n)
    PROVE  done(r, p) = h[e + n]
<1>1. /\ r = h[e] /\ n = Len(p) /\ e + n <= m /\ \A j \in 1 .. n : p[j] = o[e + j]
      /\ Follows(h, Fresh, o, m) /\ \A k \in 0 .. m : h[k] \in Alert /\ ~h[k].stop
    BY DEF Within
<1>2. PICK g : Follows(g, r, p, n) /\ done(r, p) = [g[n] EXCEPT !.stop = FALSE]
    <2>1. PICK g : /\ Follows(g, r, p, Len(p))
                   /\ done(r, p) = [g[Len(p)] EXCEPT !.stop = FALSE]
        BY DoneIsRun
    <2> QED BY <1>1, <2>1
<1>3. PICK f : f = [k \in 0 .. n |-> h[e + k]]
    OBVIOUS
<1>4. Follows(f, r, p, n)
    <2>1. f[0] = r
        BY <1>1, <1>3
    <2>2. ASSUME NEW k \in 1 .. n PROVE f[k] = Step[f[k - 1]][p[k]]
        <3>1. e + k \in 1 .. m /\ (e + k) - 1 = e + (k - 1) /\ k - 1 \in 0 .. n
            BY <1>1
        <3>2. h[e + k] = Step[h[(e + k) - 1]][o[e + k]]
            BY <1>1, <3>1 DEF Follows
        <3>3. f[k] = h[e + k] /\ f[k - 1] = h[(e + k) - 1] /\ p[k] = o[e + k]
            BY <1>1, <1>3, <3>1
        <3> QED BY <3>2, <3>3
    <2> QED BY <2>1, <2>2 DEF Follows
<1>5. g[n] = h[e + n]
    <2>1. Follows(g, r, p, n)
        BY <1>2
    <2>2. n <= n /\ n \in 0 .. n /\ \A k \in 1 .. n : p[k] = p[k]
        OBVIOUS
    <2>3. \A k \in 0 .. n : g[k] = f[k]
        BY <1>4, <2>1, <2>2, RunUnique
    <2> QED BY <1>3, <2>2, <2>3
<1>6. h[e + n] \in Alert /\ ~h[e + n].stop
    BY <1>1
<1>7. [h[e + n] EXCEPT !.stop = FALSE] = h[e + n]
    BY <1>6, StopUnset
<1> QED BY <1>2, <1>5, <1>7

LEMMA PrintedWhole ==
    ASSUME NEW p \in Seq(Symbol), \A j \in 1 .. Len(p) : p[j] # NUL
    PROVE  Printed(p) \in Seq(Symbol) /\ Len(Printed(p)) = Len(p)
<1>1. PICK t : t = Printed(p) /\ PrintedOf(t, p)
    BY PrintedFacts
<1>2. Len(t) \in Nat /\ Len(p) \in Nat /\ Len(t) <= Len(p) /\ t \in Seq(Symbol)
    BY <1>1 DEF PrintedOf
<1>3. Len(t) < Len(p) => Len(t) + 1 \in 1 .. Len(p)
    BY <1>2
<1>4. ~(Len(t) < Len(p))
    BY <1>1, <1>3 DEF PrintedOf
<1> QED BY <1>1, <1>2, <1>4

Faithful == child.kind = "checks" /\ EndsAtDone /\ (child.resets => tool.bad = -1)

(* As long as no word was changed, the echo has read a part of the output    *)
(* that does not end it, and the rest is on its way; when it ends, the tool  *)
(* is through.                                                               *)
EchoedOf(l, n, e, in, r, h) ==
    /\ n = L + 1 + e + Len(in)
    /\ \A j \in 1 .. Len(in) : in[j] = l[L + e + j].val
    /\ r = h[e] /\ ~r.seen
EchoSync ==
    \A h : OutputRun(h) => EchoedOf(log, tool.n, Len(child.echoed), toChild, child.rec, h)
EndInv ==
    /\ ~child.reset
    /\ child.pc = "boot" => child.rec = Fresh /\ child.echoed = <<>>
    /\ child.pc = "echo" => EchoSync
    /\ Dead => tool.n > Len(log) /\ toTool = <<>> /\ child.pc = "exited" /\ child.status = 0

(* Once a word was changed, the program has nothing to do but to read up to  *)
(* it and to give up.                                                        *)
Refuses(i, b, n, in) ==
    /\ i <= b + 1 /\ b + 1 <= L /\ b + 1 < n
    /\ \A k \in i .. b + 1 : Script[k].op = "READ32"
    /\ Len(in) >= b + 2 - i
    /\ \A j \in 1 .. b + 1 - i : in[j] = Script[i + j - 1].val
    /\ in[b + 2 - i] = Bogus
Refused ==
    /\ ~child.reset /\ toTool = <<>>
    /\ \/ child.pc = "boot" /\ Refuses(child.i, tool.bad, tool.n, toChild)
       \/ child.pc = "exited" /\ child.status = 1

Passing ==
    /\ tool.pc \notin {"exit1", "killed"}
    /\ InStep => EndInv
    /\ tool.pc = "wait" => child.pc = "exited" /\ child.status = 0
    /\ (tool.pc \in {"op", "error"} /\ tool.can) => Refused
FaithInv == Faithful => Passing

LEMMA OutputKept ==
    ASSUME log' = log, NEW h
    PROVE  OutputRun(h)' <=> OutputRun(h)
<1>1. Output' = Output /\ M' = M
    BY DEF Output, M
<1> QED BY <1>1 DEF OutputRun

(* The program in step. *)
LEMMA EndExpect ==
    ASSUME Base, IsRecording, SyncInv, InStep, EndInv, expect
    PROVE  EndInv'
<1>0. Stepped
    BY StepFacts
<1>1. /\ child \in ChildType /\ L \in Nat /\ child.i \in 1 .. L /\ child.pc = "boot"
      /\ child.rec = Fresh /\ child.echoed = <<>> /\ ~child.reset
      /\ tool' = tool /\ log' = log /\ toTool' = toTool /\ toChild \in Seq(Symbol)
      /\ toChild # <<>>
    BY <1>0 DEF Stepped, expect, At, EndInv
<1>2. /\ child' = [child EXCEPT !.i = child.i + 1, !.pc = Advance] /\ toChild' = Tail(toChild)
      /\ Behind
    BY ExpectSync
<1>3. Advance \in {"boot", "echo"} /\ (Advance = "echo" => child.i = L)
    BY DEF Advance, L
<1>4. /\ child'.pc = Advance /\ child'.rec = Fresh /\ child'.echoed = <<>>
      /\ child'.reset = child.reset /\ child'.status = child.status
    BY <1>1, <1>2 DEF ChildType
<1>5. ASSUME Advance = "echo" PROVE EchoSync'
    <2> SUFFICES ASSUME NEW h, OutputRun(h)'
                 PROVE  EchoedOf(log, tool.n, 0, toChild', Fresh, h)
        <3>1. Len(child'.echoed) = 0
            BY <1>4
        <3> QED BY <1>1, <1>4, <3>1 DEF EchoSync
    <2>1. OutputRun(h)
        BY <1>1, OutputKept
    <2>2. h[0] = Fresh
        BY <2>1 DEF OutputRun, Follows
    <2>3. ~Fresh.seen
        BY DEF Fresh
    <2>4. PICK m \in Nat : /\ m = Len(toChild) /\ m = tool.n - L /\ m >= 1
                           /\ \A j \in 1 .. m : toChild[j] = log[L + j - 1].val
        <3>1. Len(toChild) \in Nat /\ Len(toChild) # 0
            BY <1>1, EmptySeq
        <3> QED BY <1>2, <1>3, <1>5, <3>1 DEF Behind, BehindOf
    <2>5. PICK t : t = toChild' /\ Dropped(t, toChild, 1, m)
        <3>1. 0 \in Nat /\ 0 <= m /\ m # 0 /\ m \in Nat /\ m = Len(toChild)
            BY <2>4
        <3>2. Dropped(Tail(toChild), toChild, 1, m)
            BY <1>1, <3>1, DropFacts
        <3> QED BY <1>2, <3>2
    <2>6. Len(t) = m - 1 /\ \A j \in 1 .. m - 1 : t[j] = log[L + 0 + j].val
        <3>1. \A j \in 1 .. m - 1 : j + 1 \in 1 .. m /\ L + (j + 1) - 1 = L + 0 + j
            BY <1>1, <2>4
        <3> QED BY <2>4, <2>5, <3>1 DEF Dropped
    <2>7. tool.n = L + 1 + 0 + (m - 1)
        <3>1. tool.n \in Nat
            BY <1>0 DEF Stepped
        <3>2. m = tool.n - L /\ L \in Nat
            BY <1>1, <2>4
        <3>3. PICK n \in Nat, l \in Nat : n = tool.n /\ l = L
            BY <3>1, <3>2
        <3>4. n = l + 1 + 0 + (m - 1)
            BY <3>2, <3>3
        <3> QED BY <3>3, <3>4
    <2> QED BY <2>2, <2>3, <2>5, <2>6, <2>7 DEF EchoedOf
<1>6. ~Dead'
    BY <1>3, <1>4 DEF Dead
<1> QED BY <1>1, <1>4, <1>5, <1>6 DEF EndInv

LEMMA EndEcho ==
    ASSUME Base, IsRecording, SyncInv, InStep, EndInv, EndsAtDone, echo
    PROVE  EndInv'
<1>0. Stepped
    BY StepFacts
<1>1. /\ child \in ChildType /\ L \in Nat /\ child.pc = "echo" /\ EchoSync /\ ~child.reset
      /\ child.rec \in Alert /\ child.echoed \in Seq(Symbol) /\ child.status = 0
      /\ tool' = tool /\ log' = log /\ toTool' = toTool /\ toTool = <<>>
      /\ toChild \in Seq(Symbol) /\ toChild' = <<>>
    BY <1>0 DEF Stepped, echo, EndInv, ChildType, SyncInv, Base, BlameInv
<1>2. PICK e \in Nat, K \in Nat, m \in Nat : e = Len(child.echoed) /\ K = Len(toChild) /\ m = M
    <2>1. Len(log) \in Nat /\ Len(log) >= L
        BY <1>0 DEF Stepped
    <2>2. M \in Nat
        BY <1>1, <2>1 DEF M
    <2>3. Len(child.echoed) \in Nat /\ Len(toChild) \in Nat
        BY <1>1
    <2> QED BY <2>2, <2>3
<1>3. PICK o : o = Output /\ OutputOf(o, m, log)
    BY <1>0, <1>2, OutputFacts DEF Stepped
<1>4. PICK p : p = Printed(toChild)
    OBVIOUS
<1>5. PICK r : r = done(child.rec, toChild)
    OBVIOUS
<1>6. PICK a : a = IF r.seen THEN "exited" ELSE "echo"
    OBVIOUS
<1>7. child' = [child EXCEPT !.rec = r, !.echoed = child.echoed \o p, !.pc = a]
    BY <1>4, <1>5, <1>6 DEF echo
<1>8. /\ child'.rec = r /\ child'.echoed = child.echoed \o p /\ child'.pc = a
      /\ child'.reset = child.reset /\ child'.status = child.status
    BY <1>1, <1>7 DEF ChildType
<1>9. /\ tool.n = L + 1 + e + K /\ e + K <= m /\ L + m = Len(log)
      /\ \A j \in 1 .. K : toChild[j] = o[e + j] /\ toChild[j] # NUL
    <2>1. PICK h : OutputRun(h)
        BY <1>0, OutputFacts DEF Stepped
    <2>2. EchoedOf(log, tool.n, e, toChild, child.rec, h)
        BY <1>1, <1>2, <2>1 DEF EchoSync
    <2>3. tool.n = L + 1 + e + K /\ \A j \in 1 .. K : toChild[j] = log[L + e + j].val
        BY <1>2, <2>2 DEF EchoedOf
    <2>4. tool.n <= Len(log) + 1 /\ Len(log) \in Nat /\ Len(log) = L + m
        BY <1>0, <1>1, <1>2 DEF Stepped, M
    <2>5. e + K <= m
        BY <1>1, <2>3, <2>4
    <2>6. \A j \in 1 .. K : e + j \in 1 .. m /\ L + (e + j) = L + e + j
        BY <1>1, <2>5
    <2>7. \A j \in 1 .. K : toChild[j] = o[e + j] /\ toChild[j] # NUL
        BY <1>3, <2>3, <2>6 DEF OutputOf
    <2> QED BY <2>3, <2>4, <2>5, <2>7
<1>10. ASSUME NEW h, OutputRun(h)
       PROVE  r = h[e + K] /\ (r.seen <=> e + K = m)
    <2>1. /\ Follows(h, Fresh, o, m) /\ \A k \in 0 .. m : h[k] \in Alert /\ ~h[k].stop
          /\ h[m].seen /\ \A k \in 0 .. m - 1 : ~h[k].seen
        BY <1>2, <1>3, <1>10 DEF OutputRun
    <2>2. child.rec = h[e]
        BY <1>1, <1>2, <1>10 DEF EchoSync, EchoedOf
    <2>3. done(child.rec, toChild) = h[e + K]
        <3>1. o \in Seq(Symbol) /\ K = Len(toChild) /\ e + K <= m
              /\ \A j \in 1 .. K : toChild[j] = o[e + j]
            BY <1>2, <1>3, <1>9 DEF OutputOf
        <3>2. toChild \in Seq(Symbol) /\ e \in Nat /\ K \in Nat /\ m \in Nat
            BY <1>1, <1>2
        <3>3. PICK s, p0 : s = child.rec /\ p0 = toChild
            OBVIOUS
        <3>4. Within(h, o, m, s, e, p0, K)
            BY <2>1, <2>2, <3>1, <3>3 DEF Within
        <3>5. done(s, p0) = h[e + K]
            <4>1. o \in Seq(Symbol) /\ p0 \in Seq(Symbol)
                BY <3>1, <3>2, <3>3
            <4> QED BY <3>4, <4>1, PieceOfRun
        <3> QED BY <3>3, <3>5
    <2>4. e + K # m => e + K \in 0 .. m - 1
        BY <1>9
    <2> QED BY <1>5, <2>1, <2>2, <2>3, <2>4
<1>11. child'.echoed \in Seq(Symbol) /\ Len(child'.echoed) = e + K
    <2>1. p \in Seq(Symbol) /\ Len(p) = K
        BY <1>1, <1>2, <1>4, <1>9, PrintedWhole
    <2>2. PICK c \in Seq(Symbol) : c = child.echoed /\ Len(c) = e
        BY <1>1, <1>2
    <2>3. c \o p \in Seq(Symbol) /\ Len(c \o p) = e + K
        BY <2>1, <2>2, ConcatProperties
    <2> QED BY <1>8, <2>2, <2>3
<1>12. PICK h : OutputRun(h)
    BY <1>0, OutputFacts DEF Stepped
<1>13. CASE e + K = m
    <2>1. a = "exited"
        BY <1>6, <1>10, <1>12, <1>13
    <2>2. tool.n > Len(log)
        BY <1>1, <1>9, <1>13
    <2> QED BY <1>1, <1>8, <2>1, <2>2 DEF EndInv
<1>14. CASE e + K # m
    <2>1. a = "echo" /\ ~r.seen
        BY <1>6, <1>10, <1>12, <1>14
    <2>2. EchoSync'
        <3> SUFFICES ASSUME NEW g, OutputRun(g)'
                     PROVE  EchoedOf(log, tool.n, e + K, toChild', r, g)
            BY <1>1, <1>8, <1>11 DEF EchoSync
        <3>1. OutputRun(g)
            BY <1>1, OutputKept
        <3>2. Len(toChild') = 0
            BY <1>1
        <3>3. r = g[e + K]
            BY <1>10, <3>1
        <3>4. tool.n = L + 1 + (e + K) + 0
            BY <1>1, <1>9
        <3> QED BY <2>1, <3>2, <3>3, <3>4 DEF EchoedOf
    <2> QED BY <1>1, <1>8, <2>1, <2>2 DEF EndInv, Dead
<1> QED BY <1>13, <1>14

(* The tool in step: what it writes next is right, or is the changed word.   *)
LEMMA EndWrite ==
    ASSUME Base, IsRecording, SyncInv, InStep, EndInv, write_exact
    PROVE  tool'.pc = "op" /\ (InStep' => EndInv') /\ (tool'.can => Refused')
<1>0. Stepped
    BY StepFacts
<1>1. /\ L \in Nat /\ tool \in ToolType /\ child \in ChildType /\ tool.n \in 1 .. Len(log)
      /\ tool.pc = "op" /\ ~tool.can /\ log[tool.n].op # "WRITE32" /\ log[tool.n].val \in Symbol
      /\ log' = log /\ child' = child /\ toTool' = toTool /\ toChild \in Seq(Symbol)
      /\ log[tool.n].cnt = tool.n - 1 /\ Len(log) \in Nat /\ Len(log) >= L /\ ChildInv
    <2>1. tool.n \in 1 .. Len(log)
        BY <1>0 DEF write_exact, InLog, Stepped
    <2>2. log[tool.n].op # "WRITE32" /\ log[tool.n].val \in Symbol
        BY <2>1, EntryFacts DEF write_exact, Entry, Base
    <2> QED BY <1>0, <2>1, <2>2 DEF Stepped, write_exact, OnRecord, InStep
<1>2. child.pc \in {"boot", "echo"} /\ ~child.reset
    <2>1. ~Dead
        BY <1>1 DEF EndInv
    <2>2. child.pc # "none"
        BY <1>1 DEF ChildInv
    <2> QED BY <1>1, <2>1, <2>2 DEF ChildType, Dead, EndInv
<1>3. toChild' = Append(toChild, Value) /\ tool' = NextOp
    BY <1>2, WriteSync
<1>4. /\ tool'.pc = "op" /\ tool'.n = tool.n + 1 /\ tool'.bad = tool.bad
    BY <1>1, <1>3 DEF NextOp, ToolType
<1>5. tool'.can <=> Corrupted
    <2>1. tool'.can = CanFail
        BY <1>1, <1>3, Zenon DEF NextOp, ToolType
    <2> QED BY <1>1, <2>1, Zenon DEF CanFail
<1>6. PICK m \in Nat : m = Len(toChild)
    BY <1>1
<1>7. Value \in Symbol
    BY <1>1, EntryFacts DEF Base
<1>8. PICK v, t : v \in Symbol /\ v = Value /\ t = toChild' /\ Added(t, toChild, v, m)
    <2>1. Added(Append(toChild, Value), toChild, Value, m)
        BY <1>1, <1>6, <1>7, AppendFacts
    <2> QED BY <1>3, <1>7, <2>1
<1>9. Len(t) = m + 1 /\ t[m + 1] = v /\ \A j \in 1 .. m : t[j] = toChild[j]
    BY <1>8 DEF Added
<1>10. ASSUME InStep' PROVE EndInv'
    <2>1. v = log[tool.n].val
        BY <1>5, <1>8, <1>10 DEF InStep, Value, Entry
    <2>2. ASSUME child.pc = "echo" PROVE EchoSync'
        <3> SUFFICES ASSUME NEW h, OutputRun(h)'
                     PROVE  EchoedOf(log, tool.n + 1, Len(child.echoed), t, child.rec, h)
            BY <1>1, <1>4, <1>8 DEF EchoSync
        <3>1. OutputRun(h)
            BY <1>1, OutputKept
        <3>2. EchoedOf(log, tool.n, Len(child.echoed), toChild, child.rec, h)
            BY <2>2, <3>1 DEF EndInv, EchoSync
        <3>3. PICK e \in Nat, n \in Nat : e = Len(child.echoed) /\ n = tool.n
            <4>1. child.echoed \in Seq(Symbol) /\ tool.n \in Nat
                BY <1>1 DEF ChildType, ToolType
            <4> QED BY <4>1
        <3>4. /\ n = L + 1 + e + m /\ \A j \in 1 .. m : toChild[j] = log[L + e + j].val
              /\ child.rec = h[e] /\ ~child.rec.seen
            BY <1>6, <3>2, <3>3 DEF EchoedOf
        <3>5. n + 1 = L + 1 + e + (m + 1) /\ L + e + (m + 1) = n
            BY <1>1, <3>4
        <3>6. \A j \in 1 .. m + 1 : t[j] = log[L + e + j].val
            <4> TAKE j \in 1 .. m + 1
            <4>1. CASE j = m + 1
                BY <1>9, <2>1, <3>3, <3>5, <4>1
            <4>2. CASE j \in 1 .. m
                BY <1>9, <3>4, <4>2
            <4> QED BY <4>1, <4>2
        <3> QED BY <1>9, <3>3, <3>4, <3>5, <3>6 DEF EchoedOf
    <2>3. /\ child'.pc = child.pc /\ child'.rec = child.rec /\ child'.echoed = child.echoed
          /\ child'.reset = child.reset
        BY <1>1
    <2>4. ~Dead'
        BY <1>2, <2>3 DEF Dead
    <2>5. child.pc = "boot" => child.rec = Fresh /\ child.echoed = <<>>
        BY DEF EndInv
    <2> QED BY <1>2, <2>2, <2>3, <2>4, <2>5 DEF EndInv
<1>11. ASSUME tool'.can PROVE Refused'
    <2>1. Corrupted /\ v = Bogus /\ tool.bad = tool.n - 1
        BY <1>1, <1>5, <1>8, <1>11 DEF Value, Corrupted, Entry
    <2>2. log[tool.n].op = "READ32" /\ tool.n <= L
        <3>1. tool.bad \in ProtocolReads
            <4>1. tool.bad # -1 /\ tool.round \in 1 .. 2 * N /\ N \in Nat
                BY <1>1, <2>1, Constants DEF ToolType
            <4>2. tool.round \in Nat
                BY <4>1
            <4> QED BY <4>1, <4>2 DEF Base, CoverInv
        <3>2. PICK j \in DOMAIN log : log[j].cnt = tool.bad /\ log[j].op = "READ32"
            BY <3>1 DEF ProtocolReads
        <3>3. j \in 1 .. Len(log) /\ log[j].cnt = j - 1
            BY <1>0, <3>2, LineCount DEF Stepped
        <3>4. j = tool.n
            BY <1>1, <2>1, <3>2, <3>3
        <3> QED BY <1>0, <1>1, <3>2, <3>4 DEF Stepped, OnRecord
    <2>3. child.pc = "boot"
        BY <1>1, <1>2, <2>2 DEF SyncInv
    <2>4. Ready(log, tool.n, child.i, child.sent, tool.got, toChild, toTool)
        BY <1>2, <2>3, WriteSync
    <2>5. PICK i \in Nat, n \in Nat : i = child.i /\ n = tool.n /\ i >= 1 /\ n <= L /\ n >= 1
        BY <1>0, <1>1, <2>2 DEF Stepped
    <2>6. /\ toTool = <<>> /\ i <= n /\ m = n - i
          /\ \A k \in i .. n : log[k].op # "WRITE32"
          /\ \A j \in 1 .. n - i : toChild[j] = log[i + j - 1].val
        BY <1>6, <2>4, <2>5 DEF Ready
    <2>7. PICK b : b = tool.bad /\ b = n - 1 /\ b + 1 = n /\ b + 2 - i = m + 1
                   /\ b + 1 - i = m /\ m <= n - i
        BY <2>1, <2>5, <2>6
    <2>8. \A k \in i .. n : Script[k].op = "READ32"
        <3> TAKE k \in i .. n
        <3>1. k \in 1 .. L
            BY <1>1, <2>5
        <3>2. log[k].op = Script[k].op /\ Script[k].op \in {"READ32", "WRITE32"}
            BY <1>0, <3>1, ScriptFacts DEF Stepped, OnRecord, Op
        <3> QED BY <2>6, <3>2
    <2>9. \A j \in 1 .. m : t[j] = Script[i + j - 1].val
        <3> TAKE j \in 1 .. m
        <3>1. i + j - 1 \in 1 .. L /\ j \in 1 .. n - i
            <4>1. L \in Nat /\ m = n - i /\ i <= n /\ i >= 1 /\ n <= L
                BY <1>0, <2>5, <2>6 DEF Stepped
            <4> QED BY <2>5, <4>1
        <3>2. log[i + j - 1].val = Script[i + j - 1].val
            BY <1>0, <3>1 DEF Stepped, OnRecord
        <3> QED BY <1>9, <2>6, <3>1, <3>2
    <2>10. Refuses(i, b, n + 1, t)
        <3>1. i <= b + 1 /\ b + 1 <= L /\ b + 1 < n + 1
            <4>1. i <= n /\ n <= L /\ n < n + 1
                BY <1>1, <2>5, <2>6
            <4> QED BY <2>7, <4>1
        <3>2. Len(t) >= b + 2 - i /\ t[b + 2 - i] = Bogus
            BY <1>9, <2>1, <2>7
        <3> QED BY <2>7, <2>8, <2>9, <3>1, <3>2 DEF Refuses
    <2> QED BY <1>1, <1>2, <1>4, <1>8, <2>3, <2>5, <2>6, <2>7, <2>10 DEF Refused
<1> QED BY <1>4, <1>10, <1>11

LEMMA EndRead ==
    ASSUME Base, IsRecording, SyncInv, InStep, EndInv,
           read_exact \/ ReadEOF \/ ReadTimeout
    PROVE  tool'.pc = "op" /\ InStep' /\ EndInv'
<1>0. Stepped
    BY StepFacts
<1>1. /\ tool.n \in 1 .. Len(log) /\ log[tool.n].op = "WRITE32" /\ log[tool.n].cnt = tool.n - 1
      /\ UNCHANGED <<log, child, toChild>> /\ tool \in ToolType /\ ~tool.can
    <2>1. Reading /\ UNCHANGED <<log, child, toChild>>
        BY DEF read_exact, ReadEOF, ReadTimeout
    <2>2. tool.n <= Len(log) /\ log[tool.n].op = "WRITE32"
        BY <2>1 DEF Reading, InLog, Entry
    <2>3. /\ tool \in ToolType /\ tool.n \in 1 .. Len(log) + 1 /\ Len(log) \in Nat
          /\ \A k \in 1 .. Len(log) : log[k].cnt = k - 1
        BY <1>0 DEF Stepped, OnRecord
    <2>4. tool.n \in 1 .. Len(log)
        BY <2>2, <2>3
    <2>5. ~tool.can
        BY DEF InStep
    <2> QED BY <2>1, <2>2, <2>3, <2>4, <2>5
<1>2. ~Dead
    BY <1>1 DEF EndInv
<1>3. child.pc \in {"boot", "echo"}
    BY <1>0, <1>2 DEF Stepped, ChildInv, InStep, ChildType, Dead
<1>4. read_exact
    BY <1>2, NoTimeout DEF ReadEOF
<1>5. tool'.pc = "op" /\ tool.n <= L /\ (tool'.can => CanFail)
    BY <1>3, <1>4, ReadSync
<1>6. ~Corrupted
    <2> SUFFICES ASSUME tool.bad = tool.n - 1 PROVE FALSE
        BY <1>1 DEF Corrupted, Entry
    <2>1. tool.bad \in ProtocolReads
        <3>1. tool.bad # -1 /\ tool.round \in 1 .. 2 * N /\ N \in Nat
            BY <1>1, Constants DEF ToolType
        <3>2. tool.round \in Nat
            BY <3>1
        <3> QED BY <3>1, <3>2 DEF Base, CoverInv
    <2>2. PICK j \in DOMAIN log : log[j].cnt = tool.bad /\ log[j].op = "READ32"
        BY <2>1 DEF ProtocolReads
    <2>3. j \in 1 .. Len(log) /\ log[j].cnt = j - 1
        BY <1>0, <2>2, LineCount DEF Stepped
    <2>4. j = tool.n
        BY <1>1, <2>2, <2>3
    <2> QED BY <1>1, <2>2, <2>4
<1>7. ~tool'.can
    BY <1>1, <1>5, <1>6, Zenon DEF CanFail
<1>8. child.pc = "boot"
    BY <1>0, <1>3, <1>5 DEF SyncInv, Stepped
<1>9. EndInv'
    BY <1>1, <1>8 DEF EndInv, Dead
<1> QED BY <1>5, <1>7, <1>9 DEF InStep

LEMMA EndEof ==
    ASSUME Base, IsRecording, SyncInv, InStep, EndInv, EndsAtDone, is_eof
    PROVE  tool'.pc = "wait" /\ child'.pc = "exited" /\ child'.status = 0
<1>0. Stepped
    BY StepFacts
<1>1. /\ tool.n > Len(log) /\ Len(log) \in Nat /\ Len(log) >= L /\ L \in Nat /\ ~tool.can
      /\ child' = child /\ tool \in ToolType /\ tool.n = Len(log) + 1
    BY <1>0 DEF Stepped, is_eof, Finished, InStep
<1>2. child.pc = "boot" => Behind /\ toTool = <<>> /\ toChild # <<>>
    <2> SUFFICES ASSUME child.pc = "boot" PROVE Behind /\ toTool = <<>> /\ toChild # <<>>
        OBVIOUS
    <2>1. child.i \in 1 .. L /\ child.i < tool.n /\ tool.n \in Nat
        BY <1>0, <1>1 DEF Stepped
    <2>2. Behind
        BY <2>1 DEF SyncInv, Ahead, AheadOf
    <2>3. Len(toChild) = tool.n - child.i
        BY <2>2 DEF Behind, BehindOf
    <2>4. Len(toChild) # 0
        BY <2>1, <2>3
    <2> QED BY <2>2, <2>4 DEF Behind, BehindOf
<1>3. child.pc = "echo" => toTool = <<>> /\ toChild # <<>>
    <2> SUFFICES ASSUME child.pc = "echo", toChild = <<>> PROVE FALSE
        BY DEF SyncInv
    <2>1. PICK h : OutputRun(h)
        BY <1>0, OutputFacts DEF Stepped
    <2>2. EchoedOf(log, tool.n, Len(child.echoed), toChild, child.rec, h)
        BY <2>1 DEF EndInv, EchoSync
    <2>3. PICK e \in Nat : e = Len(child.echoed)
        BY <1>0 DEF Stepped, ChildType
    <2>4. tool.n = L + 1 + e + 0 /\ child.rec = h[e] /\ ~child.rec.seen
        BY <2>2, <2>3 DEF EchoedOf
    <2>5. e = M
        BY <1>1, <2>4 DEF M
    <2> QED BY <2>1, <2>4, <2>5 DEF OutputRun
<1>4. Dead => toTool = <<>> /\ child.pc = "exited" /\ child.status = 0 /\ ~child.reset
    BY DEF EndInv
<1>5. child.pc \in {"boot", "echo"} \/ Dead
    BY <1>0 DEF Stepped, ChildInv, InStep, ChildType, Dead
<1>6. toTool = <<>> /\ ~Blocked
    BY <1>2, <1>3, <1>4, <1>5 DEF Blocked, Running, Dead
<1>7. tool' = [tool EXCEPT !.pc = "wait"] /\ Dead
    BY <1>1, <1>4, <1>6 DEF is_eof
<1> QED BY <1>1, <1>4, <1>7 DEF ToolType

(* The program after a word was changed. *)
LEMMA RefusesRead ==
    ASSUME NEW i \in 1 .. L, NEW b \in Int, NEW n \in Nat, NEW in \in Seq(Symbol),
           Refuses(i, b, n, in)
    PROVE  /\ i = b + 1 => Head(in) = Bogus
           /\ i # b + 1 => /\ Head(in) = Script[i].val /\ i < L
                           /\ Refuses(i + 1, b, n, Tail(in))
<1>1. PICK m \in Nat : m = Len(in) /\ m >= b + 2 - i /\ i <= b + 1 /\ b + 1 <= L /\ L \in Nat
    BY ScriptFacts DEF Refuses
<1>2. m # 0 /\ 0 \in Nat /\ 0 <= m
    BY <1>1
<1>3. Head(in) = in[1] /\ Dropped(Tail(in), in, 1, m)
    BY <1>1, <1>2, DropFacts
<1>4. ASSUME i = b + 1 PROVE Head(in) = Bogus
    <2>1. b + 2 - i = 1
        BY <1>1, <1>4
    <2> QED BY <1>3, <2>1 DEF Refuses
<1>5. ASSUME i # b + 1
      PROVE  Head(in) = Script[i].val /\ i < L /\ Refuses(i + 1, b, n, Tail(in))
    <2>1. /\ 1 \in 1 .. b + 1 - i /\ i + 1 - 1 = i /\ i + 1 <= b + 1 /\ i < L
        BY <1>1, <1>5
    <2>2. in[1] = Script[i].val
        BY <2>1 DEF Refuses
    <2>3. PICK t : t = Tail(in) /\ Len(t) = m - 1 /\ \A j \in 1 .. m - 1 : t[j] = in[j + 1]
        BY <1>3 DEF Dropped
    <2>4. /\ b + 2 - (i + 1) \in 1 .. m - 1 /\ (b + 2 - (i + 1)) + 1 = b + 2 - i
          /\ m - 1 >= b + 2 - (i + 1)
        BY <1>1, <2>1
    <2>5. t[b + 2 - (i + 1)] = Bogus
        BY <2>3, <2>4 DEF Refuses
    <2>6. ASSUME NEW j \in 1 .. b + 1 - (i + 1)
          PROVE  t[j] = Script[(i + 1) + j - 1].val
        <3>1. j \in 1 .. m - 1 /\ j + 1 \in 1 .. b + 1 - i /\ i + (j + 1) - 1 = (i + 1) + j - 1
            BY <1>1, <2>1
        <3>2. in[j + 1] = Script[i + (j + 1) - 1].val
            BY <3>1 DEF Refuses
        <3> QED BY <2>3, <3>1, <3>2
    <2>7. \A k \in i + 1 .. b + 1 : Script[k].op = "READ32"
        BY <1>1 DEF Refuses
    <2>8. b + 1 < n
        BY DEF Refuses
    <2>9. Refuses(i + 1, b, n, t)
        BY <1>1, <2>1, <2>3, <2>4, <2>5, <2>6, <2>7, <2>8 DEF Refuses
    <2> QED BY <1>3, <2>1, <2>2, <2>3, <2>9
<1> QED BY <1>4, <1>5

LEMMA RefusedChild ==
    ASSUME Base, child.kind = "checks", ~child.resets, tool.pc \in {"op", "error"}, Refused,
           Child \/ quit
    PROVE  Refused' /\ tool' = tool
<1>1. /\ tool' = tool /\ child \in ChildType /\ tool.bad \in Int /\ tool.n \in Nat
      /\ toChild \in Seq(Symbol) /\ ChildInv /\ L \in Nat /\ child.reset = FALSE
    <2>1. tool' = tool
        BY DEF Child, put_uint, expect, echo, LosesTool, quit
    <2>2. child.reset \in BOOLEAN /\ ~child.reset
        BY DEF Base, TypeInv, ChildType, Refused
    <2> QED BY <2>1, <2>2, ScriptFacts DEF Base, TypeInv, ToolType
<1>2. ~HungUp /\ ~quit
    BY DEF HungUp, quit
<1>3. child.pc = "boot" /\ Refuses(child.i, tool.bad, tool.n, toChild)
    <2> SUFFICES ASSUME child.pc = "exited" PROVE FALSE
        BY DEF Refused
    <2> QED BY <1>2 DEF Child, put_uint, expect, echo, LosesTool, At
<1>4. child.i \in 1 .. L /\ Script[child.i].op = "READ32"
    <2>1. child.i \in 1 .. L /\ child.i <= tool.bad + 1
        BY <1>1, <1>3 DEF ChildType, ChildInv, Refuses
    <2>2. child.i \in child.i .. tool.bad + 1
        BY <1>1, <2>1
    <2> QED BY <1>3, <2>1, <2>2 DEF Refuses
<1>5. expect /\ toTool' = toTool /\ toTool = <<>>
    <2>1. expect
        BY <1>2, <1>3, <1>4 DEF Child, put_uint, echo, LosesTool, At
    <2> QED BY <2>1 DEF expect, Refused
<1>6. CASE child.i = tool.bad + 1
    <2>1. Head(toChild) # Script[child.i].val
        BY <1>1, <1>3, <1>4, <1>6, RefusesRead, ScriptFacts
    <2>2. Dies("exited", 1, Tail(toChild))
        BY <1>5, <2>1 DEF expect
    <2>3. /\ child'.pc = "exited" /\ child'.status = 1
          /\ child'.reset = (child.resets /\ Tail(toChild) # <<>>)
        BY <1>1, <2>2 DEF Dies, ChildType
    <2>4. ~child'.reset
        BY <2>3, Zenon
    <2> QED BY <1>1, <1>5, <2>3, <2>4 DEF Refused
<1>7. CASE child.i # tool.bad + 1
    <2>1. /\ Head(toChild) = Script[child.i].val /\ child.i < L
          /\ Refuses(child.i + 1, tool.bad, tool.n, Tail(toChild))
        BY <1>1, <1>3, <1>4, <1>7, RefusesRead
    <2>2. child' = [child EXCEPT !.i = child.i + 1, !.pc = Advance] /\ toChild' = Tail(toChild)
        BY <1>5, <2>1 DEF expect
    <2>3. Advance = "boot"
        BY <1>4, <2>1 DEF Advance, L
    <2>4. child'.pc = "boot" /\ child'.i = child.i + 1 /\ child'.reset = child.reset
        BY <1>1, <2>2, <2>3 DEF ChildType
    <2> QED BY <1>1, <1>5, <2>1, <2>2, <2>4 DEF Refused
<1> QED BY <1>1, <1>6, <1>7

LEMMA RefusesLonger ==
    ASSUME NEW i \in Nat, NEW b \in Int, NEW n \in Nat, NEW in \in Seq(Symbol),
           NEW v \in Symbol, i >= 1, Refuses(i, b, n, in)
    PROVE  Refuses(i, b, n + 1, Append(in, v))
<1>1. PICK m \in Nat : m = Len(in)
    OBVIOUS
<1>2. Added(Append(in, v), in, v, m)
    BY <1>1, AppendFacts
<1>3. PICK t : t = Append(in, v) /\ Len(t) = m + 1 /\ \A j \in 1 .. m : t[j] = in[j]
    BY <1>2 DEF Added
<1>4. /\ i <= b + 1 /\ b + 1 <= L /\ b + 1 < n /\ m >= b + 2 - i
      /\ \A k \in i .. b + 1 : Script[k].op = "READ32"
      /\ \A j \in 1 .. b + 1 - i : in[j] = Script[i + j - 1].val
      /\ in[b + 2 - i] = Bogus
    BY <1>1 DEF Refuses
<1>5. /\ b + 1 < n + 1 /\ m + 1 >= b + 2 - i /\ b + 2 - i \in 1 .. m
      /\ \A j \in 1 .. b + 1 - i : j \in 1 .. m
    BY <1>4
<1>6. Refuses(i, b, n + 1, t)
    BY <1>3, <1>4, <1>5 DEF Refuses
<1> QED BY <1>3, <1>6

(* The tool after it has changed a word. *)
LEMMA RefusedTool ==
    ASSUME Base, tool.pc = "op", tool.can, Refused,
           write_exact \/ read_exact \/ ReadEOF \/ ReadTimeout \/ is_eof
    PROVE  tool'.pc \in {"op", "error"} /\ Refused'
<1>1. /\ tool \in ToolType /\ child \in ChildType /\ toChild \in Seq(Symbol) /\ toTool = <<>>
      /\ tool.n \in Nat /\ tool.bad \in Int /\ child' = child
      /\ ~child.reset /\ IgnoresSIGPIPE /\ CanFail
    <2>1. tool.bad # -1 /\ tool.round \in 1 .. 2 * N /\ N \in Nat
        BY Constants DEF Base, ToolInv, TypeInv, ToolType
    <2>2. tool.round > N
        BY <2>1 DEF Base, CoverInv
    <2> QED BY <2>2 DEF Base, TypeInv, ToolType, Refused, IgnoresSIGPIPE, CanFail,
                        write_exact, read_exact, ReadEOF, ReadTimeout, is_eof
<1>2. ~read_exact
    BY <1>1 DEF read_exact
<1>3. ~ReadTimeout
    <2> SUFFICES ASSUME ReadTimeout PROVE FALSE
        OBVIOUS
    <2>1. child.pc = "boot" /\ toChild = <<>> /\ Refuses(child.i, tool.bad, tool.n, toChild)
        BY DEF ReadTimeout, Blocked, Running, Refused
    <2>2. Len(toChild) = 0 /\ child.i \in Nat
        BY <1>1, <2>1, ScriptFacts DEF ChildType
    <2>3. 0 >= tool.bad + 2 - child.i /\ child.i <= tool.bad + 1
        BY <2>1, <2>2 DEF Refuses
    <2> QED BY <1>1, <2>2, <2>3
<1>4. CASE is_eof
    <2>1. tool' = [tool EXCEPT !.pc = "error"] /\ toTool' = toTool /\ toChild' = toChild
        BY <1>4 DEF is_eof
    <2>2. tool'.pc = "error" /\ tool'.n = tool.n /\ tool'.bad = tool.bad
        BY <1>1, <2>1 DEF ToolType
    <2> QED BY <1>1, <2>1, <2>2 DEF Refused
<1>5. CASE write_exact
    <2>1. toTool' = toTool /\ tool' = NextOp
        BY <1>1, <1>5 DEF write_exact
    <2>2. tool'.pc = "op" /\ tool'.n = tool.n + 1 /\ tool'.bad = tool.bad
        BY <1>1, <2>1 DEF NextOp, ToolType
    <2>3. CASE child.pc = "boot"
        <3>1. toChild' = Append(toChild, Value)
            BY <1>5, <2>3 DEF write_exact, Dead
        <3>2. Value \in Symbol
            <4>1. tool.n >= 1 /\ tool.n <= Len(log) /\ Len(log) \in Nat
                BY <1>5 DEF write_exact, InLog, Base, ToolInv, TypeInv
            <4>2. tool.n \in 1 .. Len(log)
                BY <1>1, <4>1
            <4> QED BY <4>2, EntryFacts DEF Base
        <3>3. Refuses(child.i, tool.bad, tool.n, toChild) /\ child.i \in Nat /\ child.i >= 1
            BY <1>1, <2>3, ScriptFacts DEF Refused, ChildType
        <3>4. Refuses(child.i, tool.bad, tool.n + 1, Append(toChild, Value))
            BY <1>1, <3>2, <3>3, RefusesLonger
        <3> QED BY <1>1, <2>1, <2>2, <2>3, <3>1, <3>4 DEF Refused
    <2>4. CASE child.pc # "boot"
        BY <1>1, <2>1, <2>2, <2>4 DEF Refused
    <2> QED BY <2>3, <2>4
<1>6. CASE ReadEOF
    <2>1. child.pc = "exited" /\ child.status = 1
        BY <1>6 DEF Refused, ReadEOF, Dead
    <2>2. Compare(tool.temp) /\ toTool' = toTool
        BY <1>1, <1>6 DEF ReadEOF
    <2>3. tool'.pc \in {"op", "error"}
        BY <1>1, <2>2 DEF Compare, NextOp, ToolType
    <2> QED BY <1>1, <2>1, <2>2, <2>3 DEF Refused
<1> QED BY <1>2, <1>3, <1>4, <1>5, <1>6

LEMMA FaithStep ==
    ASSUME Base, IsRecording, SyncInv, FaithInv, [Next]_vars
    PROVE  FaithInv'
<1> SUFFICES ASSUME Faithful' PROVE Passing'
    BY DEF FaithInv
<1>0. /\ tool \in ToolType /\ child \in ChildType /\ log \in Seq(Line)
      /\ child.resets \in BOOLEAN /\ tool.bad \in Int
    BY ReplayAssumption DEF Base, TypeInv, ToolType, ChildType, ReplayAssumption
<1>1. ASSUME log' = log, tool'.bad = tool.bad, child'.kind = child.kind,
             child'.resets = child.resets
      PROVE  Faithful /\ Passing
    <2>1. EndsAtDone' <=> EndsAtDone
        <3>1. Output' = Output
            BY <1>1 DEF Output
        <3> QED BY <1>1, <3>1 DEF EndsAtDone
    <2> QED BY <1>1, <2>1 DEF Faithful, FaithInv
<1>2. CASE UNCHANGED vars
    <2>1. Passing
        BY <1>1, <1>2 DEF vars
    <2>2. Output' = Output /\ M' = M
        BY <1>2 DEF vars, Output, M
    <2>3. \A h : OutputRun(h)' <=> OutputRun(h)
        BY <2>2 DEF OutputRun
    <2>4. EndInv' <=> EndInv
        BY <1>2, <2>3 DEF vars, EndInv, EchoSync, EchoedOf, Dead
    <2> QED BY <1>2, <2>1, <2>4 DEF vars, Passing, InStep, Refused, Refuses
<1>3. CASE read_input
    <2>1. PICK output \in Seq(Symbol) : trace = Recorded(output)
        BY DEF IsRecording
    <2>2. trace \in Seq(Line)
        BY ReplayAssumption DEF ReplayAssumption, Base, TypeInv
    <2>3. \A k \in 1 .. Len(trace) : trace[k].cnt = k - 1
        BY <2>1, <2>2, RecordedFacts
    <2>4. Len(log) < Len(trace) => trace[Len(log) + 1].cnt = Len(log)
        <3>1. PICK n \in Nat, m \in Nat : n = Len(log) /\ m = Len(trace)
            BY <1>0, <2>2
        <3>2. n < m => n + 1 \in 1 .. m /\ (n + 1) - 1 = n
            OBVIOUS
        <3> QED BY <2>3, <3>1, <3>2
    <2>5. tool' = tool \/ tool' = [tool EXCEPT !.pc = "spawn"]
        BY <1>3, <2>4 DEF read_input
    <2>6. tool'.pc \in {"parse", "spawn"}
        BY <1>0, <1>3, <2>5 DEF ToolType, read_input
    <2> QED BY <2>6 DEF Passing, InStep
<1>4. CASE mk_endpoint_proc
    <2>1. /\ tool'.pc = "op" /\ child'.pc = "boot" /\ child'.rec = Fresh /\ child'.echoed = <<>>
          /\ ~child'.reset /\ ~tool'.can
        BY <1>0, <1>4 DEF mk_endpoint_proc, NoChild, ToolType
    <2>2. EndInv'
        BY <2>1 DEF EndInv, Dead
    <2> QED BY <2>1, <2>2 DEF Passing
<1>5. CASE proc_exit_code
    <2>1. CASE tool' = NextRun
        <3>1. tool'.pc \in {"spawn", "exit0"}
            BY <1>0, <2>1 DEF NextRun, ToolType
        <3> QED BY <3>1 DEF Passing, InStep
    <2>2. CASE ~OK /\ Fails
        <3>1. /\ log' = log /\ child' = child /\ tool'.bad = tool.bad
            BY <1>0, <1>5, <2>2 DEF proc_exit_code, Fails, ToolType
        <3>2. Passing
            BY <1>1, <3>1
        <3>3. tool.pc = "error" => tool.can
            BY DEF Base, ToolInv
        <3>4. /\ tool.pc \in {"wait", "error"} /\ Dead
            BY <1>5 DEF proc_exit_code
        <3>5. \/ tool.pc = "wait" /\ WEXITSTATUS = 0
              \/ tool.pc = "error" /\ WEXITSTATUS = 1
            BY <3>2, <3>3, <3>4 DEF Passing, Refused, WEXITSTATUS, Dead
        <3>6. OK
            BY <3>5 DEF OK
        <3> QED BY <2>2, <3>6
    <2> QED BY <1>5, <2>1, <2>2 DEF proc_exit_code
<1>6. CASE Child \/ quit
    <2>1. tool' = tool /\ log' = log
        BY <1>6 DEF Child, put_uint, expect, echo, LosesTool, quit
    <2>2. child'.kind = child.kind /\ child'.resets = child.resets
        <3>1. CASE put_uint
            BY <1>0, <3>1 DEF put_uint, ChildType
        <3>2. CASE expect
            BY <1>0, <3>2 DEF expect, Dies, ChildType
        <3>3. CASE echo
            BY <1>0, <3>3 DEF echo, ChildType
        <3>4. CASE LosesTool \/ quit
            BY <1>0, <3>4 DEF LosesTool, quit, Dies, ChildType
        <3> QED BY <1>6, <3>1, <3>2, <3>3, <3>4 DEF Child
    <2>3. Faithful /\ Passing
        BY <1>1, <2>1, <2>2
    <2>4. child.kind = "checks" /\ EndsAtDone /\ (child.resets => tool.bad = -1)
        BY <2>3 DEF Faithful
    <2>5. tool.pc \notin {"exit1", "killed"}
        BY <2>3 DEF Passing
    <2>6. CASE InStep
        <3>1. EndInv /\ tool.pc = "op" /\ ~tool.can
            BY <2>3, <2>6 DEF Passing, InStep
        <3>2. EndInv'
            <4>1. CASE put_uint
                <5>1. /\ child'.pc = "boot" /\ child.pc = "boot" /\ child'.rec = child.rec
                      /\ child'.echoed = child.echoed /\ child'.reset = child.reset
                    BY <1>0, <4>1 DEF put_uint, At, ChildType
                <5> QED BY <3>1, <5>1 DEF EndInv, Dead
            <4>2. CASE expect
                BY <2>6, <3>1, <4>2, EndExpect
            <4>3. CASE echo
                BY <2>4, <2>6, <3>1, <4>3, EndEcho
            <4>4. ~LosesTool /\ ~quit
                BY <2>4, <3>1 DEF LosesTool, quit, HungUp
            <4> QED BY <1>6, <4>1, <4>2, <4>3, <4>4 DEF Child
        <3> QED BY <2>1, <3>1, <3>2 DEF Passing
    <2>7. CASE tool.pc \in {"op", "error"} /\ tool.can
        <3>1. Refused /\ tool.bad # -1
            BY <2>3, <2>7 DEF Passing, Base, ToolInv
        <3>2. ~child.resets
            BY <2>4, <3>1
        <3>3. Refused'
            BY <1>6, <2>4, <2>7, <3>1, <3>2, RefusedChild
        <3> QED BY <2>1, <2>7, <3>3 DEF Passing, InStep
    <2>8. CASE tool.pc = "wait"
        <3>1. child.pc = "exited"
            BY <2>3, <2>8 DEF Passing
        <3> QED BY <1>6, <2>4, <3>1
                DEF Child, put_uint, expect, echo, LosesTool, quit, At, Running
    <2>9. CASE tool.pc \in {"parse", "spawn", "exit0"}
        BY <2>1, <2>9 DEF Passing, InStep
    <2>10. tool.pc = "error" => tool.can
        BY DEF Base, ToolInv
    <2> QED BY <1>0, <2>5, <2>6, <2>7, <2>8, <2>9, <2>10 DEF InStep, ToolType
<1>7. CASE write_exact \/ read_exact \/ ReadEOF \/ ReadTimeout \/ is_eof
    <2>1. ToolStep
        BY <1>7, WriteStep, ReadStep, EndOfReadStep, IsEofStep
    <2>2. tool.pc = "op" /\ log' = log /\ tool'.bad = tool.bad /\ child' = child
        BY <2>1 DEF ToolStep
    <2>3. Faithful /\ Passing
        BY <1>1, <2>2
    <2>4. EndsAtDone
        BY <2>3 DEF Faithful
    <2>5. CASE InStep
        <3>1. EndInv
            BY <2>3, <2>5 DEF Passing
        <3>2. CASE write_exact
            <4>1. tool'.pc = "op" /\ (InStep' => EndInv') /\ (tool'.can => Refused')
                BY <2>5, <3>1, <3>2, EndWrite
            <4> QED BY <4>1 DEF Passing
        <3>3. CASE read_exact \/ ReadEOF \/ ReadTimeout
            <4>1. tool'.pc = "op" /\ InStep' /\ EndInv'
                BY <2>5, <3>1, <3>3, EndRead
            <4> QED BY <4>1 DEF Passing, InStep
        <3>4. CASE is_eof
            <4>1. tool'.pc = "wait" /\ child'.pc = "exited" /\ child'.status = 0
                BY <2>4, <2>5, <3>1, <3>4, EndEof
            <4> QED BY <4>1 DEF Passing, InStep
        <3> QED BY <1>7, <3>2, <3>3, <3>4
    <2>6. CASE tool.can
        <3>1. Refused
            BY <2>2, <2>3, <2>6 DEF Passing
        <3>2. tool'.pc \in {"op", "error"} /\ Refused'
            BY <1>7, <2>2, <2>6, <3>1, RefusedTool
        <3>3. tool'.can
            <4>1. CASE is_eof
                <5>1. tool' = [tool EXCEPT !.pc = "error"]
                    BY <2>6, <4>1 DEF is_eof
                <5> QED BY <1>0, <2>6, <5>1 DEF ToolType
            <4>2. CASE ~is_eof
                BY <1>0, <1>7, <2>6, <4>2, Zenon
                   DEF write_exact, read_exact, ReadEOF, ReadTimeout, Compare, Fails,
                       NextOp, CanFail, ToolType
            <4> QED BY <4>1, <4>2
        <3> QED BY <3>2, <3>3 DEF Passing, InStep
    <2> QED BY <2>2, <2>5, <2>6 DEF InStep
<1> QED BY <1>2, <1>3, <1>4, <1>5, <1>6, <1>7 DEF Next, replay

(* A program that checks what it reads is never blamed: neither for the      *)
(* record of its own session, if the output ends where the exit string is    *)
(* first seen, nor when one of its words is changed (where a close does not  *)
(* reset the socket), however the two processes are interleaved.             *)
THEOREM FaithfulPassesOnRecords == FairSpec => [](IsRecording => FaithfulPasses)
<1> DEFINE F == IsRecording => FaithInv
<1>1. Init => F
    BY DEF Init, Idle, FaithInv, Passing, InStep
<1>2. Base /\ RecInv /\ F /\ [Next]_vars => F'
    <2>1. [Next]_vars => trace' = trace
        BY DEF Next, Child, replay, read_input, mk_endpoint_proc, write_exact, read_exact,
               ReadEOF, ReadTimeout, is_eof, proc_exit_code, put_uint, expect, echo,
               LosesTool, quit, vars
    <2>2. [Next]_vars => (IsRecording' <=> IsRecording)
        BY <2>1 DEF IsRecording
    <2> QED BY <2>2, FaithStep DEF RecInv
<1>3. F => (IsRecording => FaithfulPasses)
    BY DEF FaithInv, Faithful, Passing, FaithfulPasses
<1> QED BY <1>1, <1>2, <1>3, RecAlways, BaseAlways, PTL DEF FairSpec
=============================================================================
