--------------------------- MODULE Analyses_proofs ---------------------------
(***************************************************************************)
(* What the analyses promise of their inputs, whatever these are: first the*)
(* inductions over sequences and the facts about folds that the proofs     *)
(* need, then the access log, the Caesar cipher, the groups of the report, *)
(* the captures, the bursts that the log analyzer reports, redaction (where*)
(* each character of a substituted text comes from, and so which matches of*)
(* a pattern it can hold), the extracted strings (which hold what the data *)
(* hold) and the scan (which findings each part of a tree adds).           *)
(***************************************************************************)
EXTENDS MCAnalyses, FiniteSetTheorems, FunctionTheorems, SequenceTheorems, WellFoundedInduction, TLAPS

(* Induction over the numbers, and over the elements that a fold takes. *)

LEMMA LeastOf ==
    ASSUME NEW S \in SUBSET Nat, S # {}
    PROVE  \E m \in S : \A k \in S : m <= k
  <1> DEFINE R == {r \in Nat \X Nat : r[1] < r[2]}
  <1>1. IsWellFoundedOn(R, Nat)
    BY NatLessThanWellFounded DEF OpToRel
  <1> HIDE DEF R
  <1>2. PICK m \in S : \A k \in S : <<k, m>> \notin R
    BY <1>1, WFMin
  <1>3. \A k \in S : ~(k < m)
    BY <1>2 DEF R
  <1> QED
    BY <1>3

LEMMA AllNaturals ==
    ASSUME NEW S, 0 \in S, \A n \in Nat : n \in S => n + 1 \in S
    PROVE  \A n \in Nat : n \in S
  <1> DEFINE T == Nat \ S
  <1>1. SUFFICES ASSUME T # {} PROVE FALSE
    OBVIOUS
  <1>2. PICK m \in T : \A k \in T : m <= k
    BY <1>1, LeastOf
  <1>3. m # 0 /\ m - 1 \in Nat /\ m - 1 \notin T
    BY <1>2
  <1> QED
    BY <1>2, <1>3

\* The fold with step over the subsets of S that pick takes an element from.
IsFold(fold, S, pick, base, step) ==
    \A s \in SUBSET S :
        fold[s] = IF s = {} THEN base ELSE step[<<pick[s], fold[s \ {pick[s]}]>>]

LEMMA FoldExists ==
    ASSUME NEW S, IsFiniteSet(S), NEW V, NEW base \in V, NEW step \in [S \X V -> V],
           NEW pick, \A s \in SUBSET S : s # {} => pick[s] \in s
    PROVE  \E fold \in [SUBSET S -> V] : IsFold(fold, S, pick, base, step)
  <1> DEFINE Small(k) == {s \in SUBSET S : Cardinality(s) <= k}
             Folds(fold, k) ==
                 /\ fold \in [Small(k) -> V]
                 /\ \A s \in Small(k) :
                        fold[s] = IF s = {} THEN base ELSE step[<<pick[s], fold[s \ {pick[s]}]>>]
             Sizes == {k \in Nat : \E fold : Folds(fold, k)}
  <1>1. \A s \in SUBSET S : IsFiniteSet(s) /\ Cardinality(s) \in Nat
    BY FS_Subset, FS_CardinalityType
  <1>2. \A s \in SUBSET S : s # {} =>
            /\ s \ {pick[s]} \in SUBSET S
            /\ Cardinality(s \ {pick[s]}) = Cardinality(s) - 1
    BY <1>1, FS_RemoveElement
  <1>3. \A s \in SUBSET S : Cardinality(s) = 0 <=> s = {}
    BY <1>1, FS_EmptySet
  <1>4. 0 \in Sizes
    <2>1. Small(0) = {{}}
      BY <1>1, <1>3
    <2>2. Folds([s \in Small(0) |-> base], 0)
      BY <2>1
    <2> QED
      BY <2>2
  <1>5. ASSUME NEW k \in Nat, k \in Sizes PROVE k + 1 \in Sizes
    <2>1. PICK fold : Folds(fold, k)
      BY <1>5
    <2> DEFINE next == [s \in Small(k + 1) |->
                           IF s = {} THEN base ELSE step[<<pick[s], fold[s \ {pick[s]}]>>]]
    <2>2. \A s \in Small(k + 1) : s # {} => s \ {pick[s]} \in Small(k) /\ pick[s] \in S
      BY <1>1, <1>2
    <2>3. \A s \in Small(k) : s \in Small(k + 1) /\ next[s] = fold[s]
      BY <1>1, <2>1
    <2>4. ASSUME NEW s \in Small(k + 1)
          PROVE  /\ next[s] \in V
                 /\ next[s] = IF s = {} THEN base ELSE step[<<pick[s], next[s \ {pick[s]}]>>]
      BY <2>1, <2>2, <2>3
    <2>5. Folds(next, k + 1)
      BY <2>4
    <2> HIDE DEF Folds
    <2> QED
      BY <2>5
  <1>6. \A k \in Nat : k \in Sizes
    <2> HIDE DEF Sizes
    <2> QED
      BY <1>4, <1>5, AllNaturals
  <1>7. PICK fold : Folds(fold, Cardinality(S))
    BY <1>1, <1>6
  <1>8. Small(Cardinality(S)) = SUBSET S
    BY <1>1, FS_Subset
  <1> QED
    BY <1>7, <1>8 DEF IsFold

LEMMA MaxOf ==
    ASSUME NEW n \in Nat, NEW s \in SUBSET (1 .. n), s # {}
    PROVE  Max(s) \in s /\ \A k \in s : k <= Max(s)
  <1> DEFINE U == {m \in Nat : \A k \in s : k <= m}
  <1>1. \A k \in s : k \in Nat /\ 1 <= k /\ k <= n
    <2>1. \A k \in s : k \in 1 .. n
      OBVIOUS
    <2> QED
      BY <2>1
  <1>2. PICK m \in U : \A k \in U : m <= k
    <2>1. n \in U
      BY <1>1
    <2>2. U \in SUBSET Nat
      OBVIOUS
    <2> QED
      BY <2>1, <2>2, LeastOf
  <1>3. m \in Nat /\ \A k \in s : k <= m
    OBVIOUS
  <1>4. m \in s
    <2>1. SUFFICES ASSUME m \notin s PROVE FALSE
      OBVIOUS
    <2>2. \A k \in s : k <= m - 1
      BY <1>1, <1>3, <2>1
    <2>3. m - 1 \in Nat
      <3>1. PICK k \in s : TRUE
        OBVIOUS
      <3>2. 1 <= k /\ k <= m /\ k \in Nat
        BY <1>1, <1>3
      <3> QED
        BY <1>3, <3>2
    <2>4. m - 1 \in U
      BY <2>2, <2>3
    <2> QED
      BY <1>2, <1>3, <2>4, ~(m <= m - 1)
  <1>5. \E x \in s : \A y \in s : x >= y
    BY <1>1, <1>3, <1>4
  <1>6. Max(s) \in s /\ \A y \in s : Max(s) >= y
    BY <1>5 DEF Max
  <1> QED
    BY <1>1, <1>6

LEMMA UpTo ==
    ASSUME NEW n \in Nat, NEW k \in 0 .. (n - 1)
    PROVE  /\ 1 .. (k + 1) \in SUBSET (1 .. n) /\ 1 .. (k + 1) # {}
           /\ Max(1 .. (k + 1)) = k + 1
           /\ (1 .. (k + 1)) \ {k + 1} = 1 .. k
  <1>1. k \in Nat /\ k + 1 <= n
    OBVIOUS
  <1>2. 1 .. (k + 1) \in SUBSET (1 .. n)
    <2>1. \A j \in 1 .. (k + 1) : j \in 1 .. n
      BY <1>1
    <2> QED
      BY <2>1
  <1>3. k + 1 \in 1 .. (k + 1)
    BY <1>1
  <1>4. Max(1 .. (k + 1)) \in 1 .. (k + 1) /\ \A j \in 1 .. (k + 1) : j <= Max(1 .. (k + 1))
    BY <1>2, <1>3, MaxOf
  <1>5. Max(1 .. (k + 1)) = k + 1
    BY <1>1, <1>3, <1>4
  <1>6. (1 .. (k + 1)) \ {k + 1} = 1 .. k
    BY <1>1
  <1> QED
    BY <1>2, <1>3, <1>5, <1>6

LEMMA LastElement ==
    ASSUME NEW X, NEW s \in Seq(X), s # <<>>
    PROVE  /\ Front(s) \in Seq(X) /\ Last(s) \in X
           /\ s = Append(Front(s), Last(s))
           /\ Len(s) \in Nat \ {0} /\ Len(Front(s)) = Len(s) - 1
  <1>1. Len(s) \in Nat \ {0}
    BY EmptySeq
  <1>2. Last(s) \in X
    BY <1>1, ElementOfSeq DEF Last
  <1>3. /\ Front(s) \in Seq(X) /\ Len(Front(s)) = Len(s) - 1
        /\ \A i \in 1 .. (Len(s) - 1) : Front(s)[i] = s[i]
    <2>1. \A i \in 1 .. (Len(s) - 1) : s[i] \in X
      BY <1>1, ElementOfSeq
    <2>2. 1 \in Int /\ Len(s) - 1 \in Int
      BY <1>1
    <2>3. /\ SubSeq(s, 1, Len(s) - 1) \in Seq(X)
          /\ Len(SubSeq(s, 1, Len(s) - 1)) =
                IF 1 <= Len(s) - 1 THEN Len(s) - 1 - 1 + 1 ELSE 0
          /\ \A i \in 1 .. (Len(s) - 1 - 1 + 1) :
                SubSeq(s, 1, Len(s) - 1)[i] = s[1 + i - 1]
      BY <2>1, <2>2, SubSeqProperties
    <2>4. \A i \in 1 .. (Len(s) - 1) : 1 + i - 1 = i /\ i \in 1 .. (Len(s) - 1 - 1 + 1)
      BY <1>1
    <2>5. Len(SubSeq(s, 1, Len(s) - 1)) = Len(s) - 1
      <3> DEFINE l == Len(SubSeq(s, 1, Len(s) - 1))
                 n == Len(s)
      <3>1. n \in Nat \ {0} /\ l = IF 1 <= n - 1 THEN n - 1 - 1 + 1 ELSE 0
        BY <1>1, <2>3
      <3> HIDE DEF l, n
      <3>2. l = n - 1
        BY <3>1
      <3> QED
        BY <3>2 DEF l, n
    <2>6. \A i \in 1 .. (Len(s) - 1) : SubSeq(s, 1, Len(s) - 1)[i] = s[i]
      <3>1. ASSUME NEW i \in 1 .. (Len(s) - 1)
            PROVE  SubSeq(s, 1, Len(s) - 1)[i] = s[i]
        <4>1. SubSeq(s, 1, Len(s) - 1)[i] = s[1 + i - 1]
          BY <2>3, <2>4
        <4>2. 1 + i - 1 = i
          BY <2>4
        <4> QED
          BY <4>1, <4>2
      <3> QED
        BY <3>1
    <2> QED
      BY <2>3, <2>5, <2>6 DEF Front
  <1>4. s = Append(Front(s), Last(s))
    <2>1. /\ Append(Front(s), Last(s)) \in Seq(X)
          /\ Len(Append(Front(s), Last(s))) = Len(s)
          /\ \A i \in 1 .. Len(s) : Append(Front(s), Last(s))[i] = s[i]
      BY <1>1, <1>2, <1>3, AppendProperties DEF Last
    <2> QED
      BY <2>1, SeqEqual
  <1> QED
    BY <1>1, <1>2, <1>3, <1>4

\* Induction over the sequences that grow at their end.
LEMMA GrowsToAll ==
    ASSUME NEW X, NEW S, <<>> \in S,
           \A s \in Seq(X), x \in X : s \in S => Append(s, x) \in S
    PROVE  \A s \in Seq(X) : s \in S
  <1> DEFINE N == {k \in Nat : \A s \in Seq(X) : Len(s) = k => s \in S}
  <1>1. 0 \in N
    <2>1. \A s \in Seq(X) : Len(s) = 0 => s = <<>>
      BY EmptySeq
    <2> QED
      BY <2>1
  <1>2. ASSUME NEW k \in Nat, k \in N PROVE k + 1 \in N
    <2>1. SUFFICES ASSUME NEW s \in Seq(X), Len(s) = k + 1 PROVE s \in S
      OBVIOUS
    <2>2. s # <<>>
      BY <2>1, EmptySeq
    <2>3. /\ Front(s) \in Seq(X) /\ Last(s) \in X
          /\ s = Append(Front(s), Last(s)) /\ Len(Front(s)) = k
      BY <2>1, <2>2, LastElement
    <2>4. Front(s) \in S
      BY <1>2, <2>3
    <2> QED
      BY <2>3, <2>4, Zenon
  <1> HIDE DEF N
  <1>3. \A k \in Nat : k \in N
    BY <1>1, <1>2, AllNaturals
  <1>4. \A s \in Seq(X) : Len(s) \in Nat
    OBVIOUS
  <1> QED
    BY <1>3, <1>4 DEF N

-----------------------------------------------------------------------------

(* The access log. *)

Entries == [request : Request \cup {[r EXCEPT !.status = 500] : r \in Request}, timestamp : Int]
Piece == [entry : Entries, whole : BOOLEAN]
Lines == Seq(Seq(Piece))

Taken(entries, line) == IF Parses(line) THEN Append(entries, line[1].entry) ELSE entries

Read(lines) ==
    FoldLeft(LAMBDA entries, line : IF Parses(line) THEN Append(entries, line[1].entry) ELSE entries,
             <<>>, lines)

LEMMA TakenType ==
    ASSUME NEW entries \in Seq(Entries), NEW line \in Seq(Piece)
    PROVE  Taken(entries, line) \in Seq(Entries)
  <1>1. CASE Parses(line)
    <2>1. line[1] \in Piece
      BY <1>1, 1 \in 1 .. Len(line), ElementOfSeq DEF Parses
    <2>2. line[1].entry \in Entries
      BY <2>1 DEF Piece
    <2> QED
      BY <1>1, <2>2, AppendProperties DEF Taken
  <1> QED
    BY <1>1 DEF Taken

\* What was read after each line.
Reads(run, lines) ==
    /\ run[0] = <<>>
    /\ \A k \in 0 .. (Len(lines) - 1) : run[k + 1] = Taken(run[k], lines[k + 1])

LEMMA ReadRuns ==
    ASSUME NEW lines \in Lines
    PROVE  \E run : Reads(run, lines) /\ run[Len(lines)] = Read(lines)
  <1> DEFINE n == Len(lines)
             V == Seq(Entries)
             pick == [s \in SUBSET (1 .. n) |-> Max(s)]
             step == [p \in (1 .. n) \X V |-> Taken(p[2], lines[p[1]])]
             IsReading(f) ==
                 f = [s \in SUBSET (DOMAIN lines) |->
                            IF s = {} THEN <<>>
                            ELSE IF Parses(lines[Max(s)])
                                 THEN Append(f[s \ {Max(s)}], lines[Max(s)][1].entry)
                                 ELSE f[s \ {Max(s)}]]
  <1>1. /\ n \in Nat /\ DOMAIN lines = 1 .. n
        /\ \A k \in 1 .. n : lines[k] \in Seq(Piece)
    BY DEF Lines
  <1>2. step \in [(1 .. n) \X V -> V]
    BY <1>1, TakenType
  <1>3. \A s \in SUBSET (1 .. n) : s # {} => pick[s] \in s
    BY <1>1, MaxOf
  <1>4. \E fold \in [SUBSET (1 .. n) -> V] : IsFold(fold, 1 .. n, pick, <<>>, step)
    <2>1. IsFiniteSet(1 .. n)
      BY <1>1, FS_Interval
    <2>2. <<>> \in V
      OBVIOUS
    <2> HIDE DEF V, pick, step
    <2> QED
      BY <1>2, <1>3, <2>1, <2>2, FoldExists
  <1>5. PICK fold \in [SUBSET (1 .. n) -> V] : IsFold(fold, 1 .. n, pick, <<>>, step)
    BY <1>4
  <1>6. IsReading(fold)
    <2>1. ASSUME NEW s \in SUBSET (1 .. n), s # {}
          PROVE  fold[s] = Taken(fold[s \ {Max(s)}], lines[Max(s)])
      <3>1. Max(s) \in 1 .. n /\ s \ {Max(s)} \in SUBSET (1 .. n)
        BY <1>1, <2>1, MaxOf
      <3>2. fold[s \ {Max(s)}] \in V
        BY <3>1
      <3>3. fold[s] = step[<<Max(s), fold[s \ {Max(s)}]>>]
        BY <1>5, <2>1 DEF IsFold
      <3> QED
        BY <3>1, <3>2, <3>3
    <2>2. fold[{}] = <<>>
      BY <1>5 DEF IsFold
    <2> QED
      BY <1>1, <2>1, <2>2 DEF Taken
  <1> DEFINE it == CHOOSE f : IsReading(f)
  <1>7. IsReading(it)
    BY <1>6
  <1>8. Read(lines) = it[DOMAIN lines]
    BY DEF Read, FoldLeft, MapThenFoldSet
  <1> HIDE DEF it
  <1>9. \A s \in SUBSET (1 .. n) : it[s] = IF s = {} THEN <<>> ELSE Taken(it[s \ {Max(s)}], lines[Max(s)])
    BY <1>1, <1>7 DEF Taken
  <1> DEFINE run == [k \in 0 .. n |-> it[1 .. k]]
  <1>10. run[0] = <<>>
    <2>1. 1 .. 0 = {} /\ {} \in SUBSET (1 .. n) /\ 0 \in 0 .. n
      BY <1>1
    <2>2. it[{}] = <<>>
      BY <1>9, <2>1
    <2> QED
      BY <2>1, <2>2
  <1>11. ASSUME NEW k \in 0 .. (n - 1) PROVE run[k + 1] = Taken(run[k], lines[k + 1])
    <2>1. it[1 .. (k + 1)] = Taken(it[1 .. k], lines[k + 1])
      BY <1>1, <1>9, UpTo
    <2>2. run[k + 1] = it[1 .. (k + 1)] /\ run[k] = it[1 .. k]
      BY <1>1
    <2> QED
      BY <2>1, <2>2
  <1>12. run[n] = Read(lines)
    BY <1>1, <1>8
  <1>13. Reads(run, lines)
    <2> HIDE DEF run
    <2> QED
      BY <1>10, <1>11 DEF Reads
  <1> QED
    BY <1>12, <1>13

LEMMA ReadType == ASSUME NEW lines \in Lines PROVE Read(lines) \in Seq(Entries)
  <1>1. PICK run : Reads(run, lines) /\ run[Len(lines)] = Read(lines)
    BY ReadRuns
  <1> DEFINE S == {k \in Nat : k <= Len(lines) => run[k] \in Seq(Entries)}
  <1>2. 0 \in S
    <2>1. run[0] = <<>> /\ <<>> \in Seq(Entries)
      BY <1>1, EmptySeq DEF Reads
    <2> QED
      BY <2>1
  <1>3. ASSUME NEW k \in Nat, k \in S PROVE k + 1 \in S
    <2>1. SUFFICES ASSUME k + 1 <= Len(lines) PROVE run[k + 1] \in Seq(Entries)
      OBVIOUS
    <2>2. Len(lines) \in Nat
      BY DEF Lines
    <2>3. k \in 0 .. (Len(lines) - 1) /\ run[k] \in Seq(Entries)
      BY <1>3, <2>1, <2>2
    <2>4. lines[k + 1] \in Seq(Piece)
      BY <2>1, <2>2, ElementOfSeq DEF Lines
    <2> QED
      BY <1>1, <2>3, <2>4, TakenType DEF Reads
  <1> HIDE DEF S
  <1>4. \A k \in Nat : k \in S
    BY <1>2, <1>3, AllNaturals
  <1>5. Len(lines) \in Nat
    BY DEF Lines
  <1> QED
    BY <1>1, <1>4, <1>5 DEF S

LEMMA ReadStep ==
    /\ Read(<<>>) = <<>>
    /\ \A lines \in Lines, line \in Seq(Piece) :
           Read(Append(lines, line)) = Taken(Read(lines), line)
  <1>1. Read(<<>>) = <<>>
    <2>1. PICK run : Reads(run, <<>>) /\ run[Len(<<>>)] = Read(<<>>)
      <3>1. <<>> \in Lines
        BY EmptySeq DEF Lines
      <3> QED
        BY <3>1, ReadRuns
    <2>2. run[0] = <<>> /\ Len(<<>>) = 0
      BY <2>1 DEF Reads
    <2> QED
      BY <2>1, <2>2
  <1>2. ASSUME NEW lines \in Lines, NEW line \in Seq(Piece)
        PROVE  Read(Append(lines, line)) = Taken(Read(lines), line)
    <2> DEFINE more == Append(lines, line)
               n == Len(lines)
    <2>1. /\ more \in Lines /\ n \in Nat /\ Len(more) = n + 1
          /\ \A k \in 1 .. n : more[k] = lines[k]
          /\ more[n + 1] = line
      <3>1. lines \in Seq(Seq(Piece))
        BY DEF Lines
      <3> QED
        BY <3>1, AppendProperties, LenProperties DEF Lines
    <2> HIDE DEF more, n
    <2>2. PICK run : Reads(run, lines) /\ run[n] = Read(lines)
      BY ReadRuns DEF n
    <2>3. PICK next : Reads(next, more) /\ next[n + 1] = Read(more)
      BY <2>1, ReadRuns
    <2>4. /\ run[0] = next[0]
          /\ \A k \in Nat : k < n => /\ run[k + 1] = Taken(run[k], lines[k + 1])
                                   /\ next[k + 1] = Taken(next[k], lines[k + 1])
          /\ next[n + 1] = Taken(next[n], line)
      BY <2>1, <2>2, <2>3 DEF Reads, n
    <2> DEFINE S == {k \in Nat : k <= n => run[k] = next[k]}
    <2>5. 0 \in S
      BY <2>4
    <2>6. \A k \in Nat : k \in S => k + 1 \in S
      BY <2>1, <2>4
    <2> HIDE DEF S
    <2>7. \A k \in Nat : k \in S
      BY <2>5, <2>6, AllNaturals
    <2>8. run[n] = next[n]
      BY <2>1, <2>7 DEF S
    <2> QED
      BY <2>2, <2>3, <2>4, <2>8 DEF more
  <1> QED
    BY <1>1, <1>2

LEMMA LastLine ==
    ASSUME NEW lines \in Lines, lines # <<>>
    PROVE  /\ Front(lines) \in Lines /\ Last(lines) \in Seq(Piece)
           /\ lines = Append(Front(lines), Last(lines))
           /\ Len(lines) \in Nat \ {0}
  BY LastElement DEF Lines

\* The entries are some of all, in their order.
Embeds(entries, all) ==
    \E at \in [DOMAIN entries -> DOMAIN all] :
        /\ \A m, n \in DOMAIN at : m < n => at[m] < at[n]
        /\ \A n \in DOMAIN at : entries[n] = all[at[n]]

LEMMA EmbedsLater ==
    ASSUME NEW entries \in Seq(Entries), NEW all \in Seq(Entries), NEW e \in Entries,
           Embeds(entries, all)
    PROVE  Embeds(entries, Append(all, e))
  <1>1. PICK at \in [DOMAIN entries -> DOMAIN all] :
            /\ \A m, n \in DOMAIN at : m < n => at[m] < at[n]
            /\ \A n \in DOMAIN at : entries[n] = all[at[n]]
    BY DEF Embeds
  <1>2. /\ DOMAIN all = 1 .. Len(all) /\ Len(all) \in Nat
        /\ DOMAIN Append(all, e) = 1 .. (Len(all) + 1)
        /\ \A n \in 1 .. Len(all) : Append(all, e)[n] = all[n]
    BY AppendProperties, LenProperties
  <1>3. \A n \in DOMAIN entries : at[n] \in 1 .. Len(all) /\ at[n] \in 1 .. (Len(all) + 1)
    BY <1>2
  <1>4. at \in [DOMAIN entries -> DOMAIN Append(all, e)]
    BY <1>2, <1>3
  <1> QED
    BY <1>1, <1>2, <1>3, <1>4 DEF Embeds

LEMMA EmbedsAppend ==
    ASSUME NEW entries \in Seq(Entries), NEW all \in Seq(Entries), NEW e \in Entries,
           Embeds(entries, all)
    PROVE  Embeds(Append(entries, e), Append(all, e))
  <1>1. PICK at \in [DOMAIN entries -> DOMAIN all] :
            /\ \A m, n \in DOMAIN at : m < n => at[m] < at[n]
            /\ \A n \in DOMAIN at : entries[n] = all[at[n]]
    BY DEF Embeds
  <1> DEFINE k == Len(entries)
             l == Len(all)
             to == [n \in 1 .. (k + 1) |-> IF n = k + 1 THEN l + 1 ELSE at[n]]
  <1>2. /\ DOMAIN all = 1 .. l /\ l \in Nat
        /\ DOMAIN Append(all, e) = 1 .. (l + 1)
        /\ \A n \in 1 .. l : Append(all, e)[n] = all[n]
        /\ Append(all, e)[l + 1] = e
        /\ DOMAIN entries = 1 .. k /\ k \in Nat
        /\ DOMAIN Append(entries, e) = 1 .. (k + 1)
        /\ \A n \in 1 .. k : Append(entries, e)[n] = entries[n]
        /\ Append(entries, e)[k + 1] = e
    BY AppendProperties, LenProperties
  <1> HIDE DEF k, l
  <1>3. \A n \in 1 .. k : at[n] \in 1 .. l
    BY <1>2
  <1>4. \A n \in 1 .. (k + 1) : n = k + 1 \/ n \in 1 .. k
    BY <1>2
  <1>5. \A n \in 1 .. (k + 1) : to[n] \in 1 .. (l + 1)
    BY <1>2, <1>3, <1>4
  <1>6. ASSUME NEW m \in 1 .. (k + 1), NEW n \in 1 .. (k + 1), m < n PROVE to[m] < to[n]
    <2>1. m \in 1 .. k /\ to[m] = at[m] /\ to[m] \in 1 .. l
      BY <1>2, <1>3, <1>6
    <2>2. CASE n = k + 1
      BY <1>2, <2>1, <2>2
    <2>3. CASE n \in 1 .. k
      <3>1. to[n] = at[n]
        BY <1>2, <2>3
      <3> QED
        BY <1>1, <1>2, <1>6, <2>1, <2>3, <3>1
    <2> QED
      BY <1>4, <2>2, <2>3
  <1>7. ASSUME NEW n \in 1 .. (k + 1) PROVE Append(entries, e)[n] = Append(all, e)[to[n]]
    <2>1. CASE n = k + 1
      BY <1>2, <2>1
    <2>2. CASE n \in 1 .. k
      <3>1. to[n] = at[n] /\ at[n] \in 1 .. l
        BY <1>2, <1>3, <2>2
      <3> QED
        BY <1>1, <1>2, <2>2, <3>1
    <2> QED
      BY <1>4, <2>1, <2>2
  <1>8. to \in [DOMAIN Append(entries, e) -> DOMAIN Append(all, e)] /\ DOMAIN to = 1 .. (k + 1)
    BY <1>2, <1>5
  <1> HIDE DEF to
  <1> QED
    BY <1>6, <1>7, <1>8 DEF Embeds

LEMMA EmbedsFewer ==
    ASSUME NEW entries \in Seq(Entries), NEW all \in Seq(Entries), NEW e \in Entries,
           Embeds(Append(entries, e), all)
    PROVE  Embeds(entries, all)
  <1> DEFINE more == Append(entries, e)
             k == Len(entries)
  <1>1. PICK at \in [DOMAIN more -> DOMAIN all] :
            /\ \A m, n \in DOMAIN at : m < n => at[m] < at[n]
            /\ \A n \in DOMAIN at : more[n] = all[at[n]]
    BY DEF Embeds
  <1>2. /\ DOMAIN entries = 1 .. k /\ k \in Nat /\ DOMAIN more = 1 .. (k + 1)
        /\ \A n \in 1 .. k : more[n] = entries[n]
    BY AppendProperties, LenProperties
  <1> HIDE DEF more, k
  <1> DEFINE to == [n \in 1 .. k |-> at[n]]
  <1>3. \A n \in 1 .. k : n \in DOMAIN more /\ to[n] = at[n]
    BY <1>2
  <1>4. to \in [DOMAIN entries -> DOMAIN all] /\ DOMAIN to = 1 .. k
    BY <1>2, <1>3
  <1> HIDE DEF to
  <1>5. \A m, n \in 1 .. k : m < n => to[m] < to[n]
    BY <1>1, <1>3
  <1>6. \A n \in 1 .. k : entries[n] = all[to[n]]
    BY <1>1, <1>2, <1>3
  <1> QED
    BY <1>4, <1>5, <1>6 DEF Embeds

LEMMA EmbedsTaken ==
    ASSUME NEW entries \in Seq(Entries), NEW all \in Seq(Entries), NEW line \in Seq(Piece),
           Embeds(Taken(entries, line), all)
    PROVE  Embeds(entries, all)
  <1>1. CASE Parses(line)
    <2>1. line[1] \in Piece
      BY <1>1, 1 \in 1 .. Len(line), ElementOfSeq DEF Parses
    <2>2. line[1].entry \in Entries
      BY <2>1 DEF Piece
    <2> QED
      BY <1>1, <2>2, EmbedsFewer DEF Taken
  <1> QED
    BY <1>1 DEF Taken

-----------------------------------------------------------------------------

\* The lines that have their newline.
Closed == IF open THEN Front(log) ELSE log

LogTyped ==
    /\ clock \in Int /\ tears \in Nat /\ raised \in Nat /\ open \in BOOLEAN
    /\ log \in Lines /\ served \in Seq(Entries)

\* What an open line holds is there to be continued.
OpenLine == open => log # <<>> /\ Last(log) # <<>>

\* An append that stopped short has cost one entry, and may cost the next one.
Lost == Len(served) <= Len(Read(Closed)) + 2 * tears + raised - (IF open THEN 1 ELSE 0)

LogInv == LogTyped /\ OpenLine /\ Lost /\ Embeds(Read(log), served)

LEMMA LogStarts == InitLog => LogInv
  <1> SUFFICES ASSUME InitLog PROVE LogInv
    OBVIOUS
  <1>1. LogTyped
    <2>1. <<>> \in Lines /\ <<>> \in Seq(Entries)
      BY EmptySeq DEF Lines
    <2>2. log \in Lines /\ served \in Seq(Entries)
      <3>1. log = <<>> /\ served = <<>>
        BY DEF InitLog
      <3> QED
        BY <2>1, <3>1
    <2>3. open \in BOOLEAN
      BY Zenon DEF InitLog
    <2>4. clock \in Int /\ tears \in Nat /\ raised \in Nat
      BY DEF InitLog
    <2> QED
      BY <2>2, <2>3, <2>4 DEF LogTyped
  <1>2. Read(log) = <<>> /\ Closed = log
    BY ReadStep DEF InitLog, Closed
  <1>3. Lost /\ OpenLine
    BY <1>2, EmptySeq DEF InitLog, Lost, OpenLine
  <1>4. Embeds(<<>>, <<>>)
    <2>1. <<>> \in [DOMAIN <<>> -> DOMAIN <<>>] /\ DOMAIN <<>> = {}
      OBVIOUS
    <2> QED
      BY <2>1 DEF Embeds
  <1> QED
    BY <1>1, <1>2, <1>3, <1>4 DEF LogInv, InitLog

\* A write in an open line spoils it; in a new one, it adds the entry if it is whole.
LEMMA Written ==
    ASSUME LogInv, NEW piece \in Piece
    PROVE  /\ Continued(piece) \in Lines /\ Continued(piece) # <<>>
           /\ Last(Continued(piece)) # <<>>
           /\ Read(Front(Continued(piece))) = Read(Closed)
           /\ Read(Continued(piece)) =
                 IF ~open /\ piece.whole THEN Append(Read(Closed), piece.entry) ELSE Read(Closed)
  <1> DEFINE closed == Closed
             line == IF open THEN Append(Last(log), piece) ELSE <<piece>>
  <1>1. closed \in Lines
    BY LastLine DEF LogInv, LogTyped, OpenLine, Closed
  <1>2. line \in Seq(Piece) /\ line # <<>> /\ line[1] \in Piece
    <2>1. CASE open
      <3>1. Last(log) \in Seq(Piece)
        BY <2>1, LastLine DEF LogInv, LogTyped, OpenLine
      <3>2. Append(Last(log), piece) \in Seq(Piece) /\ Append(Last(log), piece) # <<>>
        BY <3>1, AppendProperties
      <3>3. 1 \in 1 .. Len(Append(Last(log), piece))
        BY <3>2, EmptySeq
      <3> QED
        BY <2>1, <3>2, <3>3, ElementOfSeq
    <2>2. CASE ~open
      BY <2>2
    <2> QED
      BY <2>1, <2>2 DEF LogInv, LogTyped
  <1>3. Continued(piece) = Append(closed, line)
    <2>1. CASE open
      <3>1. /\ log = Append(Front(log), Last(log)) /\ Len(log) \in Nat \ {0}
            /\ Front(log) \in Lines /\ Last(log) \in Seq(Piece) /\ log \in Lines
        BY <2>1, LastLine DEF LogInv, LogTyped, OpenLine
      <3>2. log[Len(log)] = Last(log) /\ closed = Front(log) /\ line = Append(Last(log), piece)
        BY <2>1 DEF Last, Closed
      <3>3. Continued(piece) = [log EXCEPT ![Len(log)] = line]
        BY <2>1, <3>2 DEF Continued
      <3> HIDE DEF closed, line
      <3>4. /\ [log EXCEPT ![Len(log)] = line] \in Lines
            /\ Len([log EXCEPT ![Len(log)] = line]) = Len(log)
            /\ \A i \in 1 .. Len(log) : [log EXCEPT ![Len(log)] = line][i] = IF i = Len(log) THEN line ELSE log[i]
        BY <1>2, <3>1, ExceptSeq DEF Lines
      <3>5. /\ Append(closed, line) \in Lines /\ Len(Append(closed, line)) = Len(closed) + 1
            /\ \A i \in 1 .. Len(closed) : Append(closed, line)[i] = closed[i]
            /\ Append(closed, line)[Len(closed) + 1] = line
        BY <1>1, <1>2, AppendProperties DEF Lines
      <3>6. Len(log) = Len(closed) + 1 /\ Len(closed) \in Nat /\ \A i \in 1 .. Len(closed) : log[i] = closed[i]
        <4>1. log = Append(closed, Last(log))
          BY <3>1, <3>2
        <4>2. closed \in Seq(Seq(Piece)) /\ Last(log) \in Seq(Piece)
          BY <1>1, <3>1 DEF Lines
        <4>3. /\ Len(Append(closed, Last(log))) = Len(closed) + 1 /\ Len(closed) \in Nat
              /\ \A i \in 1 .. Len(closed) : Append(closed, Last(log))[i] = closed[i]
          BY <4>2, AppendProperties, LenProperties
        <4> QED
          BY <4>1, <4>3
      <3>7. \A i \in 1 .. Len(log) : [log EXCEPT ![Len(log)] = line][i] = Append(closed, line)[i]
        BY <3>4, <3>5, <3>6
      <3> QED
        BY <3>3, <3>4, <3>5, <3>6, <3>7, SeqEqual DEF Lines
    <2>2. CASE ~open
      BY <2>2 DEF Continued, Closed
    <2> QED
      BY <2>1, <2>2 DEF LogInv, LogTyped
  <1>4. Taken(Read(closed), line) =
            IF ~open /\ piece.whole THEN Append(Read(Closed), piece.entry) ELSE Read(Closed)
    <2>1. CASE open
      <3>1. Last(log) \in Seq(Piece) /\ Last(log) # <<>>
        BY <2>1, LastLine DEF LogInv, LogTyped, OpenLine
      <3>2. Len(line) # 1
        BY <2>1, <3>1, EmptySeq, AppendProperties
      <3> QED
        BY <2>1, <3>2 DEF Taken, Parses
    <2>2. CASE ~open
      <3>1. Len(line) = 1 /\ line[1] = piece
        BY <2>2
      <3> HIDE DEF line
      <3> QED
        BY <2>2, <3>1 DEF Taken, Parses
    <2> QED
      BY <2>1, <2>2 DEF LogInv, LogTyped
  <1> HIDE DEF closed, line
  <1>5. Read(Append(closed, line)) = Taken(Read(closed), line)
    BY <1>1, <1>2, ReadStep
  <1>6. /\ Append(closed, line) \in Lines /\ Append(closed, line) # <<>>
        /\ Last(Append(closed, line)) = line
    BY <1>1, <1>2, AppendProperties DEF Lines, Last
  <1>7. Front(Append(closed, line)) = closed
    <2> DEFINE all == Append(closed, line)
    <2>1. /\ all \in Seq(Seq(Piece)) /\ Len(all) = Len(closed) + 1
          /\ \A i \in 1 .. Len(closed) : all[i] = closed[i]
          /\ closed \in Seq(Seq(Piece)) /\ Len(closed) \in Nat
      BY <1>1, <1>2, AppendProperties, LenProperties DEF Lines
    <2> HIDE DEF all
    <2>2. /\ Front(all) \in Seq(Seq(Piece)) /\ all = Append(Front(all), Last(all))
          /\ Last(all) \in Seq(Piece)
      BY <1>6, LastLine DEF all, Lines
    <2>3. /\ Len(all) = Len(Front(all)) + 1 /\ Len(Front(all)) \in Nat
          /\ \A i \in 1 .. Len(Front(all)) : all[i] = Front(all)[i]
      <3>1. /\ Len(Append(Front(all), Last(all))) = Len(Front(all)) + 1 /\ Len(Front(all)) \in Nat
            /\ \A i \in 1 .. Len(Front(all)) : Append(Front(all), Last(all))[i] = Front(all)[i]
        BY <2>2, AppendProperties, LenProperties
      <3> QED
        BY <2>2, <3>1
    <2>4. Len(Front(all)) = Len(closed)
      BY <2>1, <2>3
    <2>5. \A i \in 1 .. Len(Front(all)) : Front(all)[i] = closed[i]
      BY <2>1, <2>3, <2>4
    <2>6. Front(all) = closed
      BY <2>1, <2>2, <2>4, <2>5, SeqEqual
    <2> QED
      BY <2>6 DEF all
  <1> QED
    BY <1>2, <1>3, <1>4, <1>5, <1>6, <1>7 DEF closed

\* The invariant after a step that serves e and may write.
LEMMA ServedLater ==
    ASSUME LogInv, NEW e \in Entries, served' = Append(served, e),
           clock' \in Int, tears' \in Nat, raised' \in Nat, UNCHANGED <<log, open>>,
           2 * tears' + raised' >= 2 * tears + raised + 1
    PROVE  LogInv'
  <1>1. LogTyped'
    BY AppendProperties DEF LogInv, LogTyped
  <1>2. OpenLine'
    BY DEF LogInv, OpenLine
  <1>3. Embeds(Read(log), served)'
    <2>1. Read(log) \in Seq(Entries) /\ served \in Seq(Entries)
      BY ReadType DEF LogInv, LogTyped
    <2>2. Embeds(Read(log), Append(served, e))
      BY <2>1, EmbedsLater DEF LogInv
    <2> QED
      BY <2>2
  <1>4. Lost'
    <2>1. Closed' = Closed
      BY DEF Closed
    <2>2. Closed \in Lines
      BY LastLine DEF LogInv, LogTyped, OpenLine, Closed
    <2>3. Len(Read(Closed)) \in Nat
      BY <2>2, ReadType, LenProperties
    <2>4. Len(served') = Len(served) + 1 /\ Len(served) \in Nat
      BY AppendProperties, LenProperties DEF LogInv, LogTyped
    <2>5. Read(Closed)' = Read(Closed)
      BY <2>1
    <2>6. /\ tears \in Nat /\ raised \in Nat /\ open \in BOOLEAN
          /\ Len(served) <= Len(Read(Closed)) + 2 * tears + raised - (IF open THEN 1 ELSE 0)
      BY DEF LogInv, LogTyped, Lost
    <2> DEFINE l == Len(Read(Closed))
               b == IF open THEN 1 ELSE 0
    <2>7. Len(served') <= l + 2 * tears' + raised' - b
      <3>1. l \in Nat /\ b \in Int /\ Len(served) <= l + 2 * tears + raised - b
        BY <2>3, <2>6
      <3>2. tears \in Nat /\ raised \in Nat
        BY <2>6
      <3> HIDE DEF l, b
      <3>3. 2 * tears + raised + 1 <= 2 * tears' + raised'
        BY <3>2
      <3>4. Len(served) + 1 <= l + (2 * tears + raised + 1) - b
        BY <2>4, <3>1, <3>2
      <3> DEFINE c == 2 * tears + raised + 1
                 d == 2 * tears' + raised'
      <3>5. c \in Int /\ d \in Int
        BY <3>2
      <3>6. Len(served) + 1 <= l + c - b /\ c <= d
        BY <3>3, <3>4
      <3>7. l + d - b = l + 2 * tears' + raised' - b
        BY <3>1
      <3> HIDE DEF c, d
      <3>8. Len(served') <= l + d - b
        BY <2>4, <3>1, <3>5, <3>6
      <3> QED
        BY <3>7, <3>8
    <2> QED
      BY <2>5, <2>7 DEF Lost
  <1> QED
    BY <1>1, <1>2, <1>3, <1>4 DEF LogInv

LEMMA WriteKeeps ==
    ASSUME LogInv, NEW piece \in Piece, served' = Append(served, piece.entry),
           log' = Continued(piece), open' \in BOOLEAN, clock' \in Int, raised' = raised,
           \/ piece.whole /\ ~open' /\ tears' = tears
           \/ open' /\ tears' = tears + 1
    PROVE  LogInv'
  <1> DEFINE last == IF ~open /\ piece.whole THEN Append(Read(Closed), piece.entry) ELSE Read(Closed)
  <1>1. /\ log' \in Lines /\ log' # <<>> /\ Last(log') # <<>>
        /\ Read(Front(log')) = Read(Closed) /\ Read(log') = last
    BY Written
  <1>2. piece.entry \in Entries
    BY DEF Piece
  <1>3. Closed \in Lines /\ Read(Closed) \in Seq(Entries) /\ Len(Read(Closed)) \in Nat
    <2>1. Closed \in Lines
      BY LastLine DEF LogInv, LogTyped, OpenLine, Closed
    <2> QED
      BY <2>1, ReadType, LenProperties
  <1>4. served \in Seq(Entries) /\ Len(served) \in Nat /\ served' \in Seq(Entries) /\ Len(served') = Len(served) + 1
    BY <1>2, AppendProperties, LenProperties DEF LogInv, LogTyped
  <1>5. LogTyped'
    BY <1>1, <1>4 DEF LogInv, LogTyped
  <1>6. OpenLine'
    BY <1>1 DEF OpenLine
  <1>7. Embeds(Read(Closed), served)
    <2>1. CASE open
      <3>1. log = Append(Closed, Last(log)) /\ Last(log) \in Seq(Piece)
        BY <2>1, LastLine DEF LogInv, LogTyped, OpenLine, Closed
      <3>2. Read(log) = Taken(Read(Closed), Last(log))
        <4>1. Read(Append(Closed, Last(log))) = Taken(Read(Closed), Last(log))
          BY <1>3, <3>1, ReadStep
        <4> QED
          BY <3>1, <4>1
      <3>3. Embeds(Taken(Read(Closed), Last(log)), served)
        BY <3>2 DEF LogInv
      <3> QED
        BY <1>3, <1>4, <3>1, <3>3, EmbedsTaken
    <2>2. CASE ~open
      BY <2>2 DEF LogInv, Closed
    <2> QED
      BY <2>1, <2>2
  <1>8. Embeds(Read(log), served)'
    <2>1. Embeds(last, Append(served, piece.entry))
      BY <1>2, <1>3, <1>4, <1>7, EmbedsAppend, EmbedsLater
    <2> QED
      BY <1>1, <2>1
  <1>9. Lost'
    <2>1. Read(Closed)' = IF open' THEN Read(Closed) ELSE last
      BY <1>1 DEF Closed
    <2>2. Len(Append(Read(Closed), piece.entry)) = Len(Read(Closed)) + 1
      BY <1>2, <1>3, AppendProperties
    <2>3. /\ tears \in Nat /\ raised \in Nat /\ open \in BOOLEAN
          /\ Len(served) <= Len(Read(Closed)) + 2 * tears + raised - (IF open THEN 1 ELSE 0)
      BY DEF LogInv, LogTyped, Lost
    <2>4. CASE open' /\ tears' = tears + 1
      <3>1. Len(Read(Closed)') = Len(Read(Closed))
        BY <2>1, <2>4
      <3>2. Len(served') <= Len(Read(Closed)') + 2 * tears' + raised' - 1
        BY <1>3, <1>4, <2>3, <2>4, <3>1
      <3> QED
        BY <2>4, <3>2 DEF Lost
    <2>5. CASE piece.whole /\ ~open' /\ tears' = tears
      <3>1. Len(Read(Closed)') = IF open THEN Len(Read(Closed)) ELSE Len(Read(Closed)) + 1
        BY <2>1, <2>2, <2>5
      <3>2. Len(served') <= Len(Read(Closed)') + 2 * tears' + raised'
        <4>1. CASE open
          BY <1>3, <1>4, <2>3, <2>5, <3>1, <4>1
        <4>2. CASE ~open
          <5>1. Len(Read(Closed)') = Len(Read(Closed)) + 1
            BY <3>1, <4>2
          <5>2. Len(served) <= Len(Read(Closed)) + 2 * tears + raised
            BY <1>3, <2>3, <4>2
          <5> QED
            BY <1>3, <1>4, <2>3, <2>5, <5>1, <5>2
        <4> QED
          BY <4>1, <4>2
      <3>3. Len(Read(Closed)') \in Nat /\ tears' \in Nat /\ raised' \in Nat
        BY <1>3, <2>3, <2>5, <3>1
      <3> QED
        BY <1>4, <2>5, <3>2, <3>3 DEF Lost
    <2> QED
      BY <2>4, <2>5
  <1> QED
    BY <1>5, <1>6, <1>8, <1>9 DEF LogInv

LEMMA LogStep == LogInv /\ [NextLog]_logVars => LogInv'
  <1> SUFFICES ASSUME LogInv, [NextLog]_logVars PROVE LogInv'
    OBVIOUS
  <1>1. clock \in Int /\ tears \in Nat /\ raised \in Nat /\ open \in BOOLEAN
    BY DEF LogInv, LogTyped
  <1>2. ASSUME NEW r \in Request
        PROVE  /\ Entry(r) \in Entries /\ Entry([r EXCEPT !.status = 500]) \in Entries
               /\ Whole(Entry(r)) \in Piece /\ Part(Entry(r)) \in Piece
               /\ Whole(Entry(r)).entry = Entry(r) /\ Whole(Entry(r)).whole
               /\ Part(Entry(r)).entry = Entry(r)
    BY <1>1 DEF Entry, Entries, Piece, Whole, Part
  <1>3. ASSUME NEW r \in Request, Dispatch(r) PROVE LogInv'
    BY <1>1, <1>2, <1>3, WriteKeeps DEF Dispatch
  <1>4. ASSUME NEW r \in Request, Tear(r) PROVE LogInv'
    <2>1. served' = Append(served, Entry(r)) /\ tears' = tears + 1 /\ UNCHANGED <<clock, raised>>
      BY <1>4 DEF Tear
    <2>2. CASE UNCHANGED <<log, open>>
      <3>1. /\ tears' \in Nat /\ raised' \in Nat /\ clock' \in Int
            /\ 2 * tears' + raised' >= 2 * tears + raised + 1
        BY <1>1, <2>1
      <3> QED
        BY <1>2, <2>1, <2>2, <3>1, ServedLater
    <2>3. ASSUME NEW piece \in {Part(Entry(r)), Whole(Entry(r))}, log' = Continued(piece), open' = TRUE
          PROVE  LogInv'
      <3>1. piece \in Piece /\ piece.entry = Entry(r)
        BY <1>2, <2>3
      <3> QED
        BY <1>1, <2>1, <2>3, <3>1, WriteKeeps
    <2> QED
      BY <1>4, <2>2, <2>3 DEF Tear
  <1>5. ASSUME NEW r \in Request, Raise(r) PROVE LogInv'
    <2>1. /\ served' = Append(served, Entry([r EXCEPT !.status = 500])) /\ UNCHANGED <<log, open>>
          /\ raised' = raised + 1 /\ UNCHANGED <<clock, tears>>
      BY <1>5 DEF Raise
    <2>2. /\ tears' \in Nat /\ raised' \in Nat /\ clock' \in Int
          /\ 2 * tears' + raised' >= 2 * tears + raised + 1
      BY <1>1, <2>1
    <2>3. Entry([r EXCEPT !.status = 500]) \in Entries
      BY <1>2
    <2> HIDE DEF Entries
    <2> QED
      BY <2>1, <2>2, <2>3, ServedLater
  <1>6. ASSUME UNCHANGED <<log, open, served, tears, raised>>, clock' \in Int PROVE LogInv'
    BY <1>6 DEF LogInv, LogTyped, OpenLine, Lost, Closed
  <1>7. CASE SetClock
    BY <1>1, <1>6, <1>7 DEF SetClock
  <1>8. CASE UNCHANGED logVars
    BY <1>1, <1>6, <1>8 DEF logVars
  <1> QED
    BY <1>3, <1>4, <1>5, <1>7, <1>8 DEF NextLog

LEMMA LogHolds == LogInv => TornWriteCostsTwo
  <1> SUFFICES ASSUME LogInv PROVE TornWriteCostsTwo
    OBVIOUS
  <1>1. LoadLogEntries = Read(log)
    BY DEF LoadLogEntries, Read
  <1>2. Closed \in Lines /\ Read(Closed) \in Seq(Entries) /\ Len(Read(Closed)) \in Nat
    <2>1. Closed \in Lines
      BY LastLine DEF LogInv, LogTyped, OpenLine, Closed
    <2> QED
      BY <2>1, ReadType, LenProperties
  <1>3. Len(Read(log)) \in Nat /\ Len(served) \in Nat /\ tears \in Nat /\ raised \in Nat
    BY ReadType, LenProperties DEF LogInv, LogTyped
  <1>4. Len(Read(log)) >= Len(Read(Closed))
    <2>1. CASE open
      <3>1. log = Append(Closed, Last(log)) /\ Last(log) \in Seq(Piece)
        BY <2>1, LastLine DEF LogInv, LogTyped, OpenLine, Closed
      <3>2. Read(Append(Closed, Last(log))) = Taken(Read(Closed), Last(log))
        BY <1>2, <3>1, ReadStep
      <3>3. Read(log) = Taken(Read(Closed), Last(log))
        BY <3>1, <3>2
      <3>4. CASE Parses(Last(log))
        <4>1. Last(log)[1] \in Piece
          BY <3>1, <3>4, 1 \in 1 .. Len(Last(log)), ElementOfSeq DEF Parses
        <4>2. Last(log)[1].entry \in Entries
          BY <4>1 DEF Piece
        <4> QED
          BY <1>2, <3>3, <3>4, <4>2, AppendProperties DEF Taken
      <3> QED
        BY <1>2, <3>3, <3>4 DEF Taken
    <2>2. CASE ~open
      BY <1>2, <2>2 DEF Closed
    <2> QED
      BY <2>1, <2>2
  <1>5. Len(served) <= Len(Read(Closed)) + 2 * tears + raised
    BY <1>2, <1>3 DEF LogInv, Lost
  <1>6. Len(Read(log)) >= Len(served) - 2 * tears - raised
    BY <1>2, <1>3, <1>4, <1>5
  <1>7. Embeds(Read(log), served)
    BY DEF LogInv
  <1> QED
    BY <1>1, <1>6, <1>7 DEF TornWriteCostsTwo, Embeds

(* However many requests the application serves, with what clock and        *)
(* however many appends that stop short or handlers that raise: the         *)
(* analyzer reads, in order, all entries but two for each such append and   *)
(* one for each such handler (dispatch of app/middleware/access_log.py and  *)
(* load_log_entries of app/analysis/log_analyzer.py).                       *)
THEOREM AccessLogTornWriteCostsTwo == Spec => []TornWriteCostsTwo
  <1>1. Init => LogInv
    BY LogStarts DEF Init
  <1>2. LogInv /\ [Next]_vars => LogInv'
    BY LogStep DEF Next, Logs, Grow, vars, logVars
  <1> QED
    BY <1>1, <1>2, LogHolds, PTL DEF Spec

-----------------------------------------------------------------------------

(* The Caesar cipher: remainders first. *)

LEMMA DivMod ==
    ASSUME NEW a \in Int, NEW p \in Nat \ {0}
    PROVE  a = p * (a \div p) + (a % p) /\ a % p \in 0 .. p - 1 /\ a \div p \in Int
  OBVIOUS

LEMMA ModOf ==
    ASSUME NEW p \in Nat \ {0}, NEW k \in Int, NEW r \in 0 .. p - 1
    PROVE  (p * k + r) % p = r
  OBVIOUS

LEMMA ModAdds ==
    ASSUME NEW p \in Nat \ {0}, NEW a \in Int, NEW b \in Int
    PROVE  ((a % p) + b) % p = (a + b) % p /\ (b + (a % p)) % p = (b + a) % p
  <1>1. PICK j \in Int, r \in 0 .. p - 1 : a = p * j + r /\ r = a % p
    BY DivMod
  <1>2. PICK k \in Int, t \in 0 .. p - 1 : r + b = p * k + t /\ t = (r + b) % p
    <2>1. r + b \in Int
      OBVIOUS
    <2> QED
      BY <2>1, DivMod
  <1>3. a + b = p * (j + k) + t /\ j + k \in Int
    BY <1>1, <1>2
  <1>4. (a + b) % p = t
    BY <1>3, ModOf
  <1>5. b + a = a + b /\ b + r = r + b
    BY <1>1
  <1> QED
    BY <1>1, <1>2, <1>4, <1>5

LEMMA ModBelow ==
    ASSUME NEW p \in Nat \ {0}, NEW r \in 0 .. p - 1
    PROVE  r % p = r
  <1>1. p * 0 + r = r /\ 0 \in Int
    OBVIOUS
  <1> QED
    BY <1>1, ModOf

Letters == 0 .. (AlphabetSize - 1)

LEMMA Alphabet == AlphabetSize \in Nat \ {0} /\ AlphabetSize >= 2
  BY CaesarAssumption

\* Texts that isalpha and the alphabet agree on.
Plain(text) == text \in Seq(Int) /\ \A i \in DOMAIN text : IsAlpha(text[i]) => InAlphabet(text[i])

\* A letter keeps its case.
LEMMA ShiftedLetter ==
    ASSUME NEW c \in Int, InAlphabet(c), NEW r \in Letters
    PROVE  /\ Base(c) \in {0, AlphabetSize} /\ c - Base(c) \in Letters
           /\ InAlphabet(Base(c) + r) /\ IsAlpha(Base(c) + r)
           /\ Base(Base(c) + r) = Base(c)
           /\ Base(c) + r \in Int
  BY Alphabet DEF InAlphabet, Base, IsUpper, IsAlpha, Letters

LEMMA ShiftType ==
    ASSUME NEW text, Plain(text), NEW k \in Int
    PROVE  Plain(ShiftText(text, k)) /\ DOMAIN ShiftText(text, k) = DOMAIN text
  <1> DEFINE other == ShiftText(text, k)
  <1>1. text \in Seq(Int) /\ DOMAIN text = 1 .. Len(text) /\ Len(text) \in Nat
    BY LenProperties DEF Plain
  <1>2. ASSUME NEW i \in DOMAIN text
        PROVE  other[i] \in Int /\ (IsAlpha(other[i]) => InAlphabet(other[i]))
    <2>1. text[i] \in Int
      BY <1>1, ElementOfSeq
    <2>2. CASE IsAlpha(text[i])
      <3>1. InAlphabet(text[i])
        BY <2>2 DEF Plain
      <3>2. text[i] - Base(text[i]) + k \in Int
        BY <2>1, <3>1, ShiftedLetter, Alphabet DEF Letters
      <3>3. (text[i] - Base(text[i]) + k) % AlphabetSize \in Letters
        BY <3>2, Alphabet, DivMod DEF Letters
      <3>4. other[i] = Base(text[i]) + ((text[i] - Base(text[i]) + k) % AlphabetSize)
        BY <2>2 DEF ShiftText
      <3> QED
        BY <2>1, <3>1, <3>3, <3>4, ShiftedLetter
    <2>3. CASE ~IsAlpha(text[i])
      BY <2>1, <2>3 DEF ShiftText
    <2> QED
      BY <2>2, <2>3
  <1>3. DOMAIN other = DOMAIN text /\ other = [i \in 1 .. Len(text) |-> other[i]]
    BY <1>1 DEF ShiftText
  <1> HIDE DEF other
  <1>4. other \in [1 .. Len(text) -> Int]
    BY <1>1, <1>2, <1>3
  <1>5. other \in Seq(Int)
    BY <1>1, <1>4
  <1> QED
    BY <1>2, <1>3, <1>5 DEF Plain, other

\* Shifts add up; what counts is their remainder.
LEMMA ShiftAdds ==
    ASSUME NEW text, Plain(text), NEW k \in Int, NEW l \in Int
    PROVE  /\ ShiftText(ShiftText(text, k), l) = ShiftText(text, k + l)
           /\ ShiftText(text, k % AlphabetSize) = ShiftText(text, k)
           /\ ShiftText(text, 0) = text
  <1> DEFINE A == AlphabetSize
  <1>0. A \in Nat \ {0} /\ k % A \in Int
    BY Alphabet, DivMod
  <1>1. text \in Seq(Int) /\ DOMAIN text = 1 .. Len(text) /\ Len(text) \in Nat
    BY LenProperties DEF Plain
  <1>2. ASSUME NEW i \in DOMAIN text
        PROVE  /\ ShiftText(ShiftText(text, k), l)[i] = ShiftText(text, k + l)[i]
               /\ ShiftText(text, k % A)[i] = ShiftText(text, k)[i]
               /\ ShiftText(text, 0)[i] = text[i]
    <2>1. text[i] \in Int
      BY <1>1, ElementOfSeq
    <2>2. CASE IsAlpha(text[i])
      <3> DEFINE base == Base(text[i])
                 r == text[i] - base
                 one == (r + k) % A
      <3>1. InAlphabet(text[i])
        BY <2>2 DEF Plain
      <3>2. r \in 0 .. A - 1 /\ base \in Int /\ text[i] = base + r
        BY <2>1, <3>1, ShiftedLetter, Alphabet DEF Letters
      <3>3. \A n \in Int : ShiftText(text, n)[i] = base + ((r + n) % A)
        BY <2>2 DEF ShiftText
      <3>4. r + k \in Int /\ one \in 0 .. A - 1 /\ one = (r + k) % A
        <4>1. r + k \in Int
          BY <3>2
        <4> QED
          BY <1>0, <4>1, DivMod
      <3>5. /\ IsAlpha(base + one) /\ Base(base + one) = base
            /\ (base + one) - base = one
        BY <2>1, <3>1, <3>2, <3>4, ShiftedLetter DEF Letters
      <3> HIDE DEF base, r, one, A
      <3>6. ShiftText(text, k)[i] = base + one
        BY <3>3, <3>4
      <3>7. ShiftText(ShiftText(text, k), l)[i] = base + ((one + l) % A)
        <4> DEFINE other == ShiftText(text, k)
        <4>1. DOMAIN other = DOMAIN text
          BY DEF ShiftText
        <4> HIDE DEF other
        <4>2. ShiftText(other, l)[i] =
                 IF IsAlpha(other[i]) THEN Base(other[i]) + ((other[i] - Base(other[i]) + l) % A) ELSE other[i]
          BY <4>1 DEF ShiftText, A
        <4>3. other[i] = base + one
          BY <3>6 DEF other
        <4>4. IsAlpha(other[i]) /\ Base(other[i]) = base /\ other[i] - Base(other[i]) = one
          BY <3>5, <4>3
        <4> QED
          BY <4>2, <4>4 DEF other
      <3>8. (one + l) % A = (r + (k + l)) % A
        <4>1. (((r + k) % A) + l) % A = ((r + k) + l) % A
          BY <1>0, <3>4, ModAdds
        <4>2. (r + k) + l = r + (k + l)
          BY <1>0, <3>2
        <4> QED
          BY <3>4, <4>1, <4>2
      <3>9. (r + (k % A)) % A = (r + k) % A
        <4>1. r \in Int
          BY <3>2
        <4> QED
          BY <1>0, <4>1, ModAdds
      <3>10. (r + 0) % A = r
        <4>1. r % A = r
          BY <1>0, <3>2, ModBelow
        <4>2. r + 0 = r
          BY <3>2
        <4> QED
          BY <4>1, <4>2
      <3>11. ShiftText(ShiftText(text, k), l)[i] = ShiftText(text, k + l)[i]
        <4>1. k + l \in Int
          OBVIOUS
        <4> QED
          BY <3>3, <3>7, <3>8, <4>1
      <3>12. ShiftText(text, k % A)[i] = ShiftText(text, k)[i]
        BY <1>0, <3>3, <3>9
      <3>13. ShiftText(text, 0)[i] = text[i]
        BY <3>2, <3>3, <3>10, 0 \in Int
      <3> QED
        BY <3>11, <3>12, <3>13
    <2>3. CASE ~IsAlpha(text[i])
      BY <2>1, <2>3 DEF ShiftText
    <2> QED
      BY <2>2, <2>3
  <1>3. \A n \in Int : ShiftText(text, n) = [i \in DOMAIN text |-> ShiftText(text, n)[i]]
    BY DEF ShiftText
  <1>4. ShiftText(ShiftText(text, k), l) = [i \in DOMAIN text |-> ShiftText(ShiftText(text, k), l)[i]]
    BY DEF ShiftText
  <1>5. text = [i \in DOMAIN text |-> text[i]]
    BY <1>1
  <1>6. k + l \in Int /\ 0 \in Int
    OBVIOUS
  <1>7. ShiftText(ShiftText(text, k), l) = ShiftText(text, k + l)
    BY <1>2, <1>3, <1>4, <1>6
  <1>8. ShiftText(text, k % A) = ShiftText(text, k)
    BY <1>0, <1>2, <1>3
  <1>9. ShiftText(text, 0) = text
    BY <1>2, <1>3, <1>5, <1>6
  <1> QED
    BY <1>7, <1>8, <1>9

\* What a letter adds to the score.
Square(text, letter) ==
    (100 * Observed(text, letter) - LetterCount(text) * LetterFrequency[letter])
        * (100 * Observed(text, letter) - LetterCount(text) * LetterFrequency[letter])

LEMMA SquareType ==
    ASSUME NEW text \in Seq(Int), NEW letter \in Letters
    PROVE  Square(text, letter) \in Nat
  <1> DEFINE d == 100 * Observed(text, letter) - LetterCount(text) * LetterFrequency[letter]
  <1>1. DOMAIN text = 1 .. Len(text) /\ Len(text) \in Nat /\ IsFiniteSet(DOMAIN text)
    BY LenProperties, FS_Interval
  <1>2. \A S \in SUBSET DOMAIN text : Cardinality(S) \in Nat
    BY <1>1, FS_Subset, FS_CardinalityType
  <1>3. Observed(text, letter) \in Nat /\ LetterCount(text) \in Nat
    BY <1>2 DEF Observed, LetterCount
  <1>4. LetterFrequency[letter] \in Nat
    BY CaesarAssumption DEF Letters
  <1>5. d \in Int
    BY <1>3, <1>4
  <1>6. Square(text, letter) = d * d
    BY DEF Square
  <1> HIDE DEF d
  <1>7. d * d \in Nat
    BY <1>5
  <1> QED
    BY <1>6, <1>7

LEMMA ScoreType ==
    ASSUME NEW text \in Seq(Int)
    PROVE  EnglishLikenessScore(text) \in Nat
  <1> DEFINE pick == [s \in SUBSET Letters |-> CHOOSE x \in s : TRUE]
             step == [p \in Letters \X Nat |-> Square(text, p[1]) + p[2]]
             IsScoring(fold) ==
                 fold = [s \in SUBSET Letters |->
                            IF s = {} THEN 0
                            ELSE Square(text, CHOOSE x \in s : TRUE) + fold[s \ {CHOOSE x \in s : TRUE}]]
             it == CHOOSE fold : IsScoring(fold)
  <1>1. IsFiniteSet(Letters)
    BY Alphabet, FS_Interval DEF Letters
  <1>2. \A s \in SUBSET Letters : s # {} =>
            /\ pick[s] \in s /\ pick[s] = CHOOSE x \in s : TRUE
            /\ s \ {pick[s]} \in SUBSET Letters
    OBVIOUS
  <1>3. step \in [Letters \X Nat -> Nat]
    BY SquareType
  <1>4. PICK fold \in [SUBSET Letters -> Nat] : IsFold(fold, Letters, pick, 0, step)
    <2>1. 0 \in Nat
      OBVIOUS
    <2> HIDE DEF pick, step
    <2> QED
      BY <1>1, <1>2, <1>3, <2>1, FoldExists
  <1>5. IsScoring(fold)
    <2>1. ASSUME NEW s \in SUBSET Letters, s # {}
          PROVE  fold[s] = Square(text, CHOOSE x \in s : TRUE) + fold[s \ {CHOOSE x \in s : TRUE}]
      <3>1. pick[s] \in Letters /\ fold[s \ {pick[s]}] \in Nat
        BY <1>2, <1>4, <2>1
      <3>2. fold[s] = step[<<pick[s], fold[s \ {pick[s]}]>>]
        BY <1>4, <2>1 DEF IsFold
      <3>3. fold[s] = Square(text, pick[s]) + fold[s \ {pick[s]}]
        <4>1. \A x \in Letters, n \in Nat : step[<<x, n>>] = Square(text, x) + n
          OBVIOUS
        <4> HIDE DEF step, pick
        <4> QED
          BY <3>1, <3>2, <4>1
      <3> QED
        BY <1>2, <2>1, <3>3
    <2>2. fold[{}] = 0
      BY <1>4 DEF IsFold
    <2> QED
      BY <2>1, <2>2
  <1>6. IsScoring(it)
    BY <1>5
  <1>7. EnglishLikenessScore(text) = it[Letters]
    BY DEF EnglishLikenessScore, MapThenSumSet, MapThenFoldSet, Square, Letters
  <1> DEFINE All == SUBSET Letters
  <1> HIDE DEF it, pick
  <1>8. \A s \in All : it[s] = IF s = {} THEN 0 ELSE Square(text, pick[s]) + it[s \ {pick[s]}]
    BY <1>2, <1>6
  <1>9. \A s \in All :
            /\ IsFiniteSet(s) /\ Cardinality(s) \in Nat /\ (Cardinality(s) = 0 <=> s = {})
            /\ s # {} => /\ Cardinality(s \ {pick[s]}) = Cardinality(s) - 1
                         /\ s \ {pick[s]} \in All /\ pick[s] \in Letters
    BY <1>1, <1>2, FS_Subset, FS_CardinalityType, FS_EmptySet, FS_RemoveElement
  <1> DEFINE Sizes == {k \in Nat : \A s \in All : Cardinality(s) = k => it[s] \in Nat}
  <1>14. Letters \in All
    OBVIOUS
  <1> HIDE DEF All
  <1>10. 0 \in Sizes
    BY <1>8, <1>9
  <1>11. ASSUME NEW k \in Nat, k \in Sizes PROVE k + 1 \in Sizes
    <2>1. ASSUME NEW s \in All, Cardinality(s) = k + 1 PROVE it[s] \in Nat
      <3>1. s # {}
        BY <1>9, <2>1, k + 1 # 0
      <3>2. Cardinality(s \ {pick[s]}) = k /\ s \ {pick[s]} \in All /\ pick[s] \in Letters
        <4>1. /\ Cardinality(s \ {pick[s]}) = Cardinality(s) - 1
              /\ s \ {pick[s]} \in All /\ pick[s] \in Letters
          BY Zenon, <1>9, <3>1
        <4> QED
          BY <2>1, <4>1
      <3>3. it[s \ {pick[s]}] \in Nat
        BY <1>11, <3>2
      <3>4. Square(text, pick[s]) \in Nat
        BY <3>2, SquareType
      <3>5. it[s] = Square(text, pick[s]) + it[s \ {pick[s]}]
        BY Zenon, <1>8, <3>1
      <3> QED
        BY <3>3, <3>4, <3>5
    <2> QED
      BY <2>1
  <1> HIDE DEF Sizes
  <1>12. \A k \in Nat : k \in Sizes
    BY <1>10, <1>11, AllNaturals
  <1>13. it[Letters] \in Nat
    BY <1>9, <1>12, <1>14 DEF Sizes
  <1> QED
    BY <1>7, <1>13

\* The cracker's choice is the least of all scores, and the first of equals.
LEMMA BestIsLeast ==
    ASSUME NEW text, Plain(text)
    PROVE  /\ BestShift(text) \in Shifts
           /\ \A s \in Shifts : EnglishLikenessScore(CaesarDecrypt(text, BestShift(text)))
                                  <= EnglishLikenessScore(CaesarDecrypt(text, s))
  <1> DEFINE score(s) == EnglishLikenessScore(CaesarDecrypt(text, s))
             Scores == {score(s) : s \in Shifts}
  <1>1. \A s \in Shifts : s \in Nat /\ score(s) \in Nat
    <2>1. ASSUME NEW s \in Shifts PROVE s \in Nat /\ score(s) \in Nat
      <3>1. s \in Nat /\ -s \in Int
        BY Alphabet DEF Shifts
      <3>2. ShiftText(text, -s) \in Seq(Int)
        BY <3>1, ShiftType DEF Plain
      <3> QED
        BY <3>1, <3>2, ScoreType DEF CaesarDecrypt
    <2> QED
      BY <2>1
  <1>2. 1 \in Shifts
    BY Alphabet DEF Shifts
  <1>3. PICK least \in Scores : \A n \in Scores : least <= n
    <2>1. Scores \in SUBSET Nat /\ Scores # {}
      BY <1>1, <1>2
    <2> QED
      BY <2>1, LeastOf
  <1> DEFINE Leasts == {s \in Shifts : score(s) = least}
  <1>4. PICK first \in Leasts : \A s \in Leasts : first <= s
    <2>1. Leasts \in SUBSET Nat /\ Leasts # {}
      BY <1>1, <1>3
    <2> HIDE DEF Leasts
    <2> QED
      BY <2>1, LeastOf
  <1> DEFINE IsBest(s) ==
                 /\ s \in Shifts
                 /\ \A other \in Shifts :
                       score(s) < score(other) \/ (score(s) = score(other) /\ s <= other)
  <1>5. IsBest(first)
    <2>1. ASSUME NEW other \in Shifts
          PROVE  score(first) < score(other) \/ (score(first) = score(other) /\ first <= other)
      <3>1. score(first) = least /\ first \in Shifts
        BY <1>4
      <3>2. score(other) \in Scores /\ score(other) \in Nat /\ least \in Nat
        BY <1>1, <3>1
      <3>3. least <= score(other)
        BY <1>3, <3>2
      <3>4. CASE score(other) = least
        BY <1>4, <3>1, <3>4
      <3>5. CASE score(other) # least
        <4> HIDE DEF score
        <4> QED
          BY <3>1, <3>2, <3>3, <3>5
      <3> QED
        BY <3>4, <3>5
    <2> QED
      BY <1>4, <2>1
  <1>6. BestShift(text) = CHOOSE s \in Shifts :
            \A other \in Shifts : score(s) < score(other) \/ (score(s) = score(other) /\ s <= other)
    BY DEF BestShift
  <1>7. IsBest(BestShift(text))
    <2> HIDE DEF score
    <2> QED
      BY <1>5, <1>6
  <1>8. \A s \in Shifts : score(BestShift(text)) <= score(s)
    <2> HIDE DEF score
    <2> QED
      BY <1>1, <1>7
  <1> QED
    BY <1>7, <1>8

\* Every text that the alphabet covers is cracked, whatever the alphabet and its frequencies.
LEMMA EveryTextCracked ==
    ASSUME NEW text, text \in Seq(Int)
    PROVE  CracksText(text)
  <1> SUFFICES ASSUME Plain(text), NEW key \in Shifts
               PROVE  LET ciphertext == CaesarEncrypt(text, key)
                      IN  /\ CaesarDecrypt(ciphertext, key) = text
                          /\ EnglishLikenessScore(BestPlaintext(ciphertext)) <= EnglishLikenessScore(text)
                          /\ ~HasRival(text, key) => BestShift(ciphertext) = key
    BY DEF CracksText, Plain
  <1> DEFINE ciphertext == CaesarEncrypt(text, key)
  <1>1. key \in Int /\ ciphertext = ShiftText(text, key) /\ Plain(ciphertext)
    BY Alphabet, ShiftType DEF Shifts, CaesarEncrypt
  <1>2. \A s \in Int : CaesarDecrypt(ciphertext, s) = ShiftText(text, key + (-s))
    BY <1>1, ShiftAdds DEF CaesarDecrypt
  <1>3. CaesarDecrypt(ciphertext, key) = text
    <2>1. key + (-key) = 0
      BY <1>1
    <2> QED
      BY <1>1, <1>2, <2>1, ShiftAdds
  <1> DEFINE best == BestShift(ciphertext)
  <1>4. best \in Shifts /\ EnglishLikenessScore(CaesarDecrypt(ciphertext, best)) <= EnglishLikenessScore(text)
    BY <1>1, <1>3, BestIsLeast
  <1>5. ASSUME best # key PROVE HasRival(text, key)
    <2> HIDE DEF ciphertext, best
    <2> DEFINE A == AlphabetSize
               rest == (key + (-best)) % A
    <2>1. A \in Nat /\ A >= 2 /\ key \in 1 .. A - 1 /\ best \in 1 .. A - 1
      BY <1>4, Alphabet DEF Shifts
    <2>2. rest = IF key > best THEN key - best ELSE key - best + A
      <3>1. CASE key > best
        <4>1. key + (-best) \in 0 .. A - 1
          BY <2>1, <3>1
        <4>2. rest = key + (-best)
          <5>1. A \in Nat \ {0}
            BY <2>1
          <5> QED
            BY <4>1, <5>1, ModBelow
        <4> QED
          BY <2>1, <3>1, <4>2
      <3>2. CASE ~(key > best)
        <4>1. key - best + A \in 0 .. A - 1
          BY <1>5, <2>1, <3>2
        <4>2. key + (-best) = A * (-1) + (key - best + A)
          BY <2>1
        <4>3. (A * (-1) + (key - best + A)) % A = key - best + A
          BY <2>1, <4>1, ModOf
        <4> QED
          BY <3>2, <4>2, <4>3
      <3> QED
        BY <3>1, <3>2
    <2>3. key + (-best) \in Int
      BY <2>1
    <2>4. ShiftText(text, rest) = CaesarDecrypt(ciphertext, best)
      BY <1>2, <2>1, <2>3, ShiftAdds
    <2>5. rest \in Shifts \ {key}
      <3> HIDE DEF rest
      <3> QED
        BY <1>5, <2>1, <2>2 DEF Shifts
    <2> QED
      BY <1>4, <2>4, <2>5 DEF HasRival, best
  <1> QED
    BY <1>3, <1>4, <1>5 DEF BestPlaintext

(* Whatever the alphabet and its frequencies are and whatever text of it was *)
(* encrypted with whatever shift: the cracker gives the text and the shift  *)
(* back, unless another shift of the text is as English (caesar_encrypt and *)
(* brute_force_crack of app/vault/caesar_cipher.py).                        *)
THEOREM CaesarTextsCracked == Spec => []CaesarCracked
  <1> DEFINE TextTyped == job = "text" => input \in Seq(Int)
  <1>1. Init => TextTyped
    BY EmptySeq DEF Init
  <1>2. TextTyped /\ [Next]_vars => TextTyped'
    <2> SUFFICES ASSUME TextTyped, [Next]_vars, job' = "text" PROVE input' \in Seq(Int)
      OBVIOUS
    <2>1. job = "text" /\ input \in Seq(Int)
      BY DEF Next, Logs, Grow, vars
    <2>2. CASE Grow
      <3>1. PICK piece \in Pieces : input' = Append(input, piece)
        BY <2>2 DEF Grow
      <3>2. Pieces = NoLetter .. (2 * AlphabetSize)
        BY <2>1 DEF Pieces
      <3>3. piece \in Int
        BY <3>1, <3>2, Alphabet DEF NoLetter
      <3> QED
        BY <2>1, <3>1, <3>3, AppendProperties
    <2>3. CASE UNCHANGED input
      BY <2>1, <2>3
    <2> QED
      BY <2>2, <2>3 DEF Next, Logs, vars
  <1>3. TextTyped => CaesarCracked
    BY EveryTextCracked DEF CaesarCracked
  <1> QED
    BY <1>1, <1>2, <1>3, PTL DEF Spec

-----------------------------------------------------------------------------

(* The report on groups of users. *)

\* The groups after one more record.
Joined(groups, key) ==
    [g \in DOMAIN groups \cup {key} |->
        (IF g \in DOMAIN groups THEN groups[g] ELSE 0) + (IF g = key THEN 1 ELSE 0)]

\* What the one pass is to have counted in the first k records.
Like(records, k, g) == {i \in 1 .. k : records[i] = g}
Counted(records, k) == [g \in {records[i] : i \in 1 .. k} |-> Cardinality(Like(records, k, g))]

LEMMA LikeNext ==
    ASSUME NEW records, NEW k \in Nat, NEW g
    PROVE  /\ IsFiniteSet(Like(records, k, g)) /\ Cardinality(Like(records, k, g)) \in Nat
           /\ Cardinality(Like(records, k + 1, g)) =
                 Cardinality(Like(records, k, g)) + (IF g = records[k + 1] THEN 1 ELSE 0)
           /\ g \notin {records[i] : i \in 1 .. k} => Cardinality(Like(records, k, g)) = 0
  <1>1. IsFiniteSet(1 .. k) /\ Like(records, k, g) \in SUBSET (1 .. k)
    BY FS_Interval DEF Like
  <1>2. IsFiniteSet(Like(records, k, g)) /\ Cardinality(Like(records, k, g)) \in Nat
    BY <1>1, FS_Subset, FS_CardinalityType
  <1>3. k + 1 \notin Like(records, k, g)
    BY DEF Like
  <1>4. CASE g = records[k + 1]
    <2>1. Like(records, k + 1, g) = Like(records, k, g) \cup {k + 1}
      BY <1>4 DEF Like
    <2> QED
      BY <1>2, <1>3, <1>4, <2>1, FS_AddElement, FS_EmptySet DEF Like
  <1>5. CASE g # records[k + 1]
    <2>1. Like(records, k + 1, g) = Like(records, k, g)
      BY <1>5 DEF Like
    <2> QED
      BY <1>2, <1>5, <2>1, FS_EmptySet DEF Like
  <1> QED
    BY <1>4, <1>5

LEMMA CountedNext ==
    ASSUME NEW records, NEW k \in Nat
    PROVE  Counted(records, k + 1) = Joined(Counted(records, k), records[k + 1])
  <1> DEFINE old == {records[i] : i \in 1 .. k}
             key == records[k + 1]
  <1>1. {records[i] : i \in 1 .. (k + 1)} = old \cup {key}
    <2>1. \A i \in 1 .. (k + 1) : i \in 1 .. k \/ i = k + 1
      OBVIOUS
    <2>2. \A i \in 1 .. k : i \in 1 .. (k + 1)
      OBVIOUS
    <2>3. k + 1 \in 1 .. (k + 1)
      OBVIOUS
    <2> QED
      BY <2>1, <2>2, <2>3
  <1>2. DOMAIN Counted(records, k) = old
    BY DEF Counted
  <1>3. \A g \in old \cup {key} :
            Cardinality(Like(records, k + 1, g)) =
                (IF g \in old THEN Cardinality(Like(records, k, g)) ELSE 0) + (IF g = key THEN 1 ELSE 0)
    BY LikeNext
  <1>4. \A g \in old : Counted(records, k)[g] = Cardinality(Like(records, k, g))
    BY DEF Counted
  <1>5. Joined(Counted(records, k), key) =
            [g \in old \cup {key} |->
                (IF g \in old THEN Cardinality(Like(records, k, g)) ELSE 0) + (IF g = key THEN 1 ELSE 0)]
    BY <1>2, <1>4 DEF Joined
  <1>6. Counted(records, k + 1) = [g \in old \cup {key} |-> Cardinality(Like(records, k + 1, g))]
    BY <1>1 DEF Counted
  <1> HIDE DEF old, key
  <1> QED
    BY <1>3, <1>5, <1>6 DEF key

LEMMA CountedNone == ASSUME NEW records PROVE Counted(records, 0) = <<>>
  <1> DEFINE none == Counted(records, 0)
  <1>1. {records[i] : i \in 1 .. 0} = 1 .. 0
    OBVIOUS
  <1>2. none \in [1 .. 0 -> Nat]
    BY <1>1 DEF Counted
  <1> HIDE DEF none
  <1>3. none \in Seq(Nat) /\ Len(none) = 0
    BY <1>2
  <1> QED
    BY <1>3, EmptySeq DEF none

LEMMA GroupsCounted ==
    ASSUME NEW n \in Nat, NEW R, NEW records \in [1 .. n -> R]
    PROVE  Groups(records) = Counted(records, n)
  <1> DEFINE V == UNION {[D -> Nat] : D \in SUBSET R}
             pick == [s \in SUBSET (1 .. n) |-> Max(s)]
             step == [p \in (1 .. n) \X V |-> Joined(p[2], records[p[1]])]
             IsGrouping(f) ==
                 f = [s \in SUBSET (DOMAIN records) |->
                            IF s = {} THEN <<>>
                            ELSE [g \in DOMAIN f[s \ {Max(s)}] \cup {records[Max(s)]} |->
                                     (IF g \in DOMAIN f[s \ {Max(s)}]
                                      THEN f[s \ {Max(s)}][g] ELSE 0)
                                     + (IF g = records[Max(s)] THEN 1 ELSE 0)]]
             it == CHOOSE f : IsGrouping(f)
  <1>1. DOMAIN records = 1 .. n /\ \A k \in 1 .. n : records[k] \in R
    OBVIOUS
  <1>2. \A groups \in V, key \in R : Joined(groups, key) \in V
    <2>1. ASSUME NEW groups \in V, NEW key \in R PROVE Joined(groups, key) \in V
      <3>1. PICK D \in SUBSET R : groups \in [D -> Nat]
        BY <2>1
      <3>2. DOMAIN groups \cup {key} \in SUBSET R
        BY <3>1
      <3>3. Joined(groups, key) \in [DOMAIN groups \cup {key} -> Nat]
        BY <3>1 DEF Joined
      <3> QED
        BY <3>2, <3>3
    <2> QED
      BY <2>1
  <1>3. <<>> \in V
    <2>1. <<>> \in [{} -> Nat] /\ {} \in SUBSET R
      OBVIOUS
    <2> QED
      BY <2>1
  <1> HIDE DEF V
  <1>4. step \in [(1 .. n) \X V -> V]
    BY <1>1, <1>2
  <1>5. \A s \in SUBSET (1 .. n) : s # {} => pick[s] \in s
    BY MaxOf
  <1>6. PICK fold \in [SUBSET (1 .. n) -> V] : IsFold(fold, 1 .. n, pick, <<>>, step)
    <2>1. IsFiniteSet(1 .. n)
      BY FS_Interval
    <2> HIDE DEF pick, step
    <2> QED
      BY <1>3, <1>4, <1>5, <2>1, FoldExists
  <1>7. IsGrouping(fold)
    <2>1. ASSUME NEW s \in SUBSET (1 .. n), s # {}
          PROVE  fold[s] = Joined(fold[s \ {Max(s)}], records[Max(s)])
      <3>1. Max(s) \in 1 .. n /\ s \ {Max(s)} \in SUBSET (1 .. n)
        BY <2>1, MaxOf
      <3>2. fold[s \ {Max(s)}] \in V
        BY <3>1
      <3>3. fold[s] = step[<<Max(s), fold[s \ {Max(s)}]>>]
        BY <1>6, <2>1 DEF IsFold
      <3> QED
        BY <3>1, <3>2, <3>3
    <2>2. fold[{}] = <<>>
      BY <1>6 DEF IsFold
    <2> QED
      BY <1>1, <2>1, <2>2 DEF Joined
  <1>8. IsGrouping(it)
    BY <1>7
  <1>9. Groups(records) = it[DOMAIN records]
    BY DEF Groups, FoldLeft, MapThenFoldSet
  <1> HIDE DEF it
  <1>10. \A s \in SUBSET (1 .. n) :
            it[s] = IF s = {} THEN <<>> ELSE Joined(it[s \ {Max(s)}], records[Max(s)])
    BY <1>1, <1>8 DEF Joined
  <1> DEFINE S == {k \in Nat : k <= n => it[1 .. k] = Counted(records, k)}
  <1>11. 0 \in S
    <2>1. 1 .. 0 = {} /\ {} \in SUBSET (1 .. n)
      OBVIOUS
    <2>2. it[{}] = <<>>
      BY <1>10, <2>1
    <2>3. Counted(records, 0) = <<>>
      BY CountedNone
    <2> QED
      BY <2>1, <2>2, <2>3
  <1>12. ASSUME NEW k \in Nat, k \in S PROVE k + 1 \in S
    <2>1. SUFFICES ASSUME k + 1 <= n PROVE it[1 .. (k + 1)] = Counted(records, k + 1)
      OBVIOUS
    <2>2. k \in 0 .. (n - 1) /\ it[1 .. k] = Counted(records, k)
      BY <1>12, <2>1
    <2>3. it[1 .. (k + 1)] = Joined(it[1 .. k], records[k + 1])
      <3> HIDE DEF S
      <3> DEFINE s == 1 .. (k + 1)
      <3>1. Max(s) = k + 1 /\ s \ {k + 1} = 1 .. k /\ s # {}
        BY UpTo
      <3>2. s \in SUBSET (1 .. n)
        BY <2>1
      <3> HIDE DEF s
      <3>3. it[s] = Joined(it[s \ {Max(s)}], records[Max(s)])
        BY <1>10, <3>1, <3>2, Zenon
      <3>4. it[s] = Joined(it[1 .. k], records[k + 1])
        BY <3>1, <3>3
      <3> QED
        BY <3>4 DEF s
    <2> QED
      BY <2>2, <2>3, CountedNext
  <1> HIDE DEF S
  <1>13. \A k \in Nat : k \in S
    BY <1>11, <1>12, AllNaturals
  <1>14. it[1 .. n] = Counted(records, n)
    BY <1>13 DEF S
  <1> QED
    BY <1>1, <1>9, <1>14

\* A set and its image under a function that keeps its elements apart.
LEMMA SameSize ==
    ASSUME NEW S, IsFiniteSet(S), NEW f, DOMAIN f = S, \A x, y \in S : f[x] = f[y] => x = y
    PROVE  Cardinality({f[x] : x \in S}) = Cardinality(S)
  <1> DEFINE T == {f[x] : x \in S}
             F == [x \in S |-> f[x]]
  <1>1. F \in [S -> T] /\ (\A x, y \in S : F[x] = F[y] => x = y) /\ \A t \in T : \E x \in S : F[x] = t
    OBVIOUS
  <1>2. F \in Bijection(S, T)
    BY <1>1, Fun_IsBij
  <1> QED
    BY <1>2, FS_Bijection, Fun_ExistsBij

LEMMA EveryGroupCounted ==
    ASSUME NEW X, NEW users \in Seq(X)
    PROVE  SinglesOut(users)
  <1> DEFINE n == Len(users)
             records == [i \in DOMAIN users |-> QuasiIdentifiers(users[i])]
             R == {records[i] : i \in 1 .. n}
             alike(i) == {j \in DOMAIN users : QuasiIdentifiers(users[j]) = QuasiIdentifiers(users[i])}
             Small == {g \in R : Cardinality(Like(records, n, g)) < K}
             report == [g \in Small |->
                           [group |-> g, group_size |-> Cardinality(Like(records, n, g)), required_k |-> K]]
             members == [g \in Small |-> Like(records, n, g)]
  <1>1. n \in Nat /\ DOMAIN users = 1 .. n /\ records \in [1 .. n -> R]
    BY LenProperties
  <1>2. Groups(records) = Counted(records, n)
    <2> HIDE DEF records, n, R
    <2> QED
      BY <1>1, GroupsCounted
  <1>3. IsFiniteSet(Small)
    <2>1. IsFiniteSet(1 .. n)
      <3> HIDE DEF n
      <3>1. 1 \in Int /\ n \in Int
        BY <1>1
      <3> QED
        BY <3>1, FS_Interval
    <2> DEFINE f == [i \in 1 .. n |-> records[i]]
    <2>2. f \in Surjection(1 .. n, R)
      BY DEF Surjection
    <2> HIDE DEF f, R, records, n
    <2>3. IsFiniteSet(R)
      BY <2>1, <2>2, FS_Surjection
    <2> QED
      BY <2>3, FS_Subset
  <1>4. CheckKAnonymity(records) = {report[g] : g \in Small}
    <2> HIDE DEF records
    <2>1. /\ DOMAIN Groups(records) = R
          /\ \A g \in R : Groups(records)[g] = Cardinality(Like(records, n, g))
      BY <1>2 DEF Counted
    <2> HIDE DEF R
    <2> QED
      BY <2>1 DEF CheckKAnonymity
  <1>5. \A i \in 1 .. n : alike(i) = Like(records, n, records[i])
    BY <1>1 DEF Like
  <1>6. {alike(i) : i \in {m \in DOMAIN users : Cardinality(alike(m)) < K}} = {members[g] : g \in Small}
    <2> HIDE DEF alike, records, n
    <2> QED
      BY <1>1, <1>5
  <1>7. \A g, h \in Small : members[g] = members[h] => g = h
    <2>1. ASSUME NEW g \in Small, NEW h \in Small, members[g] = members[h] PROVE g = h
      <3>1. PICK i \in 1 .. n : g = records[i]
        OBVIOUS
      <3>2. i \in Like(records, n, h)
        BY <2>1, <3>1 DEF Like
      <3> QED
        BY <3>1, <3>2 DEF Like
    <2> QED
      BY <2>1
  <1>8. \A g, h \in Small : report[g] = report[h] => g = h
    OBVIOUS
  <1>9. Cardinality(CheckKAnonymity(records)) =
            Cardinality({alike(i) : i \in {m \in DOMAIN users : Cardinality(alike(m)) < K}})
    <2>1. DOMAIN report = Small /\ DOMAIN members = Small
      OBVIOUS
    <2> HIDE DEF alike, records, n, Small, report, members
    <2>2. Cardinality({report[g] : g \in Small}) = Cardinality(Small)
      BY <1>3, <1>8, <2>1, SameSize
    <2>3. Cardinality({members[g] : g \in Small}) = Cardinality(Small)
      BY <1>3, <1>7, <2>1, SameSize
    <2> QED
      BY <1>4, <1>6, <2>2, <2>3
  <1> DEFINE few == Cardinality({alike(i) : i \in {m \in DOMAIN users : Cardinality(alike(m)) < K}})
  <1>10. ASSUME NEW epsilon \in {-1, 0, 1}, NEW noise \in {-1, 0, 2}
         PROVE  IF epsilon <= 0 THEN AggregatedReport(users, epsilon, noise) = ServerError
                ELSE AggregatedReport(users, epsilon, noise).k_anonymity_violations = few
    <2>1. CASE epsilon <= 0
      BY <2>1 DEF AggregatedReport
    <2>2. CASE ~(epsilon <= 0)
      <3>1. Cardinality(CheckKAnonymity(records)) = few
        BY <1>9
      <3> DEFINE violations == Cardinality(CheckKAnonymity(records))
                 count == Len(users) + noise
      <3>2. AggregatedReport(users, epsilon, noise) =
                [noisy_user_count |-> count, k_anonymity_violations |-> violations]
        BY <2>2 DEF AggregatedReport
      <3> HIDE DEF violations, count, few
      <3>3. AggregatedReport(users, epsilon, noise).k_anonymity_violations = violations
        BY <3>2
      <3> QED
        BY <2>2, <3>1, <3>3 DEF violations
    <2> QED
      BY <2>1, <2>2
  <1> HIDE DEF few, records
  <1> QED
    BY <1>10 DEF SinglesOut, few

(* Whatever K and however many users there are: the report counts as        *)
(* violations exactly the groups of fewer than K users that share role and  *)
(* length of name, although it makes one pass only and knows nothing of who *)
(* is in a group (check_k_anonymity and generate_aggregated_report of       *)
(* app/privacy/differential_privacy.py).                                    *)
THEOREM ReportCountsSmallGroups == Spec => []SmallGroupsCounted
  <1> DEFINE Users == [role : {"user", "admin"}, length : {4, 5, 9}]
             UsersTyped == job = "users" => input \in Seq(Users)
  <1>1. Init => UsersTyped
    BY EmptySeq DEF Init
  <1>2. UsersTyped /\ [Next]_vars => UsersTyped'
    <2> SUFFICES ASSUME UsersTyped, [Next]_vars, job' = "users" PROVE input' \in Seq(Users)
      OBVIOUS
    <2>1. job = "users" /\ input \in Seq(Users)
      BY DEF Next, Logs, Grow, vars
    <2>2. CASE Grow
      <3>1. PICK piece \in Pieces : input' = Append(input, piece)
        BY <2>2 DEF Grow
      <3>2. Pieces = Users
        BY <2>1 DEF Pieces
      <3> HIDE DEF Users
      <3> QED
        BY <2>1, <3>1, <3>2, AppendProperties
    <2>3. CASE UNCHANGED input
      BY <2>1, <2>3
    <2> QED
      BY <2>2, <2>3 DEF Next, Logs, vars
  <1>3. UsersTyped => SmallGroupsCounted
    BY EveryGroupCounted DEF SmallGroupsCounted
  <1> QED
    BY <1>1, <1>2, <1>3, PTL DEF Spec

-----------------------------------------------------------------------------

(* Filtering, whatever the sequence. *)

Chosen(kept, e, W) == IF e \in W THEN Append(kept, e) ELSE kept

\* What was kept after each element.
Filters(run, s, W) ==
    /\ run[0] = <<>>
    /\ \A k \in 0 .. (Len(s) - 1) : run[k + 1] = Chosen(run[k], s[k + 1], W)

LEMMA FilterRuns ==
    ASSUME NEW X, NEW s \in Seq(X), NEW W
    PROVE  \E run : Filters(run, s, W) /\ run[Len(s)] = Filter(s, W)
  <1> DEFINE n == Len(s)
             V == Seq(X)
             pick == [t \in SUBSET (1 .. n) |-> Max(t)]
             step == [p \in (1 .. n) \X V |-> Chosen(p[2], s[p[1]], W)]
             IsFilter(f) ==
                 f = [t \in SUBSET (DOMAIN s) |->
                            IF t = {} THEN <<>>
                            ELSE IF s[Max(t)] \in W
                                 THEN Append(f[t \ {Max(t)}], s[Max(t)])
                                 ELSE f[t \ {Max(t)}]]
  <1>1. /\ n \in Nat /\ DOMAIN s = 1 .. n
        /\ \A k \in 1 .. n : s[k] \in X
    OBVIOUS
  <1>2. step \in [(1 .. n) \X V -> V]
    <2>1. ASSUME NEW p \in (1 .. n) \X V PROVE Chosen(p[2], s[p[1]], W) \in V
      <3>1. p[1] \in 1 .. n /\ p[2] \in Seq(X)
        BY <2>1
      <3>2. s[p[1]] \in X
        BY <1>1, <3>1
      <3> QED
        BY <3>1, <3>2, AppendProperties DEF Chosen
    <2> QED
      BY <2>1
  <1>3. \A t \in SUBSET (1 .. n) : t # {} => pick[t] \in t
    BY <1>1, MaxOf
  <1>4. \E fold \in [SUBSET (1 .. n) -> V] : IsFold(fold, 1 .. n, pick, <<>>, step)
    <2>1. IsFiniteSet(1 .. n)
      <3> HIDE DEF n
      <3>1. 1 \in Int /\ n \in Int
        BY <1>1
      <3> QED
        BY <3>1, FS_Interval
    <2>2. <<>> \in V
      BY EmptySeq
    <2> HIDE DEF V, pick, step
    <2> QED
      BY <1>2, <1>3, <2>1, <2>2, FoldExists
  <1>5. PICK fold \in [SUBSET (1 .. n) -> V] : IsFold(fold, 1 .. n, pick, <<>>, step)
    BY <1>4
  <1>6. IsFilter(fold)
    <2>1. ASSUME NEW t \in SUBSET (1 .. n), t # {}
          PROVE  fold[t] = Chosen(fold[t \ {Max(t)}], s[Max(t)], W)
      <3>1. Max(t) \in 1 .. n /\ t \ {Max(t)} \in SUBSET (1 .. n)
        BY <1>1, <2>1, MaxOf
      <3>2. fold[t \ {Max(t)}] \in V
        BY <3>1
      <3>3. fold[t] = step[<<Max(t), fold[t \ {Max(t)}]>>]
        BY <1>5, <2>1 DEF IsFold
      <3> QED
        BY <3>1, <3>2, <3>3
    <2>2. fold[{}] = <<>>
      BY <1>5 DEF IsFold
    <2> QED
      BY <1>1, <2>1, <2>2 DEF Chosen
  <1> DEFINE it == CHOOSE f : IsFilter(f)
  <1>7. IsFilter(it)
    BY <1>6
  <1>8. Filter(s, W) = it[DOMAIN s]
    BY DEF Filter, FoldLeft, MapThenFoldSet
  <1> HIDE DEF it
  <1>9. \A t \in SUBSET (1 .. n) : it[t] = IF t = {} THEN <<>> ELSE Chosen(it[t \ {Max(t)}], s[Max(t)], W)
    BY <1>1, <1>7 DEF Chosen
  <1> DEFINE run == [k \in 0 .. n |-> it[1 .. k]]
  <1>10. run[0] = <<>>
    <2>1. 1 .. 0 = {} /\ {} \in SUBSET (1 .. n) /\ 0 \in 0 .. n
      BY <1>1
    <2>2. it[{}] = <<>>
      BY <1>9, <2>1
    <2> QED
      BY <2>1, <2>2
  <1>11. ASSUME NEW k \in 0 .. (n - 1) PROVE run[k + 1] = Chosen(run[k], s[k + 1], W)
    <2>1. it[1 .. (k + 1)] = Chosen(it[1 .. k], s[k + 1], W)
      BY <1>1, <1>9, UpTo
    <2>2. run[k + 1] = it[1 .. (k + 1)] /\ run[k] = it[1 .. k]
      BY <1>1
    <2> QED
      BY <2>1, <2>2
  <1>12. run[n] = Filter(s, W)
    BY <1>1, <1>8
  <1>13. Filters(run, s, W)
    <2> HIDE DEF run
    <2> QED
      BY <1>10, <1>11 DEF Filters
  <1> QED
    BY <1>12, <1>13

\* The two laws that make a filter.
LEMMA FilterNone == ASSUME NEW W PROVE Filter(<<>>, W) = <<>>
  <1>1. PICK run : Filters(run, <<>>, W) /\ run[Len(<<>>)] = Filter(<<>>, W)
    <2>1. <<>> \in Seq({})
      BY EmptySeq
    <2> QED
      BY <2>1, FilterRuns
  <1>2. run[0] = <<>> /\ Len(<<>>) = 0
    BY <1>1 DEF Filters
  <1> QED
    BY <1>1, <1>2

LEMMA FilterAppend ==
    ASSUME NEW X, NEW s \in Seq(X), NEW x \in X, NEW W
    PROVE  Filter(Append(s, x), W) = Chosen(Filter(s, W), x, W)
  <1> DEFINE more == Append(s, x)
             n == Len(s)
  <1>1. /\ more \in Seq(X) /\ n \in Nat /\ Len(more) = n + 1
        /\ \A k \in 1 .. n : more[k] = s[k]
        /\ more[n + 1] = x
    BY AppendProperties, LenProperties
  <1> HIDE DEF more, n
  <1>2. PICK run : Filters(run, s, W) /\ run[n] = Filter(s, W)
    BY FilterRuns DEF n
  <1>3. PICK next : Filters(next, more, W) /\ next[n + 1] = Filter(more, W)
    BY <1>1, FilterRuns
  <1>4. /\ run[0] = next[0]
        /\ \A k \in Nat : k < n => /\ run[k + 1] = Chosen(run[k], s[k + 1], W)
                                 /\ next[k + 1] = Chosen(next[k], s[k + 1], W)
        /\ next[n + 1] = Chosen(next[n], x, W)
    BY <1>1, <1>2, <1>3 DEF Filters, n
  <1> DEFINE S == {k \in Nat : k <= n => run[k] = next[k]}
  <1>5. 0 \in S
    BY <1>4
  <1>6. \A k \in Nat : k \in S => k + 1 \in S
    BY <1>1, <1>4
  <1> HIDE DEF S
  <1>7. \A k \in Nat : k \in S
    BY <1>5, <1>6, AllNaturals
  <1>8. run[n] = next[n]
    BY <1>1, <1>7 DEF S
  <1> QED
    BY <1>2, <1>3, <1>4, <1>8 DEF more

LEMMA FilterType ==
    ASSUME NEW X, NEW s \in Seq(X), NEW W
    PROVE  Filter(s, W) \in Seq(X)
  <1> DEFINE S == {t \in Seq(X) : Filter(t, W) \in Seq(X)}
  <1>1. <<>> \in S
    BY FilterNone, EmptySeq
  <1>2. ASSUME NEW t \in Seq(X), NEW x \in X, t \in S PROVE Append(t, x) \in S
    <2>1. Filter(t, W) \in Seq(X)
      BY <1>2
    <2>2. Append(t, x) \in Seq(X) /\ Append(Filter(t, W), x) \in Seq(X)
      BY <2>1, AppendProperties
    <2>3. Filter(Append(t, x), W) = Chosen(Filter(t, W), x, W)
      BY FilterAppend
    <2> QED
      BY <2>1, <2>2, <2>3 DEF Chosen
  <1> HIDE DEF S
  <1>3. s \in S
    BY <1>1, <1>2, GrowsToAll
  <1> QED
    BY <1>3 DEF S

LEMMA AppendedToSet ==
    ASSUME NEW X, NEW s \in Seq(X), NEW x \in X
    PROVE  ToSet(Append(s, x)) = ToSet(s) \cup {x}
  <1> DEFINE n == Len(s)
             more == Append(s, x)
  <1>1. /\ n \in Nat /\ DOMAIN s = 1 .. n /\ DOMAIN more = 1 .. (n + 1)
        /\ \A i \in 1 .. n : more[i] = s[i]
        /\ more[n + 1] = x
    BY AppendProperties, LenProperties
  <1> HIDE DEF n, more
  <1>2. \A i \in 1 .. (n + 1) : i = n + 1 \/ i \in 1 .. n
    BY <1>1
  <1>3. n + 1 \in 1 .. (n + 1) /\ \A i \in 1 .. n : i \in 1 .. (n + 1)
    BY <1>1
  <1>4. {more[i] : i \in 1 .. (n + 1)} = {s[i] : i \in 1 .. n} \cup {x}
    BY <1>1, <1>2, <1>3
  <1> QED
    BY <1>1, <1>4 DEF ToSet, more

\* The elements that are kept are the wanted ones.
LEMMA FilterRange ==
    ASSUME NEW X, NEW s \in Seq(X), NEW W
    PROVE  ToSet(Filter(s, W)) = ToSet(s) \cap W
  <1> DEFINE S == {t \in Seq(X) : ToSet(Filter(t, W)) = ToSet(t) \cap W}
  <1>1. <<>> \in S
    <2>1. ToSet(<<>>) = {}
      BY DEF ToSet
    <2> QED
      BY <2>1, FilterNone, EmptySeq
  <1>2. ASSUME NEW t \in Seq(X), NEW x \in X, t \in S PROVE Append(t, x) \in S
    <2>1. \A u \in Seq(X) : ToSet(Append(u, x)) = ToSet(u) \cup {x}
      BY AppendedToSet
    <2>2. Filter(t, W) \in Seq(X) /\ Append(t, x) \in Seq(X)
      BY FilterType, AppendProperties
    <2>3. ToSet(Filter(t, W)) = ToSet(t) \cap W
      BY <1>2
    <2>4. Filter(Append(t, x), W) = Chosen(Filter(t, W), x, W)
      BY FilterAppend
    <2>5. ToSet(Filter(Append(t, x), W)) = ToSet(Append(t, x)) \cap W
      <3>1. CASE x \in W
        BY <2>1, <2>2, <2>3, <2>4, <3>1 DEF Chosen
      <3>2. CASE x \notin W
        BY <2>1, <2>2, <2>3, <2>4, <3>2 DEF Chosen
      <3> QED
        BY <3>1, <3>2
    <2> QED
      BY <2>2, <2>5
  <1> HIDE DEF S
  <1>3. s \in S
    BY <1>1, <1>2, GrowsToAll
  <1> QED
    BY <1>3 DEF S

\* What is wanted of other elements makes no difference.
LEMMA FilterSame ==
    ASSUME NEW X, NEW s \in Seq(X), NEW W, NEW L, ToSet(s) \cap W = ToSet(s) \cap L
    PROVE  Filter(s, W) = Filter(s, L)
  <1> DEFINE S == {t \in Seq(X) : ToSet(t) \cap W = ToSet(t) \cap L => Filter(t, W) = Filter(t, L)}
  <1>1. <<>> \in S
    BY FilterNone, EmptySeq
  <1>2. ASSUME NEW t \in Seq(X), NEW x \in X, t \in S PROVE Append(t, x) \in S
    <2>1. ToSet(Append(t, x)) = ToSet(t) \cup {x} /\ Append(t, x) \in Seq(X)
      BY AppendProperties, AppendedToSet
    <2>2. /\ Filter(Append(t, x), W) = Chosen(Filter(t, W), x, W)
          /\ Filter(Append(t, x), L) = Chosen(Filter(t, L), x, L)
      BY FilterAppend
    <2>3. SUFFICES ASSUME ToSet(Append(t, x)) \cap W = ToSet(Append(t, x)) \cap L
                   PROVE  Filter(Append(t, x), W) = Filter(Append(t, x), L)
      BY <2>1
    <2>4. ToSet(t) \cap W = ToSet(t) \cap L /\ (x \in W <=> x \in L)
      <3> HIDE DEF S
      <3>1. \A y : y \in ToSet(t) \/ y = x => (y \in W <=> y \in L)
        BY <2>1, <2>3, Zenon
      <3> QED
        BY <3>1
    <2>5. Filter(t, W) = Filter(t, L)
      BY <1>2, <2>4
    <2> QED
      BY <2>2, <2>4, <2>5 DEF Chosen
  <1> HIDE DEF S
  <1>3. s \in S
    BY <1>1, <1>2, GrowsToAll
  <1> QED
    BY <1>3 DEF S

LEMMA FilterAll ==
    ASSUME NEW X, NEW s \in Seq(X), NEW W, ToSet(s) \subseteq W
    PROVE  Filter(s, W) = s
  <1> DEFINE S == {t \in Seq(X) : ToSet(t) \subseteq W => Filter(t, W) = t}
  <1>1. <<>> \in S
    BY FilterNone, EmptySeq
  <1>2. ASSUME NEW t \in Seq(X), NEW x \in X, t \in S PROVE Append(t, x) \in S
    <2>1. ToSet(Append(t, x)) = ToSet(t) \cup {x} /\ Append(t, x) \in Seq(X)
      BY AppendProperties, AppendedToSet
    <2>2. Filter(Append(t, x), W) = Chosen(Filter(t, W), x, W)
      BY FilterAppend
    <2> QED
      BY <1>2, <2>1, <2>2 DEF Chosen
  <1> HIDE DEF S
  <1>3. s \in S
    BY <1>1, <1>2, GrowsToAll
  <1> QED
    BY <1>3 DEF S

LEMMA FilterTwice ==
    ASSUME NEW X, NEW s \in Seq(X), NEW W, NEW L
    PROVE  Filter(Filter(s, W), L) = Filter(s, W \cap L)
  <1> DEFINE S == {t \in Seq(X) : Filter(Filter(t, W), L) = Filter(t, W \cap L)}
  <1>1. <<>> \in S
    BY FilterNone, EmptySeq
  <1>2. ASSUME NEW t \in Seq(X), NEW x \in X, t \in S PROVE Append(t, x) \in S
    <2>1. Filter(t, W) \in Seq(X) /\ Append(t, x) \in Seq(X)
      BY FilterType, AppendProperties
    <2>2. /\ Filter(Append(t, x), W) = Chosen(Filter(t, W), x, W)
          /\ Filter(Append(t, x), W \cap L) = Chosen(Filter(t, W \cap L), x, W \cap L)
          /\ Filter(Append(Filter(t, W), x), L) = Chosen(Filter(Filter(t, W), L), x, L)
      BY <2>1, FilterAppend
    <2>3. Filter(Filter(t, W), L) = Filter(t, W \cap L)
      BY <1>2
    <2>4. Filter(Filter(Append(t, x), W), L) = Filter(Append(t, x), W \cap L)
      <3> HIDE DEF S
      <3>1. CASE x \in W
        <4>1. /\ Filter(Append(t, x), W) = Append(Filter(t, W), x)
              /\ Filter(Append(t, x), W \cap L) = Chosen(Filter(t, W \cap L), x, L)
          BY <2>2, <3>1 DEF Chosen
        <4> QED
          BY <2>2, <2>3, <4>1
      <3>2. CASE x \notin W
        <4>1. /\ Filter(Append(t, x), W) = Filter(t, W)
              /\ Filter(Append(t, x), W \cap L) = Filter(t, W \cap L)
          BY <2>2, <3>2 DEF Chosen
        <4> QED
          BY <2>3, <4>1
      <3> QED
        BY <3>1, <3>2
    <2> QED
      BY <2>1, <2>4
  <1> HIDE DEF S
  <1>3. s \in S
    BY <1>1, <1>2, GrowsToAll
  <1> QED
    BY <1>3 DEF S

\* What is wanted is in one part of the sequence or in the other.
LEMMA FilterParts ==
    ASSUME NEW X, NEW s \in Seq(X)
    PROVE  \A W, L : Len(Filter(s, W)) = Len(Filter(s, W \cap L)) + Len(Filter(s, W \ L))
  <1> TAKE W, L
  <1> DEFINE S == {t \in Seq(X) :
                      Len(Filter(t, W)) = Len(Filter(t, W \cap L)) + Len(Filter(t, W \ L))}
  <1>1. <<>> \in S
    BY FilterNone, EmptySeq
  <1>2. ASSUME NEW t \in Seq(X), NEW x \in X, t \in S PROVE Append(t, x) \in S
    <2>1. \A U : /\ Filter(t, U) \in Seq(X)
                 /\ Filter(Append(t, x), U) = Chosen(Filter(t, U), x, U)
      BY FilterType, FilterAppend
    <2>2. \A U : Len(Filter(Append(t, x), U)) = Len(Filter(t, U)) + (IF x \in U THEN 1 ELSE 0)
      BY <2>1, AppendProperties DEF Chosen
    <2>3. \A U : Len(Filter(t, U)) \in Nat
      BY <2>1
    <2>4. Len(Filter(t, W)) = Len(Filter(t, W \cap L)) + Len(Filter(t, W \ L))
      BY <1>2
    <2>5. Append(t, x) \in Seq(X)
      BY AppendProperties
    <2>6. /\ Len(Filter(Append(t, x), W)) = Len(Filter(t, W)) + (IF x \in W THEN 1 ELSE 0)
          /\ Len(Filter(Append(t, x), W \cap L)) =
                Len(Filter(t, W \cap L)) + (IF x \in W /\ x \in L THEN 1 ELSE 0)
          /\ Len(Filter(Append(t, x), W \ L)) =
                Len(Filter(t, W \ L)) + (IF x \in W /\ x \notin L THEN 1 ELSE 0)
      BY <2>2
    <2>7. Len(Filter(Append(t, x), W)) =
             Len(Filter(Append(t, x), W \cap L)) + Len(Filter(Append(t, x), W \ L))
      BY <2>3, <2>4, <2>6
    <2> QED
      BY <2>5, <2>7
  <1> HIDE DEF S
  <1>3. s \in S
    BY <1>1, <1>2, GrowsToAll
  <1> QED
    BY <1>3 DEF S

-----------------------------------------------------------------------------

(* The evidence of a port scan. *)

\* What the filter keeps of a capture.
Sent(capture, sources) == {p \in ToSet(capture) : HasIP(p) /\ p.src \in sources}

LEMMA EvidenceRange ==
    ASSUME NEW X, NEW capture \in Seq(X)
    PROVE  /\ Evidence(capture) \in Seq(X)
           /\ ToSet(Evidence(capture)) = Sent(capture, DOMAIN DetectPortScans(capture))
  <1> DEFINE D == DOMAIN DetectPortScans(capture)
  <1>1. Evidence(capture) = Filter(capture, Sent(capture, D))
    BY DEF Evidence, SaveSuspiciousFlows, Sent
  <1>2. ToSet(capture) \cap Sent(capture, D) = Sent(capture, D)
    BY DEF Sent
  <1> HIDE DEF D
  <1>3. /\ Filter(capture, Sent(capture, D)) \in Seq(X)
        /\ ToSet(Filter(capture, Sent(capture, D))) = ToSet(capture) \cap Sent(capture, D)
    BY FilterType, FilterRange
  <1> QED
    BY <1>1, <1>2, <1>3 DEF D

\* A scanner has probed a port.
LEMMA ScannerProbes ==
    ASSUME NEW capture, NEW source \in DOMAIN DetectPortScans(capture)
    PROVE  \E p \in ToSet(capture) : IsProbe(p) /\ p.src = source
  <1>1. Cardinality(PortsBySource(capture, source)) >= PORT_SCAN_DISTINCT_PORT_THRESHOLD
    BY DEF DetectPortScans
  <1>2. PortsBySource(capture, source) # {}
    BY <1>1, FS_EmptySet, PacketSnifferAssumption
  <1> QED
    BY <1>2 DEF PortsBySource, ToSet

LEMMA SameScans ==
    ASSUME NEW X, NEW capture \in Seq(X)
    PROVE  DetectPortScans(Evidence(capture)) = DetectPortScans(capture)
  <1> DEFINE D == DOMAIN DetectPortScans(capture)
             E == Evidence(capture)
             threshold == PORT_SCAN_DISTINCT_PORT_THRESHOLD
  <1>1. ToSet(E) = Sent(capture, D)
    BY EvidenceRange
  <1>2. \A c, s : /\ PortsBySource(c, s) = {p.dport : p \in {q \in ToSet(c) : IsProbe(q) /\ q.src = s}}
                  /\ Sources(c) = {p.src : p \in ToSet(c)}
    BY DEF PortsBySource, Sources, ToSet
  <1>3. ASSUME NEW s \in D PROVE PortsBySource(E, s) = PortsBySource(capture, s) /\ s \in Sources(E)
    <2>1. {q \in ToSet(E) : IsProbe(q) /\ q.src = s} = {q \in ToSet(capture) : IsProbe(q) /\ q.src = s}
      BY <1>1, <1>3 DEF Sent, IsProbe, HasIP
    <2>2. PortsBySource(E, s) = PortsBySource(capture, s)
      BY <1>2, <2>1
    <2>3. PICK p \in ToSet(capture) : IsProbe(p) /\ p.src = s
      BY <1>3, ScannerProbes
    <2>4. p \in ToSet(E)
      BY <1>1, <1>3, <2>3 DEF Sent, IsProbe, HasIP
    <2> QED
      BY <1>2, <2>2, <2>3, <2>4
  <1>4. \A s \in Sources(E) : s \in D
    BY <1>1, <1>2 DEF Sent
  <1>5. \A c : DetectPortScans(c) =
                  [s \in {t \in Sources(c) : Cardinality(PortsBySource(c, t)) >= threshold} |->
                      PortsBySource(c, s)]
    BY DEF DetectPortScans
  <1>6. D = {s \in Sources(capture) : Cardinality(PortsBySource(capture, s)) >= threshold}
    BY <1>5
  <1> HIDE DEF D, E
  <1>7. {s \in Sources(E) : Cardinality(PortsBySource(E, s)) >= threshold} = D
    BY <1>3, <1>4, <1>6
  <1>8. DetectPortScans(E) = [s \in D |-> PortsBySource(capture, s)]
    BY <1>3, <1>5, <1>7
  <1>9. DetectPortScans(capture) = [s \in D |-> PortsBySource(capture, s)]
    BY <1>5, <1>6
  <1> QED
    BY <1>8, <1>9 DEF E

\* How many names the summary of a capture has of the packets in a set.
Named(capture, W) == Len(NamesOf(capture, ToSet(capture) \cap W))

\* A kind of names is counted in a capture as often as in any two parts of it.
LEMMA NamesInParts ==
    ASSUME NEW X, NEW capture \in Seq(X)
    PROVE  \A A, W : Named(capture, W) =
                        Named(Filter(capture, A), W) + Named(Filter(capture, ToSet(capture) \ A), W)
  <1> TAKE A, W
  <1> DEFINE part == Filter(capture, A)
             rest == Filter(capture, ToSet(capture) \ A)
  <1>1. part \in Seq(X) /\ rest \in Seq(X)
    BY FilterType
  <1>2. ASSUME NEW c \in Seq(X) PROVE Named(c, W) = Len(Filter(c, W))
    <2> DEFINE found == Filter(c, ToSet(c) \cap W)
    <2>1. ToSet(c) \cap (ToSet(c) \cap W) = ToSet(c) \cap W
      OBVIOUS
    <2>2. found = Filter(c, W)
      BY <2>1, FilterSame
    <2>3. found \in Seq(X)
      BY FilterType
    <2> HIDE DEF found
    <2>4. Len([i \in DOMAIN found |-> found[i].name]) = Len(found)
      BY <2>3
    <2> QED
      BY <2>2, <2>4 DEF Named, NamesOf, found
  <1>3. /\ Filter(part, W) = Filter(capture, A \cap W)
        /\ Filter(rest, W) = Filter(capture, (ToSet(capture) \ A) \cap W)
    BY FilterTwice
  <1>4. /\ A \cap W = W \cap A
        /\ ToSet(capture) \cap ((ToSet(capture) \ A) \cap W) = ToSet(capture) \cap (W \ A)
    OBVIOUS
  <1>5. Filter(capture, (ToSet(capture) \ A) \cap W) = Filter(capture, W \ A)
    BY <1>4, FilterSame
  <1>6. Len(Filter(capture, W)) = Len(Filter(capture, W \cap A)) + Len(Filter(capture, W \ A))
    <2>1. \A V, U : Len(Filter(capture, V)) = Len(Filter(capture, V \cap U)) + Len(Filter(capture, V \ U))
      BY FilterParts, Zenon
    <2> QED
      BY <2>1, Zenon
  <1> QED
    BY <1>1, <1>2, <1>3, <1>4, <1>5, <1>6

LEMMA EveryCaptureKept ==
    ASSUME NEW X, NEW capture \in Seq(X)
    PROVE  IsEvidence(capture)
  <1> DEFINE D == DOMAIN DetectPortScans(capture)
             E == Evidence(capture)
             rest == Filter(capture, {p \in ToSet(capture) : ~HasIP(p) \/ p.src \notin D})
             count(c) == LET summary == AnalyzePcap(c)
                         IN  [kind \in DOMAIN summary |-> Len(summary[kind])]
  <1>1. DetectPortScans(E) = DetectPortScans(capture)
    BY SameScans
  <1>2. E \in Seq(X) /\ ToSet(E) = Sent(capture, D) /\ E = Filter(capture, Sent(capture, D))
    BY EvidenceRange DEF Evidence, SaveSuspiciousFlows, Sent
  <1>3. Evidence(E) = E
    <2>1. Evidence(E) = Filter(E, Sent(E, D))
      BY <1>1 DEF Evidence, SaveSuspiciousFlows, Sent
    <2>2. ToSet(E) \subseteq Sent(E, D)
      BY <1>2 DEF Sent
    <2> HIDE DEF E, D
    <2> QED
      BY <1>2, <2>1, <2>2, FilterAll
  <1>4. ASSUME NEW i \in DOMAIN E
        PROVE  \E j, k \in DOMAIN capture :
                  /\ capture[j].src = E[i].src /\ IsProbe(capture[j])
                  /\ capture[k] = E[i]
    <2>1. E[i] \in ToSet(E)
      BY <1>4 DEF ToSet
    <2>2. E[i] \in ToSet(capture) /\ E[i].src \in D
      BY <1>2, <2>1 DEF Sent
    <2>3. \E p \in ToSet(capture) : IsProbe(p) /\ p.src = E[i].src
      BY <2>2, ScannerProbes
    <2> HIDE DEF E, D
    <2> QED
      BY <2>2, <2>3 DEF ToSet
  <1>5. ASSUME NEW kind \in DOMAIN AnalyzePcap(capture)
        PROVE  count(capture)[kind] = count(E)[kind] + count(rest)[kind]
    <2> DEFINE of(content) == {p \in ToSet(capture) : p.content = content}
               named == {p \in ToSet(capture) : p.content = "tls" /\ p.name # NoName}
    <2>1. rest = Filter(capture, ToSet(capture) \ Sent(capture, D))
      <3>1. {p \in ToSet(capture) : ~HasIP(p) \/ p.src \notin D} = ToSet(capture) \ Sent(capture, D)
        BY DEF Sent
      <3> QED
        BY <3>1
    <2>2. rest \in Seq(X) /\ ToSet(rest) \subseteq ToSet(capture) /\ ToSet(E) \subseteq ToSet(capture)
      <3>1. ToSet(E) \subseteq ToSet(capture)
        BY <1>2 DEF Sent
      <3> HIDE DEF E, D
      <3> QED
        BY <2>1, <3>1, FilterType, FilterRange
    <2>3. \A W : Named(capture, W) = Named(E, W) + Named(rest, W)
      <3>1. E = Filter(capture, Sent(capture, D))
        BY <1>2
      <3> HIDE DEF E, rest, D
      <3>2. \A A, W : Named(capture, W) =
               Named(Filter(capture, A), W) + Named(Filter(capture, ToSet(capture) \ A), W)
        BY NamesInParts, Zenon
      <3> QED
        BY <2>1, <3>1, <3>2, Zenon
    <2>4. ASSUME NEW c, ToSet(c) \subseteq ToSet(capture)
          PROVE  /\ count(c) = [k \in {"http_requests", "dns_queries", "tls_sni_hostnames"} |->
                                   CASE k = "http_requests" -> Named(c, of("http"))
                                     [] k = "dns_queries" -> Named(c, of("dns"))
                                     [] k = "tls_sni_hostnames" -> Named(c, named)]
      <3>1. /\ {p \in ToSet(c) : p.content = "http"} = ToSet(c) \cap of("http")
            /\ {p \in ToSet(c) : p.content = "dns"} = ToSet(c) \cap of("dns")
            /\ {p \in {q \in ToSet(c) : q.content = "tls"} : p.name # NoName} = ToSet(c) \cap named
        BY <2>4
      <3> HIDE DEF of, named
      <3>2. AnalyzePcap(c) = [http_requests |-> NamesOf(c, ToSet(c) \cap of("http")),
                              dns_queries |-> NamesOf(c, ToSet(c) \cap of("dns")),
                              tls_sni_hostnames |-> NamesOf(c, ToSet(c) \cap named)]
        BY <3>1 DEF AnalyzePcap
      <3> QED
        BY <3>2 DEF Named
    <2>5. kind \in {"http_requests", "dns_queries", "tls_sni_hostnames"}
      BY DEF AnalyzePcap
    <2> HIDE DEF E, rest, D, count, of, named
    <2> QED
      BY <2>2, <2>3, <2>4, <2>5
  <1> QED
    BY <1>1, <1>3, <1>4, <1>5 DEF IsEvidence

(* Whatever was captured and whatever the threshold: the filtered capture   *)
(* is evidence of the scans that were detected, in which the detector finds *)
(* the same again and of which no name is lost (detect_port_scans,          *)
(* save_suspicious_flows and analyze_pcap of app/forensics/packet_sniffer.py). *)
THEOREM CapturesAreEvidence == Spec => []ScanEvidenceKept
  <1> DEFINE CaptureTyped == job = "capture" => input \in Seq(Packets)
  <1>1. Init => CaptureTyped
    BY EmptySeq DEF Init
  <1>2. CaptureTyped /\ [Next]_vars => CaptureTyped'
    <2> SUFFICES ASSUME CaptureTyped, [Next]_vars, job' = "capture" PROVE input' \in Seq(Packets)
      OBVIOUS
    <2>1. job = "capture" /\ input \in Seq(Packets)
      BY DEF Next, Logs, Grow, vars
    <2>2. CASE Grow
      <3>1. PICK piece \in Pieces : input' = Append(input, piece)
        BY <2>2 DEF Grow
      <3>2. Pieces = Packets
        BY <2>1 DEF Pieces
      <3> QED
        BY <2>1, <3>1, <3>2, AppendProperties
    <2>3. CASE UNCHANGED input
      BY <2>1, <2>3
    <2> QED
      BY <2>2, <2>3 DEF Next, Logs, vars
  <1>3. CaptureTyped => ScanEvidenceKept
    BY EveryCaptureKept DEF ScanEvidenceKept
  <1> QED
    BY <1>1, <1>2, <1>3, PTL DEF Spec

-----------------------------------------------------------------------------

(* The bursts of the access log. *)

Sorted(times) == \A i, j \in 1 .. Len(times) : i <= j => times[i] <= times[j]
SortedTimes == {times \in Seq(Int) : Sorted(times)}

\* A time is put behind k others, and the rest moves on.
PutBehind(next, times, k, t) ==
    /\ Len(next) = Len(times) + 1
    /\ \A i \in 1 .. k : next[i] = times[i]
    /\ next[k + 1] = t
    /\ \A i \in (k + 1) .. Len(times) : next[i + 1] = times[i]

LEMMA InsertAtPuts ==
    ASSUME NEW times \in Seq(Int), NEW t \in Int, NEW k \in 0 .. Len(times)
    PROVE  /\ InsertAt(times, k + 1, t) \in Seq(Int)
           /\ PutBehind(InsertAt(times, k + 1, t), times, k, t)
  <1> DEFINE n == Len(times)
             left == SubSeq(times, 1, k)
             right == SubSeq(times, k + 1, n)
  <1>1. n \in Nat /\ k \in Nat /\ k <= n /\ \A i \in 1 .. n : times[i] \in Int
    BY LenProperties
  <1> HIDE DEF n
  <1>2. left \in Seq(Int) /\ Len(left) = k /\ \A i \in 1 .. k : left[i] = times[i]
    <2>1. \A i \in 1 .. k : times[i] \in Int
      BY <1>1
    <2>2. 1 \in Int /\ k \in Int
      BY <1>1
    <2>3. /\ left \in Seq(Int) /\ Len(left) = IF 1 <= k THEN k - 1 + 1 ELSE 0
          /\ \A i \in 1 .. (k - 1 + 1) : left[i] = times[1 + i - 1]
      BY <2>1, <2>2, SubSeqProperties
    <2> HIDE DEF left
    <2>4. Len(left) = k
      BY <1>1, <2>3
    <2>5. \A i \in 1 .. k : i \in 1 .. (k - 1 + 1) /\ 1 + i - 1 = i
      BY <1>1
    <2> QED
      BY <2>3, <2>4, <2>5
  <1>3. right \in Seq(Int) /\ Len(right) = n - k /\ \A i \in 1 .. (n - k) : right[i] = times[k + i]
    <2>1. \A i \in (k + 1) .. n : times[i] \in Int
      BY <1>1
    <2>2. k + 1 \in Int /\ n \in Int
      BY <1>1
    <2>3. /\ right \in Seq(Int) /\ Len(right) = IF k + 1 <= n THEN n - (k + 1) + 1 ELSE 0
          /\ \A i \in 1 .. (n - (k + 1) + 1) : right[i] = times[(k + 1) + i - 1]
      BY <2>1, <2>2, SubSeqProperties
    <2> HIDE DEF right
    <2>4. Len(right) = n - k
      BY <1>1, <2>3
    <2>5. \A i \in 1 .. (n - k) : i \in 1 .. (n - (k + 1) + 1) /\ (k + 1) + i - 1 = k + i
      BY <1>1
    <2> QED
      BY <2>3, <2>4, <2>5
  <1>4. InsertAt(times, k + 1, t) = left \o <<t>> \o right
    <2>1. (k + 1) - 1 = k
      BY <1>1
    <2> QED
      BY <2>1 DEF InsertAt, n
  <1>5. <<t>> \in Seq(Int) /\ Len(<<t>>) = 1 /\ <<t>>[1] = t
    OBVIOUS
  <1> HIDE DEF left, right
  <1> DEFINE front == left \o <<t>>
  <1>6. /\ front \in Seq(Int) /\ Len(front) = k + 1
        /\ \A i \in 1 .. k : front[i] = times[i]
        /\ front[k + 1] = t
    <2>1. /\ front \in Seq(Int) /\ Len(front) = Len(left) + Len(<<t>>)
          /\ \A i \in 1 .. Len(left) + Len(<<t>>) :
                front[i] = IF i <= Len(left) THEN left[i] ELSE <<t>>[i - Len(left)]
      BY <1>2, <1>5, ConcatProperties
    <2> HIDE DEF front
    <2>2. Len(front) = k + 1 /\ \A i \in 1 .. (k + 1) : front[i] = IF i <= k THEN left[i] ELSE <<t>>[i - k]
      BY <1>2, <1>5, <2>1
    <2>3. \A i \in 1 .. k : front[i] = times[i]
      BY <1>1, <1>2, <2>2
    <2>4. front[k + 1] = t
      <3>1. k + 1 \in 1 .. (k + 1) /\ ~(k + 1 <= k) /\ (k + 1) - k = 1
        BY <1>1
      <3> QED
        BY <1>5, <2>2, <3>1
    <2> QED
      BY <2>1, <2>2, <2>3, <2>4
  <1> HIDE DEF front
  <1> DEFINE all == front \o right
  <1>7. /\ all \in Seq(Int) /\ Len(all) = Len(front) + Len(right)
        /\ \A i \in 1 .. Len(front) + Len(right) :
              all[i] = IF i <= Len(front) THEN front[i] ELSE right[i - Len(front)]
    BY <1>3, <1>6, ConcatProperties
  <1>8. InsertAt(times, k + 1, t) = all
    BY <1>4 DEF front
  <1> HIDE DEF all
  <1>9. Len(front) + Len(right) = n + 1
    BY <1>1, <1>3, <1>6
  <1>10. \A i \in 1 .. (n + 1) : all[i] = IF i <= k + 1 THEN front[i] ELSE right[i - (k + 1)]
    BY <1>6, <1>7, <1>9
  <1>11. Len(all) = n + 1
    BY <1>7, <1>9
  <1>12. \A i \in 1 .. k : all[i] = times[i]
    <2>1. \A i \in 1 .. k : i \in 1 .. (n + 1) /\ i <= k + 1
      BY <1>1
    <2> QED
      BY <1>6, <1>10, <2>1
  <1>13. all[k + 1] = t
    <2>1. k + 1 \in 1 .. (n + 1) /\ k + 1 <= k + 1
      BY <1>1
    <2> QED
      BY <1>6, <1>10, <2>1
  <1>14. ASSUME NEW i \in (k + 1) .. n PROVE all[i + 1] = times[i]
    <2>1. /\ i + 1 \in 1 .. (n + 1) /\ ~(i + 1 <= k + 1)
          /\ (i + 1) - (k + 1) = i - k /\ i - k \in 1 .. (n - k) /\ k + (i - k) = i
      BY <1>1
    <2>2. all[i + 1] = right[(i + 1) - (k + 1)]
      BY <1>10, <2>1
    <2> QED
      BY <1>3, <2>1, <2>2
  <1> QED
    BY <1>7, <1>8, <1>11, <1>12, <1>13, <1>14 DEF PutBehind, n

LEMMA InsertedSorted ==
    ASSUME NEW times \in SortedTimes, NEW t \in Int
    PROVE  /\ Inserted(times, t) \in SortedTimes
           /\ \E k \in 0 .. Len(times) : PutBehind(Inserted(times, t), times, k, t)
  <1> DEFINE n == Len(times)
             Place(k) == /\ \A i \in 1 .. k : times[i] <= t
                         /\ \A i \in (k + 1) .. n : t <= times[i]
             later == {j \in 1 .. n : ~(times[j] <= t)}
             k == CHOOSE l \in 0 .. n : Place(l)
             next == InsertAt(times, k + 1, t)
  <1>1. /\ times \in Seq(Int) /\ n \in Nat
        /\ \A i \in 1 .. n : times[i] \in Int
        /\ \A i, j \in 1 .. n : i <= j => times[i] <= times[j]
    BY LenProperties DEF SortedTimes, Sorted
  <1>2. \E l \in 0 .. n : Place(l)
    <2> HIDE DEF n
    <2>1. CASE later = {}
      <3>1. Place(n) /\ n \in 0 .. n
        BY <1>1, <2>1
      <3> QED
        BY <3>1
    <2>2. CASE later # {}
      <3>1. later \in SUBSET Nat
        BY <1>1
      <3> HIDE DEF later
      <3>2. PICK m \in later : \A j \in later : m <= j
        BY <2>2, <3>1, LeastOf
      <3>3. m \in 1 .. n /\ ~(times[m] <= t)
        BY <3>2 DEF later
      <3>4. m - 1 \in 0 .. n
        BY <1>1, <3>3
      <3>5. ASSUME NEW i \in 1 .. (m - 1) PROVE times[i] <= t
        <4>1. i \in 1 .. n /\ ~(m <= i)
          BY <1>1, <3>3
        <4>2. i \notin later
          BY <3>2, <4>1
        <4> QED
          BY <4>1, <4>2 DEF later
      <3>6. ASSUME NEW i \in ((m - 1) + 1) .. n PROVE t <= times[i]
        <4>1. i \in 1 .. n /\ m <= i
          BY <1>1, <3>3
        <4>2. times[m] <= times[i] /\ times[m] \in Int /\ times[i] \in Int
          BY <1>1, <3>3, <4>1
        <4> QED
          BY <3>3, <4>2
      <3> QED
        BY <3>4, <3>5, <3>6
    <2> QED
      BY <2>1, <2>2
  <1>3. k \in 0 .. n /\ Place(k)
    BY <1>2
  <1>4. Inserted(times, t) = next
    BY DEF Inserted
  <1> HIDE DEF k
  <1>5. next \in Seq(Int) /\ PutBehind(next, times, k, t)
    BY <1>1, <1>3, InsertAtPuts
  <1> HIDE DEF next, n
  <1>6. ASSUME NEW i \in 1 .. (n + 1), NEW j \in 1 .. (n + 1), i < j PROVE next[i] <= next[j]
    <2>1. k \in Nat /\ k <= n
      BY <1>1, <1>3
    <2>2. /\ \A l \in 1 .. k : next[l] = times[l]
          /\ next[k + 1] = t
          /\ \A l \in (k + 1) .. n : next[l + 1] = times[l]
      BY <1>5 DEF PutBehind, n
    <2>3. CASE j <= k
      <3>1. i \in 1 .. k /\ j \in 1 .. k /\ i \in 1 .. n /\ j \in 1 .. n /\ i <= j
        BY <1>1, <1>6, <2>1, <2>3
      <3> QED
        BY <1>1, <2>2, <3>1
    <2>4. CASE j = k + 1
      <3>1. i \in 1 .. k
        BY <1>6, <2>1, <2>4
      <3> QED
        BY <1>3, <2>2, <2>4, <3>1
    <2>5. CASE j > k + 1
      <3> DEFINE m == j - 1
      <3>1. m \in (k + 1) .. n /\ m + 1 = j /\ m \in 1 .. n
        BY <1>1, <2>1, <2>5
      <3>2. next[j] = times[m]
        <4> HIDE DEF m
        <4> QED
          BY <2>2, <3>1
      <3>3. CASE i <= k
        <4>1. i \in 1 .. k /\ i \in 1 .. n /\ i <= m
          BY <1>1, <1>6, <2>1, <2>5, <3>3
        <4> HIDE DEF m
        <4> QED
          BY <1>1, <2>2, <3>1, <3>2, <4>1
      <3>4. CASE i = k + 1
        <4> HIDE DEF m
        <4> QED
          BY <1>3, <2>2, <3>1, <3>2, <3>4
      <3>5. CASE i > k + 1
        <4> DEFINE l == i - 1
        <4>1. l \in (k + 1) .. n /\ l + 1 = i /\ l \in 1 .. n /\ l <= m
          BY <1>1, <1>6, <2>1, <3>5
        <4> HIDE DEF l, m
        <4>2. next[i] = times[l]
          BY <2>2, <4>1
        <4> QED
          BY <1>1, <3>1, <3>2, <4>1, <4>2
      <3> QED
        BY <2>1, <3>3, <3>4, <3>5
    <2> QED
      BY <2>1, <2>3, <2>4, <2>5
  <1>7. Len(next) = n + 1 /\ \A i \in 1 .. (n + 1) : next[i] \in Int
    <2>1. Len(next) = n + 1
      BY <1>5 DEF PutBehind, n
    <2> QED
      BY <1>5, <2>1, ElementOfSeq
  <1>8. Sorted(next)
    <2>1. ASSUME NEW i \in 1 .. (n + 1), NEW j \in 1 .. (n + 1), i <= j PROVE next[i] <= next[j]
      <3>1. CASE i = j
        BY <1>7, <3>1
      <3>2. CASE i < j
        BY <1>6, <3>2
      <3> QED
        BY <1>1, <2>1, <3>1, <3>2
    <2> QED
      BY <1>7, <2>1 DEF Sorted
  <1> QED
    BY <1>3, <1>4, <1>5, <1>8 DEF SortedTimes, n

\* The sorted times after each entry.
Sorts(run, s) ==
    /\ run[0] = <<>>
    /\ \A k \in 0 .. (Len(s) - 1) : run[k + 1] = Inserted(run[k], s[k + 1].timestamp)

LEMMA TimesRun ==
    ASSUME NEW s \in Seq(Entries)
    PROVE  \E run : Sorts(run, s) /\ run[Len(s)] = Timestamps(s)
  <1> DEFINE n == Len(s)
             V == SortedTimes
             pick == [t \in SUBSET (1 .. n) |-> Max(t)]
             step == [p \in (1 .. n) \X V |-> Inserted(p[2], s[p[1]].timestamp)]
             IsSorting(f) ==
                 f = [t \in SUBSET (DOMAIN s) |->
                            IF t = {} THEN <<>>
                            ELSE Inserted(f[t \ {Max(t)}], s[Max(t)].timestamp)]
  <1>1. /\ n \in Nat /\ DOMAIN s = 1 .. n
        /\ \A k \in 1 .. n : s[k].timestamp \in Int
    <2>1. \A e \in Entries : e.timestamp \in Int
      BY DEF Entries
    <2> QED
      BY <2>1
  <1>2. step \in [(1 .. n) \X V -> V]
    <2>1. ASSUME NEW p \in (1 .. n) \X V PROVE Inserted(p[2], s[p[1]].timestamp) \in V
      <3>1. p[1] \in 1 .. n /\ p[2] \in SortedTimes
        BY <2>1
      <3>2. s[p[1]].timestamp \in Int
        BY <1>1, <3>1
      <3> QED
        BY <3>1, <3>2, InsertedSorted
    <2> HIDE DEF V
    <2> QED
      BY <2>1
  <1>3. \A t \in SUBSET (1 .. n) : t # {} => pick[t] \in t
    BY <1>1, MaxOf
  <1>4. \E fold \in [SUBSET (1 .. n) -> V] : IsFold(fold, 1 .. n, pick, <<>>, step)
    <2>1. IsFiniteSet(1 .. n)
      <3> HIDE DEF n
      <3>1. 1 \in Int /\ n \in Int
        BY <1>1
      <3> QED
        BY <3>1, FS_Interval
    <2>2. <<>> \in V
      BY EmptySeq DEF SortedTimes, Sorted
    <2> HIDE DEF V, pick, step
    <2> QED
      BY <1>2, <1>3, <2>1, <2>2, FoldExists
  <1>5. PICK fold \in [SUBSET (1 .. n) -> V] : IsFold(fold, 1 .. n, pick, <<>>, step)
    BY <1>4
  <1>6. IsSorting(fold)
    <2>1. ASSUME NEW t \in SUBSET (1 .. n), t # {}
          PROVE  fold[t] = Inserted(fold[t \ {Max(t)}], s[Max(t)].timestamp)
      <3>1. Max(t) \in 1 .. n /\ t \ {Max(t)} \in SUBSET (1 .. n)
        BY <1>1, <2>1, MaxOf
      <3>2. fold[t \ {Max(t)}] \in V
        BY <3>1
      <3>3. fold[t] = step[<<Max(t), fold[t \ {Max(t)}]>>]
        BY <1>5, <2>1 DEF IsFold
      <3> HIDE DEF V
      <3> QED
        BY <3>1, <3>2, <3>3
    <2>2. fold[{}] = <<>>
      BY <1>5 DEF IsFold
    <2> QED
      BY <1>1, <2>1, <2>2
  <1> DEFINE it == CHOOSE f : IsSorting(f)
  <1>7. IsSorting(it)
    BY <1>6
  <1>8. Timestamps(s) = it[DOMAIN s]
    BY DEF Timestamps, FoldLeft, MapThenFoldSet
  <1> HIDE DEF it
  <1>9. \A t \in SUBSET (1 .. n) :
           it[t] = IF t = {} THEN <<>> ELSE Inserted(it[t \ {Max(t)}], s[Max(t)].timestamp)
    BY <1>1, <1>7
  <1> DEFINE run == [k \in 0 .. n |-> it[1 .. k]]
  <1>10. run[0] = <<>>
    <2>1. 1 .. 0 = {} /\ {} \in SUBSET (1 .. n) /\ 0 \in 0 .. n
      BY <1>1
    <2>2. it[{}] = <<>>
      BY <1>9, <2>1
    <2> QED
      BY <2>1, <2>2
  <1>11. ASSUME NEW k \in 0 .. (n - 1) PROVE run[k + 1] = Inserted(run[k], s[k + 1].timestamp)
    <2>1. it[1 .. (k + 1)] = Inserted(it[1 .. k], s[k + 1].timestamp)
      <3> DEFINE t == 1 .. (k + 1)
      <3>1. Max(t) = k + 1 /\ t \ {k + 1} = 1 .. k /\ t # {} /\ t \in SUBSET (1 .. n)
        BY <1>1, UpTo
      <3> HIDE DEF t
      <3>2. it[t] = Inserted(it[t \ {Max(t)}], s[Max(t)].timestamp)
        BY <1>9, <3>1, Zenon
      <3>3. it[t] = Inserted(it[1 .. k], s[k + 1].timestamp)
        BY <3>1, <3>2, Zenon
      <3> QED
        BY <3>3 DEF t
    <2>2. run[k + 1] = it[1 .. (k + 1)] /\ run[k] = it[1 .. k]
      BY <1>1
    <2> QED
      BY <2>1, <2>2
  <1>12. run[n] = Timestamps(s)
    BY <1>1, <1>8
  <1>13. Sorts(run, s)
    <2> HIDE DEF run
    <2> QED
      BY <1>10, <1>11 DEF Sorts
  <1> QED
    BY <1>12, <1>13

LEMMA TimesNone == Timestamps(<<>>) = <<>>
  <1>1. PICK run : Sorts(run, <<>>) /\ run[Len(<<>>)] = Timestamps(<<>>)
    BY TimesRun, EmptySeq
  <1>2. run[0] = <<>> /\ Len(<<>>) = 0
    BY <1>1 DEF Sorts
  <1> QED
    BY <1>1, <1>2

LEMMA TimesAppend ==
    ASSUME NEW s \in Seq(Entries), NEW e \in Entries
    PROVE  Timestamps(Append(s, e)) = Inserted(Timestamps(s), e.timestamp)
  <1> DEFINE more == Append(s, e)
             n == Len(s)
  <1>1. /\ more \in Seq(Entries) /\ n \in Nat /\ Len(more) = n + 1
        /\ \A k \in 1 .. n : more[k] = s[k]
        /\ more[n + 1] = e
    BY AppendProperties, LenProperties
  <1> HIDE DEF more, n
  <1>2. PICK run : Sorts(run, s) /\ run[n] = Timestamps(s)
    BY TimesRun DEF n
  <1>3. PICK next : Sorts(next, more) /\ next[n + 1] = Timestamps(more)
    BY <1>1, TimesRun
  <1>4. /\ run[0] = next[0]
        /\ \A k \in Nat : k < n => /\ run[k + 1] = Inserted(run[k], s[k + 1].timestamp)
                                 /\ next[k + 1] = Inserted(next[k], s[k + 1].timestamp)
        /\ next[n + 1] = Inserted(next[n], e.timestamp)
    <2>1. run[0] = <<>> /\ \A k \in 0 .. (n - 1) : run[k + 1] = Inserted(run[k], s[k + 1].timestamp)
      BY <1>2 DEF Sorts, n
    <2>2. next[0] = <<>> /\ \A k \in 0 .. n : next[k + 1] = Inserted(next[k], more[k + 1].timestamp)
      <3>1. Len(more) - 1 = n
        BY <1>1
      <3> QED
        BY <1>3, <3>1 DEF Sorts
    <2>3. ASSUME NEW k \in Nat, k < n
          PROVE  k \in 0 .. (n - 1) /\ k \in 0 .. n /\ more[k + 1] = s[k + 1]
      BY <1>1, <2>3
    <2>4. n \in 0 .. n /\ more[n + 1] = e
      BY <1>1
    <2>5. next[n + 1] = Inserted(next[n], e.timestamp)
      BY <2>2, <2>4
    <2>6. ASSUME NEW k \in Nat, k < n
          PROVE  /\ run[k + 1] = Inserted(run[k], s[k + 1].timestamp)
                 /\ next[k + 1] = Inserted(next[k], s[k + 1].timestamp)
      BY <2>1, <2>2, <2>3, <2>6
    <2> QED
      BY <2>1, <2>2, <2>5, <2>6
  <1> DEFINE S == {k \in Nat : k <= n => run[k] = next[k]}
  <1>5. 0 \in S
    BY <1>4
  <1>6. \A k \in Nat : k \in S => k + 1 \in S
    BY <1>1, <1>4
  <1> HIDE DEF S
  <1>7. \A k \in Nat : k \in S
    BY <1>5, <1>6, AllNaturals
  <1>8. run[n] = next[n]
    BY <1>1, <1>7 DEF S
  <1> QED
    BY <1>2, <1>3, <1>4, <1>8 DEF more

\* The times are those of the entries in another order.
Orders(p, times, s) ==
    /\ p \in [1 .. Len(s) -> 1 .. Len(s)]
    /\ \A i, j \in 1 .. Len(s) : p[i] = p[j] => i = j
    /\ \A j \in 1 .. Len(s) : \E i \in 1 .. Len(s) : p[i] = j
    /\ \A i \in 1 .. Len(s) : times[i] = s[p[i]].timestamp

LEMMA PutBehindOrders ==
    ASSUME NEW s \in Seq(Entries), NEW e \in Entries, NEW times, Len(times) = Len(s),
           NEW p, Orders(p, times, s), NEW k \in 0 .. Len(s),
           NEW next, PutBehind(next, times, k, e.timestamp)
    PROVE  \E q : Orders(q, next, Append(s, e))
  <1> DEFINE n == Len(s)
             more == Append(s, e)
             q == [i \in 1 .. (n + 1) |-> IF i <= k THEN p[i] ELSE IF i = k + 1 THEN n + 1 ELSE p[i - 1]]
  <1>1. /\ n \in Nat /\ Len(more) = n + 1 /\ more[n + 1] = e /\ \A i \in 1 .. n : more[i] = s[i]
    BY AppendProperties, LenProperties
  <1>2. /\ k \in Nat /\ k <= n
        /\ \A i \in 1 .. k : next[i] = times[i]
        /\ next[k + 1] = e.timestamp
        /\ \A i \in (k + 1) .. n : next[i + 1] = times[i]
    BY <1>1 DEF PutBehind
  <1>3. /\ p \in [1 .. n -> 1 .. n]
        /\ \A i, j \in 1 .. n : p[i] = p[j] => i = j
        /\ \A j \in 1 .. n : \E i \in 1 .. n : p[i] = j
        /\ \A i \in 1 .. n : times[i] = s[p[i]].timestamp
    BY DEF Orders
  <1> HIDE DEF n, more
  <1>4. \A i \in 1 .. k : i \in 1 .. n /\ i \in 1 .. (n + 1) /\ q[i] = p[i]
    BY <1>1, <1>2
  <1>5. q[k + 1] = n + 1 /\ k + 1 \in 1 .. (n + 1)
    BY <1>1, <1>2
  <1>6. \A i \in (k + 1) .. n : i \in 1 .. n /\ i + 1 \in 1 .. (n + 1) /\ q[i + 1] = p[i]
    <2>1. ASSUME NEW i \in (k + 1) .. n PROVE i \in 1 .. n /\ i + 1 \in 1 .. (n + 1) /\ q[i + 1] = p[i]
      <3>1. i \in 1 .. n /\ i + 1 \in 1 .. (n + 1) /\ ~(i + 1 <= k) /\ i + 1 # k + 1 /\ (i + 1) - 1 = i
        BY <1>1, <1>2
      <3> QED
        BY <3>1
    <2> QED
      BY <2>1
  <1> HIDE DEF q
  <1>7. ASSUME NEW i \in 1 .. (n + 1)
        PROVE  \/ i \in 1 .. k
               \/ i = k + 1
               \/ \E l \in (k + 1) .. n : i = l + 1
    <2>1. i > k + 1 => i - 1 \in (k + 1) .. n /\ i = (i - 1) + 1
      BY <1>1, <1>2
    <2>2. i <= k => i \in 1 .. k
      BY <1>1, <1>2
    <2>3. i <= k \/ i = k + 1 \/ i > k + 1
      BY <1>1, <1>2
    <2> QED
      BY <2>1, <2>2, <2>3
  <1>8. ASSUME NEW i \in 1 .. (n + 1) PROVE q[i] \in 1 .. (n + 1)
    <2>1. q[i] \in 1 .. n \/ q[i] = n + 1
      <3>1. \A l \in 1 .. n : p[l] \in 1 .. n
        BY <1>3
      <3>2. CASE i \in 1 .. k
        BY <1>4, <3>1, <3>2
      <3>3. CASE i = k + 1
        BY <1>5, <3>3
      <3>4. CASE \E l \in (k + 1) .. n : i = l + 1
        BY <1>6, <3>1, <3>4
      <3> QED
        BY <1>7, <3>2, <3>3, <3>4
    <2> QED
      BY <1>1, <2>1
  <1>9. \A l \in 1 .. n : p[l] \in 1 .. n /\ p[l] # n + 1
    <2>1. p \in [1 .. n -> 1 .. n]
      BY <1>3, Zenon
    <2>2. \A l \in 1 .. n : p[l] \in 1 .. n
      BY <2>1
    <2>3. n + 1 \notin 1 .. n
      BY <1>1
    <2> QED
      BY <2>2, <2>3, Zenon
  <1>10. ASSUME NEW i \in 1 .. (n + 1), NEW j \in 1 .. (n + 1), q[i] = q[j] PROVE i = j
    <2>1. CASE i \in 1 .. k
      <3>1. i \in 1 .. n /\ q[i] = p[i] /\ q[i] # n + 1
        BY <1>4, <1>9, <2>1
      <3>2. CASE j \in 1 .. k
        <4>1. j \in 1 .. n /\ q[j] = p[j]
          BY <1>4, <3>2
        <4>2. p[i] = p[j]
          BY <1>10, <3>1, <4>1
        <4> QED
          BY <1>3, <3>1, <4>1, <4>2
      <3>3. CASE j = k + 1
        BY <1>5, <1>10, <3>1, <3>3
      <3>4. CASE \E l \in (k + 1) .. n : j = l + 1
        <4>1. PICK l \in (k + 1) .. n : j = l + 1
          BY <3>4
        <4>2. p[i] = p[l] /\ l \in 1 .. n
          BY <1>6, <1>10, <3>1, <4>1
        <4>3. i = l
          BY <1>3, <3>1, <4>2
        <4> QED
          BY <1>2, <2>1, <4>1, <4>3
      <3> QED
        BY <1>7, <3>2, <3>3, <3>4
    <2>2. CASE i = k + 1
      <3>1. CASE j \in 1 .. k
        BY <1>4, <1>5, <1>9, <1>10, <2>2, <3>1
      <3>2. CASE \E l \in (k + 1) .. n : j = l + 1
        BY <1>5, <1>6, <1>9, <1>10, <2>2, <3>2
      <3> QED
        BY <1>7, <2>2, <3>1, <3>2
    <2>3. CASE \E l \in (k + 1) .. n : i = l + 1
      <3>1. PICK l \in (k + 1) .. n : i = l + 1
        BY <2>3
      <3>2. l \in 1 .. n /\ q[i] = p[l] /\ q[i] # n + 1
        BY <1>6, <1>9, <3>1
      <3>3. CASE j \in 1 .. k
        <4>1. p[j] = p[l] /\ j \in 1 .. n
          BY <1>4, <1>10, <3>2, <3>3
        <4>2. j = l
          BY <1>3, <3>2, <4>1
        <4> QED
          BY <1>2, <3>1, <3>3, <4>2
      <3>4. CASE j = k + 1
        BY <1>5, <1>10, <3>2, <3>4
      <3>5. CASE \E m \in (k + 1) .. n : j = m + 1
        <4>1. PICK m \in (k + 1) .. n : j = m + 1
          BY <3>5
        <4>2. p[m] = p[l] /\ m \in 1 .. n
          BY <1>6, <1>10, <3>2, <4>1
        <4>3. m = l
          BY <1>3, <3>2, <4>2
        <4> QED
          BY <3>1, <4>1, <4>3
      <3> QED
        BY <1>7, <3>3, <3>4, <3>5
    <2> QED
      BY <1>7, <2>1, <2>2, <2>3
  <1>11. ASSUME NEW j \in 1 .. (n + 1) PROVE \E i \in 1 .. (n + 1) : q[i] = j
    <2>1. CASE j = n + 1
      BY <1>5, <2>1
    <2>2. CASE j # n + 1
      <3>1. j \in 1 .. n
        BY <1>1, <2>2
      <3>2. PICK l \in 1 .. n : p[l] = j
        BY <1>3, <3>1
      <3>3. l \in 1 .. k \/ l \in (k + 1) .. n
        BY <1>1, <1>2
      <3> QED
        BY <1>4, <1>6, <3>2, <3>3
    <2> QED
      BY <2>1, <2>2
  <1>12. ASSUME NEW i \in 1 .. (n + 1) PROVE next[i] = more[q[i]].timestamp
    <2>1. \A l \in 1 .. n : more[p[l]].timestamp = times[l]
      BY <1>1, <1>3, <1>9
    <2>2. CASE i \in 1 .. k
      BY <1>2, <1>4, <2>1, <2>2
    <2>3. CASE i = k + 1
      BY <1>1, <1>2, <1>5, <2>3
    <2>4. CASE \E l \in (k + 1) .. n : i = l + 1
      BY <1>2, <1>6, <2>1, <2>4
    <2> QED
      BY <1>7, <2>2, <2>3, <2>4
  <1>13. q \in [1 .. (n + 1) -> 1 .. (n + 1)]
    <2> USE DEF q
    <2>1. q = [i \in 1 .. (n + 1) |-> q[i]]
      OBVIOUS
    <2> HIDE DEF q
    <2> QED
      BY <1>8, <2>1
  <1>14. Orders(q, next, more)
    BY <1>1, <1>10, <1>11, <1>12, <1>13 DEF Orders
  <1> QED
    BY <1>14 DEF more

LEMMA TimesSorted ==
    ASSUME NEW s \in Seq(Entries)
    PROVE  /\ Timestamps(s) \in SortedTimes /\ Len(Timestamps(s)) = Len(s)
           /\ \E p : Orders(p, Timestamps(s), s)
  <1> DEFINE Good(t) == /\ Timestamps(t) \in SortedTimes /\ Len(Timestamps(t)) = Len(t)
                        /\ \E p : Orders(p, Timestamps(t), t)
             S == {t \in Seq(Entries) : Good(t)}
  <1>1. <<>> \in S
    <2>1. Timestamps(<<>>) = <<>> /\ <<>> \in SortedTimes /\ <<>> \in Seq(Entries) /\ Len(<<>>) = 0
      BY TimesNone, EmptySeq DEF SortedTimes, Sorted
    <2>2. 1 .. 0 = {}
      OBVIOUS
    <2>3. Orders(<<>>, <<>>, <<>>)
      BY <2>1, <2>2 DEF Orders
    <2> QED
      BY <2>1, <2>3
  <1>2. ASSUME NEW t \in Seq(Entries), NEW e \in Entries, t \in S PROVE Append(t, e) \in S
    <2> DEFINE times == Timestamps(t)
               next == Timestamps(Append(t, e))
    <2>1. /\ Append(t, e) \in Seq(Entries) /\ Len(Append(t, e)) = Len(t) + 1
      BY AppendProperties
    <2>2. times \in SortedTimes /\ Len(times) = Len(t)
      BY <1>2
    <2>3. PICK p : Orders(p, times, t)
      BY <1>2
    <2>4. e.timestamp \in Int
      BY DEF Entries
    <2>5. next = Inserted(times, e.timestamp)
      BY TimesAppend
    <2> HIDE DEF times, next
    <2>6. next \in SortedTimes
      BY <2>2, <2>4, <2>5, InsertedSorted
    <2>7. PICK k \in 0 .. Len(t) : PutBehind(next, times, k, e.timestamp)
      BY <2>2, <2>4, <2>5, InsertedSorted
    <2>8. Len(next) = Len(t) + 1
      BY <2>2, <2>7 DEF PutBehind
    <2>9. \E q : Orders(q, next, Append(t, e))
      BY <2>2, <2>3, <2>7, PutBehindOrders
    <2>10. Good(Append(t, e))
      BY <2>1, <2>6, <2>8, <2>9 DEF next
    <2> HIDE DEF Good
    <2> QED
      BY <2>1, <2>10
  <1> HIDE DEF S
  <1>3. s \in S
    BY <1>1, <1>2, GrowsToAll
  <1> QED
    BY <1>3 DEF S

\* Some threshold of the entries lie within a window.
Near(S, s, window) == \A i, j \in S : s[i].timestamp - s[j].timestamp <= window
Clustered(s, threshold, window) ==
    \E S \in SUBSET (1 .. Len(s)) : Cardinality(S) >= threshold /\ Near(S, s, window)

LEMMA BurstsAreClusters ==
    ASSUME NEW s \in Seq(Entries), NEW threshold \in Nat \ {0}, NEW window \in Nat,
           Bursts(Timestamps(s), threshold, window)
    PROVE  Clustered(s, threshold, window)
  <1> DEFINE n == Len(s)
             times == Timestamps(s)
  <1>1. /\ n \in Nat /\ Len(times) = n /\ times \in Seq(Int)
        /\ \A i, j \in 1 .. n : i <= j => times[i] <= times[j]
    BY TimesSorted DEF SortedTimes, Sorted
  <1>2. PICK p : Orders(p, times, s)
    BY TimesSorted
  <1>3. PICK i \in 1 .. (n - threshold + 1) : times[i + threshold - 1] - times[i] <= window
    BY <1>1 DEF Bursts
  <1> HIDE DEF times, n
  <1> DEFINE l == i + threshold - 1
             I == i .. l
             S == {p[m] : m \in I}
  <1>4. /\ i \in Nat /\ 1 <= i /\ l \in Nat /\ i <= l /\ l <= n /\ l - i + 1 = threshold
        /\ times[l] - times[i] <= window
    BY <1>1, <1>3
  <1> HIDE DEF l
  <1>5. \A m \in I : m \in 1 .. n /\ i <= m /\ m <= l
    BY <1>1, <1>4
  <1>6. /\ p \in [1 .. n -> 1 .. n]
        /\ \A a, b \in 1 .. n : p[a] = p[b] => a = b
        /\ \A a \in 1 .. n : times[a] = s[p[a]].timestamp
    BY <1>2 DEF Orders, n
  <1>7. Cardinality(S) = threshold
    <2> DEFINE f == [m \in I |-> p[m]]
    <2>1. IsFiniteSet(I) /\ Cardinality(I) = threshold
      <3>1. i \in Int /\ l \in Int
        BY <1>4
      <3> QED
        BY <1>4, <3>1, FS_Interval
    <2>2. \A a, b \in I : f[a] = f[b] => a = b
      BY <1>5, <1>6
    <2>3. DOMAIN f = I /\ S = {f[m] : m \in I}
      OBVIOUS
    <2> HIDE DEF f, S, I
    <2> QED
      BY <2>1, <2>2, <2>3, SameSize
  <1>8. S \in SUBSET (1 .. n)
    BY <1>5, <1>6
  <1>9. ASSUME NEW a \in I, NEW b \in I
        PROVE  s[p[a]].timestamp - s[p[b]].timestamp <= window
    <2>1. /\ a \in 1 .. n /\ b \in 1 .. n /\ i \in 1 .. n /\ l \in 1 .. n
          /\ i <= b /\ a <= l
      BY <1>1, <1>4, <1>5
    <2>2. times[a] <= times[l] /\ times[i] <= times[b]
      BY <1>1, <2>1
    <2>3. /\ times[a] \in Int /\ times[b] \in Int /\ times[l] \in Int /\ times[i] \in Int
      BY <1>1, <2>1
    <2>4. times[a] - times[b] <= window
      BY <1>4, <2>2, <2>3
    <2> QED
      BY <1>6, <2>1, <2>4
  <1>10. Near(S, s, window)
    BY <1>9 DEF Near
  <1> HIDE DEF S
  <1> QED
    BY <1>7, <1>8, <1>10 DEF Clustered, n

LEMMA ClustersAreBursts ==
    ASSUME NEW s \in Seq(Entries), NEW threshold \in Nat \ {0}, NEW window \in Nat,
           Clustered(s, threshold, window)
    PROVE  Bursts(Timestamps(s), threshold, window)
  <1> DEFINE n == Len(s)
             times == Timestamps(s)
  <1>1. /\ n \in Nat /\ Len(times) = n /\ times \in Seq(Int)
        /\ \A i, j \in 1 .. n : i <= j => times[i] <= times[j]
    BY TimesSorted DEF SortedTimes, Sorted
  <1>2. PICK p : Orders(p, times, s)
    BY TimesSorted
  <1>3. PICK S \in SUBSET (1 .. n) : Cardinality(S) >= threshold /\ Near(S, s, window)
    BY DEF Clustered
  <1> HIDE DEF times, n
  <1>4. /\ p \in [1 .. n -> 1 .. n]
        /\ \A a, b \in 1 .. n : p[a] = p[b] => a = b
        /\ \A b \in 1 .. n : \E a \in 1 .. n : p[a] = b
        /\ \A a \in 1 .. n : times[a] = s[p[a]].timestamp
    BY <1>2 DEF Orders, n
  <1> DEFINE M == {m \in 1 .. n : p[m] \in S}
  <1>5. IsFiniteSet(1 .. n)
    BY <1>1, FS_Interval
  <1>6. M \in SUBSET (1 .. n) /\ IsFiniteSet(M) /\ Cardinality(M) \in Nat
    <2>1. M \in SUBSET (1 .. n)
      OBVIOUS
    <2> HIDE DEF M
    <2> QED
      BY <1>5, <2>1, FS_Subset, FS_CardinalityType
  <1>7. Cardinality(M) >= threshold
    <2> DEFINE f == [m \in M |-> p[m]]
    <2>1. \A a, b \in M : f[a] = f[b] => a = b
      BY <1>4
    <2>2. DOMAIN f = M /\ {f[m] : m \in M} = S
      <3>1. \A m \in M : f[m] = p[m] /\ p[m] \in S
        OBVIOUS
      <3>2. \A x \in S : \E m \in M : p[m] = x
        BY <1>4
      <3> QED
        BY <3>1, <3>2
    <2> HIDE DEF f, M
    <2>3. Cardinality({f[m] : m \in M}) = Cardinality(M)
      BY <1>6, <2>1, <2>2, SameSize
    <2> QED
      BY <1>3, <2>2, <2>3
  <1>8. M # {}
    BY <1>6, <1>7, FS_EmptySet
  <1>9. PICK a \in M : \A m \in M : a <= m
    <2>1. M \in SUBSET Nat
      BY <1>1
    <2> HIDE DEF M
    <2> QED
      BY <1>8, <2>1, LeastOf
  <1>10. PICK b \in M : \A m \in M : m <= b
    <2> HIDE DEF M
    <2> QED
      BY <1>1, <1>6, <1>8, MaxOf
  <1>11. a \in 1 .. n /\ b \in 1 .. n /\ p[a] \in S /\ p[b] \in S /\ a <= b
    BY <1>9, <1>10
  <1>12. Cardinality(M) <= b - a + 1
    <2>1. a \in Int /\ b \in Int
      BY <1>11
    <2>2. IsFiniteSet(a .. b) /\ Cardinality(a .. b) = b - a + 1
      BY <1>1, <1>11, <2>1, FS_Interval
    <2>3. M \in SUBSET (a .. b)
      BY <1>1, <1>9, <1>10
    <2> HIDE DEF M
    <2> QED
      BY <2>2, <2>3, FS_Subset
  <1> DEFINE l == a + threshold - 1
  <1>13. l \in 1 .. n /\ l <= b /\ a \in 1 .. (n - threshold + 1)
    BY <1>1, <1>6, <1>7, <1>11, <1>12
  <1>14. times[l] <= times[b] /\ times[l] \in Int /\ times[a] \in Int /\ times[b] \in Int
    <2> HIDE DEF l
    <2> QED
      BY <1>1, <1>11, <1>13
  <1>15. times[b] - times[a] <= window
    <2>1. s[p[b]].timestamp - s[p[a]].timestamp <= window
      <3> HIDE DEF M
      <3> QED
        BY <1>3, <1>11 DEF Near
    <2>2. times[b] = s[p[b]].timestamp /\ times[a] = s[p[a]].timestamp
      BY <1>4, <1>11
    <2> QED
      BY <2>1, <2>2
  <1>16. times[l] - times[a] <= window
    <2> HIDE DEF l
    <2> QED
      BY <1>14, <1>15
  <1> QED
    BY <1>1, <1>13, <1>16 DEF Bursts, times

\* Where the kept elements were.
Places(at, kept, s, W) ==
    /\ at \in [1 .. Len(kept) -> 1 .. Len(s)]
    /\ \A i, j \in 1 .. Len(kept) : at[i] = at[j] => i = j
    /\ \A j \in 1 .. Len(s) : s[j] \in W => \E i \in 1 .. Len(kept) : at[i] = j
    /\ \A i \in 1 .. Len(kept) : kept[i] = s[at[i]] /\ s[at[i]] \in W

LEMMA PlacesAppend ==
    ASSUME NEW X, NEW s \in Seq(X), NEW x \in X, NEW W, NEW kept \in Seq(X),
           NEW at, Places(at, kept, s, W)
    PROVE  \E to : Places(to, Chosen(kept, x, W), Append(s, x), W)
  <1> DEFINE n == Len(s)
             m == Len(kept)
             more == Append(s, x)
             next == Append(kept, x)
             to == [i \in 1 .. (m + 1) |-> IF i = m + 1 THEN n + 1 ELSE at[i]]
  <1>1. /\ n \in Nat /\ Len(more) = n + 1 /\ (\A i \in 1 .. n : more[i] = s[i]) /\ more[n + 1] = x
        /\ m \in Nat /\ Len(next) = m + 1 /\ (\A i \in 1 .. m : next[i] = kept[i]) /\ next[m + 1] = x
    BY AppendProperties, LenProperties
  <1>2. /\ at \in [1 .. m -> 1 .. n]
        /\ \A i, j \in 1 .. m : at[i] = at[j] => i = j
        /\ \A j \in 1 .. n : s[j] \in W => \E i \in 1 .. m : at[i] = j
        /\ \A i \in 1 .. m : kept[i] = s[at[i]] /\ s[at[i]] \in W
    BY DEF Places
  <1> HIDE DEF n, m, more, next
  <1>3. /\ \A j \in 1 .. (n + 1) : j = n + 1 \/ j \in 1 .. n
        /\ \A j \in 1 .. n : j \in 1 .. (n + 1) /\ j # n + 1
        /\ n + 1 \in 1 .. (n + 1)
        /\ \A j \in 1 .. (m + 1) : j = m + 1 \/ j \in 1 .. m
        /\ \A j \in 1 .. m : j \in 1 .. (m + 1) /\ j # m + 1
        /\ m + 1 \in 1 .. (m + 1)
    BY <1>1
  <1>4. CASE x \in W
    <2>1. to[m + 1] = n + 1 /\ \A i \in 1 .. m : to[i] = at[i] /\ at[i] \in 1 .. n
      BY <1>2, <1>3
    <2>2. to \in [1 .. (m + 1) -> 1 .. (n + 1)]
      BY <1>2, <1>3
    <2> HIDE DEF to
    <2>3. ASSUME NEW i \in 1 .. (m + 1), NEW j \in 1 .. (m + 1), to[i] = to[j] PROVE i = j
      <3>1. CASE i \in 1 .. m /\ j \in 1 .. m
        BY <1>2, <2>1, <2>3, <3>1
      <3>2. CASE i = m + 1 \/ j = m + 1
        BY <1>3, <2>1, <2>3, <3>2
      <3> QED
        BY <1>3, <3>1, <3>2
    <2>4. ASSUME NEW j \in 1 .. (n + 1), more[j] \in W PROVE \E i \in 1 .. (m + 1) : to[i] = j
      <3>1. CASE j = n + 1
        BY <1>3, <2>1, <3>1
      <3>2. CASE j \in 1 .. n
        <4>1. PICK i \in 1 .. m : at[i] = j
          BY <1>1, <1>2, <2>4, <3>2
        <4> QED
          BY <1>3, <2>1, <4>1
      <3> QED
        BY <1>3, <3>1, <3>2
    <2>5. ASSUME NEW i \in 1 .. (m + 1) PROVE next[i] = more[to[i]] /\ more[to[i]] \in W
      <3>1. CASE i = m + 1
        BY <1>1, <1>4, <2>1, <3>1
      <3>2. CASE i \in 1 .. m
        <4>1. to[i] = at[i] /\ at[i] \in 1 .. n /\ next[i] = kept[i]
          BY <1>1, <2>1, <3>2
        <4>2. kept[i] = s[at[i]] /\ s[at[i]] \in W /\ more[at[i]] = s[at[i]]
          BY <1>1, <1>2, <3>2, <4>1
        <4> QED
          BY <4>1, <4>2
      <3> QED
        BY <1>3, <3>1, <3>2
    <2>6. Places(to, next, more, W)
      BY <1>1, <2>2, <2>3, <2>4, <2>5 DEF Places
    <2> QED
      BY <1>4, <2>6 DEF Chosen, next, more
  <1>5. CASE x \notin W
    <2>1. at \in [1 .. m -> 1 .. (n + 1)]
      BY <1>2, <1>3
    <2>2. ASSUME NEW j \in 1 .. (n + 1), more[j] \in W PROVE \E i \in 1 .. m : at[i] = j
      BY <1>1, <1>2, <1>3, <1>5, <2>2
    <2>3. \A i \in 1 .. m : kept[i] = more[at[i]] /\ more[at[i]] \in W
      BY <1>1, <1>2
    <2>4. Places(at, kept, more, W)
      BY <1>1, <1>2, <2>1, <2>2, <2>3 DEF Places, m
    <2> QED
      BY <1>5, <2>4 DEF Chosen, more
  <1> QED
    BY <1>4, <1>5

LEMMA FilterPlaces ==
    ASSUME NEW X, NEW s \in Seq(X), NEW W
    PROVE  \E at : Places(at, Filter(s, W), s, W)
  <1> DEFINE S == {t \in Seq(X) : \E at : Places(at, Filter(t, W), t, W)}
  <1>1. <<>> \in S
    <2>1. <<>> \in Seq(X) /\ Len(<<>>) = 0 /\ 1 .. 0 = {}
      BY EmptySeq
    <2>2. Places(<<>>, <<>>, <<>>, W)
      BY <2>1 DEF Places
    <2> QED
      BY <2>1, <2>2, FilterNone
  <1>2. ASSUME NEW t \in Seq(X), NEW x \in X, t \in S PROVE Append(t, x) \in S
    <2>1. PICK at : Places(at, Filter(t, W), t, W)
      BY <1>2
    <2>2. Filter(t, W) \in Seq(X) /\ Append(t, x) \in Seq(X)
      BY FilterType, AppendProperties
    <2>3. Filter(Append(t, x), W) = Chosen(Filter(t, W), x, W)
      BY FilterAppend
    <2>4. \E to : Places(to, Chosen(Filter(t, W), x, W), Append(t, x), W)
      BY <2>1, <2>2, PlacesAppend
    <2> QED
      BY <2>2, <2>3, <2>4
  <1> HIDE DEF S
  <1>3. s \in S
    BY <1>1, <1>2, GrowsToAll
  <1> QED
    BY <1>3 DEF S

\* An address made a burst when its entries are clustered.
LEMMA BurstsOfAddress ==
    ASSUME NEW s \in Seq(Entries), NEW ip, NEW threshold \in Nat \ {0}, NEW window \in Nat
    PROVE  HasBurst(s, ip, threshold, window) <=> Clustered(Of(s, ip), threshold, window)
  <1> DEFINE n == Len(s)
             W == {e \in ToSet(s) : e.request.ip = ip}
             kept == Of(s, ip)
             m == Len(kept)
             sent == {i \in DOMAIN s : s[i].request.ip = ip}
  <1>1. /\ n \in Nat /\ DOMAIN s = 1 .. n /\ kept \in Seq(Entries) /\ m \in Nat
    BY FilterType, LenProperties DEF Of
  <1>2. \A i \in 1 .. n : s[i] \in W <=> i \in sent
    BY <1>1 DEF ToSet
  <1>3. PICK at : Places(at, kept, s, W)
    BY FilterPlaces DEF Of
  <1>4. /\ at \in [1 .. m -> 1 .. n]
        /\ \A i, j \in 1 .. m : at[i] = at[j] => i = j
        /\ \A j \in sent : \E i \in 1 .. m : at[i] = j
        /\ \A i \in 1 .. m : kept[i] = s[at[i]] /\ at[i] \in sent
    BY <1>1, <1>2, <1>3 DEF Places
  <1>5. sent \in SUBSET (1 .. n)
    BY <1>1
  <1>6. HasBurst(s, ip, threshold, window) <=>
            \E S \in SUBSET sent : Cardinality(S) >= threshold /\ Near(S, s, window)
    BY DEF HasBurst, Near
  <1> HIDE DEF n, W, kept, m, sent
  <1>7. ASSUME NEW T \in SUBSET (1 .. m)
        PROVE  LET S == {at[i] : i \in T}
               IN  S \in SUBSET sent /\ Cardinality(S) = Cardinality(T)
    <2> DEFINE f == [i \in T |-> at[i]]
               S == {at[i] : i \in T}
    <2>1. IsFiniteSet(1 .. m)
      BY <1>1, FS_Interval
    <2>2. IsFiniteSet(T)
      BY <2>1, FS_Subset
    <2>3. \A i, j \in T : f[i] = f[j] => i = j
      BY <1>4
    <2>4. DOMAIN f = T /\ {f[i] : i \in T} = S
      OBVIOUS
    <2>5. S \in SUBSET sent
      BY <1>4
    <2> HIDE DEF f, S
    <2>6. Cardinality({f[i] : i \in T}) = Cardinality(T)
      BY <2>2, <2>3, <2>4, SameSize
    <2> QED
      BY <2>4, <2>5, <2>6 DEF S
  <1>8. ASSUME Clustered(kept, threshold, window)
        PROVE  \E S \in SUBSET sent : Cardinality(S) >= threshold /\ Near(S, s, window)
    <2>1. PICK T \in SUBSET (1 .. m) : Cardinality(T) >= threshold /\ Near(T, kept, window)
      BY <1>8 DEF Clustered, m
    <2> DEFINE S == {at[i] : i \in T}
    <2>2. S \in SUBSET sent /\ Cardinality(S) = Cardinality(T)
      BY <1>7
    <2>3. \A i \in T : kept[i] = s[at[i]]
      BY <1>4
    <2>4. \A i, j \in T : kept[i].timestamp - kept[j].timestamp <= window
      BY <2>1 DEF Near
    <2>5. \A i, j \in T : s[at[i]].timestamp - s[at[j]].timestamp <= window
      BY <2>3, <2>4, Zenon
    <2>6. Near(S, s, window)
      BY <2>5 DEF Near
    <2> HIDE DEF S
    <2> QED
      BY <2>1, <2>2, <2>6
  <1>9. ASSUME NEW S \in SUBSET sent, Cardinality(S) >= threshold, Near(S, s, window)
        PROVE  Clustered(kept, threshold, window)
    <2> DEFINE T == {i \in 1 .. m : at[i] \in S}
    <2>1. T \in SUBSET (1 .. m)
      OBVIOUS
    <2>2. {at[i] : i \in T} = S
      <3>1. \A j \in S : \E i \in T : at[i] = j
        BY <1>4
      <3>2. \A i \in T : at[i] \in S
        OBVIOUS
      <3> HIDE DEF T
      <3> QED
        BY <3>1, <3>2
    <2>3. \A i \in T : kept[i] = s[at[i]] /\ at[i] \in S
      BY <1>4
    <2> HIDE DEF T
    <2>4. Cardinality(T) = Cardinality(S)
      BY <1>7, <2>1, <2>2
    <2>5. \A i, j \in S : s[i].timestamp - s[j].timestamp <= window
      BY <1>9 DEF Near
    <2>6. \A i, j \in T : kept[i].timestamp - kept[j].timestamp <= window
      BY <2>3, <2>5, Zenon
    <2>7. Near(T, kept, window)
      BY <2>6 DEF Near
    <2> QED
      BY <1>9, <2>1, <2>4, <2>7 DEF Clustered, m
  <1> QED
    BY <1>6, <1>8, <1>9 DEF kept

LEMMA DetectorsReport ==
    ASSUME NEW s \in Seq(Entries), NEW type, NEW threshold \in Nat \ {0}, NEW window \in Nat,
           NEW findings, DetectBursts(type, s, threshold, window) \subseteq findings,
           \A f \in findings : f.finding_type = type => f \in DetectBursts(type, s, threshold, window)
    PROVE  ReportsBursts(s, findings, type, threshold, window)
  <1> DEFINE reported(ip) == {f \in findings : f.finding_type = type /\ f.source_ip = ip}
             made(ip) == Finding(type, ip, Len(Of(s, ip)))
             busy == {ip \in Addresses(s) : Bursts(Timestamps(Of(s, ip)), threshold, window)}
  <1>1. \A ip : made(ip).finding_type = type /\ made(ip).source_ip = ip
    BY DEF Finding
  <1>2. DetectBursts(type, s, threshold, window) = {made(ip) : ip \in busy}
    BY DEF DetectBursts
  <1> HIDE DEF made
  <1>3. /\ \A ip \in busy : made(ip) \in findings
        /\ \A f \in findings : f.finding_type = type => \E ip \in busy : f = made(ip)
    BY <1>2
  <1>4. \A ip \in Addresses(s) : HasBurst(s, ip, threshold, window) <=> ip \in busy
    <2>1. SUFFICES ASSUME NEW ip \in Addresses(s)
                   PROVE  HasBurst(s, ip, threshold, window) <=>
                              Bursts(Timestamps(Of(s, ip)), threshold, window)
      OBVIOUS
    <2>2. Of(s, ip) \in Seq(Entries)
      BY FilterType DEF Of
    <2>3. Bursts(Timestamps(Of(s, ip)), threshold, window) <=> Clustered(Of(s, ip), threshold, window)
      BY <2>2, BurstsAreClusters, ClustersAreBursts
    <2>4. HasBurst(s, ip, threshold, window) <=> Clustered(Of(s, ip), threshold, window)
      BY BurstsOfAddress
    <2> QED
      BY <2>3, <2>4, Zenon
  <1>5. busy \subseteq Addresses(s)
    OBVIOUS
  <1> HIDE DEF busy
  <1>6. \A f \in findings : f.finding_type = type => f.source_ip \in Addresses(s)
    BY <1>1, <1>3, <1>5
  <1>7. \A ip \in busy : reported(ip) = {made(ip)}
    BY <1>1, <1>3
  <1>8. \A ip : ip \notin busy => reported(ip) = {}
    BY <1>1, <1>3
  <1>9. \A ip \in busy : Cardinality(reported(ip)) = 1
    BY <1>7, FS_Singleton
  <1>10. \A ip \in Addresses(s) :
             IF HasBurst(s, ip, threshold, window)
             THEN Cardinality(reported(ip)) = 1
             ELSE reported(ip) = {}
    BY <1>4, <1>8, <1>9, Zenon
  <1> QED
    BY <1>6, <1>10, Zenon DEF ReportsBursts

LEMMA EveryBurstReported ==
    ASSUME NEW s \in Seq(Entries)
    PROVE  /\ ReportsBursts(FailedLogins(s), Analyze(s), "brute_force",
                            BruteForceThreshold, BruteForceWindow)
           /\ ReportsBursts(s, Analyze(s), "traffic_spike",
                            TrafficSpikeThreshold, TrafficSpikeWindow)
  <1>1. FailedLogins(s) \in Seq(Entries)
    BY FilterType DEF FailedLogins
  <1>2. /\ \A f \in DetectBruteForce(s) : f.finding_type = "brute_force"
        /\ \A f \in DetectTrafficSpikes(s) : f.finding_type = "traffic_spike"
        /\ \A f \in DetectSuspiciousUserAgents(s) : f.finding_type = "suspicious_user_agent"
        /\ \A f \in DetectDirectoryTraversal(s) : f.finding_type = "directory_traversal"
    BY DEF DetectBruteForce, DetectTrafficSpikes, DetectSuspiciousUserAgents,
           DetectDirectoryTraversal, DetectBursts, DetectEach, Finding
  <1>3. \A f \in Analyze(s) :
            /\ f.finding_type = "brute_force" => f \in DetectBruteForce(s)
            /\ f.finding_type = "traffic_spike" => f \in DetectTrafficSpikes(s)
    BY <1>2 DEF Analyze
  <1>4. DetectBruteForce(s) \subseteq Analyze(s) /\ DetectTrafficSpikes(s) \subseteq Analyze(s)
    BY DEF Analyze
  <1>5. /\ BruteForceThreshold \in Nat \ {0} /\ BruteForceWindow \in Nat
        /\ TrafficSpikeThreshold \in Nat \ {0} /\ TrafficSpikeWindow \in Nat
    BY LogAnalyzerAssumption
  <1>6. ReportsBursts(FailedLogins(s), Analyze(s), "brute_force", BruteForceThreshold, BruteForceWindow)
    BY <1>1, <1>3, <1>4, <1>5, DetectorsReport DEF DetectBruteForce
  <1>7. ReportsBursts(s, Analyze(s), "traffic_spike", TrafficSpikeThreshold, TrafficSpikeWindow)
    BY <1>3, <1>4, <1>5, DetectorsReport DEF DetectTrafficSpikes
  <1> QED
    BY <1>6, <1>7

(* Whatever the application logged, in whatever order of times and with     *)
(* whatever torn lines, the analyzer reports an address for brute force or  *)
(* a traffic spike exactly when a threshold of its entries lie within the   *)
(* window, and once (detect_brute_force and detect_traffic_spikes of        *)
(* app/analysis/log_analyzer.py).                                           *)
THEOREM LogBurstsReported == Spec => []BurstsReported
  <1>1. Init => LogInv
    BY LogStarts DEF Init
  <1>2. LogInv /\ [Next]_vars => LogInv'
    BY LogStep DEF Next, Logs, Grow, vars, logVars
  <1>3. LogInv => BurstsReported
    <2>1. LoadLogEntries = Read(log)
      BY DEF LoadLogEntries, Read
    <2>2. LogInv => Read(log) \in Seq(Entries)
      BY ReadType DEF LogInv, LogTyped
    <2> QED
      BY <2>1, <2>2, EveryBurstReported DEF BurstsReported
  <1> QED
    BY <1>1, <1>2, <1>3, PTL DEF Spec

-----------------------------------------------------------------------------

(* Flattening, and functions that recur on what is behind an argument. *)

IsFlat(f, s) == f = [i \in 1 .. Len(s) |-> IF i = 1 THEN s[i] ELSE f[i - 1] \o s[i]]

LEMMA FlatExists ==
    ASSUME NEW X, NEW s \in Seq(Seq(X))
    PROVE  \E f \in [1 .. Len(s) -> Seq(X)] : IsFlat(f, s)
  <1> DEFINE S == {t \in Seq(Seq(X)) : \E f \in [1 .. Len(t) -> Seq(X)] : IsFlat(f, t)}
  <1>1. <<>> \in S
    <2>1. <<>> \in Seq(Seq(X)) /\ Len(<<>>) = 0 /\ 1 .. 0 = {}
      BY EmptySeq
    <2>2. <<>> = [i \in {} |-> IF i = 1 THEN <<>>[i] ELSE <<>>[i - 1] \o <<>>[i]]
      OBVIOUS
    <2> QED
      BY <2>1, <2>2 DEF IsFlat
  <1>2. ASSUME NEW t \in Seq(Seq(X)), NEW e \in Seq(X), t \in S PROVE Append(t, e) \in S
    <2> DEFINE n == Len(t)
               more == Append(t, e)
    <2>1. /\ more \in Seq(Seq(X)) /\ n \in Nat /\ Len(more) = n + 1
          /\ \A k \in 1 .. n : more[k] = t[k]
          /\ more[n + 1] = e
      BY AppendProperties, LenProperties
    <2>2. PICK f \in [1 .. n -> Seq(X)] : IsFlat(f, t)
      BY <1>2
    <2> HIDE DEF n, more
    <2> DEFINE h == [i \in 1 .. (n + 1) |->
                        IF i = n + 1 THEN IF n = 0 THEN e ELSE f[n] \o e ELSE f[i]]
    <2>3. n # 0 => f[n] \in Seq(X)
      BY <2>1
    <2>4. n # 0 => f[n] \o e \in Seq(X)
      BY <2>3, ConcatProperties
    <2>5. h \in [1 .. (n + 1) -> Seq(X)]
      BY <2>1, <2>4
    <2>6. \A i \in 1 .. n : f[i] = IF i = 1 THEN t[i] ELSE f[i - 1] \o t[i]
      BY <2>2 DEF IsFlat, n
    <2>7. ASSUME NEW i \in 1 .. (n + 1)
          PROVE  h[i] = IF i = 1 THEN more[i] ELSE h[i - 1] \o more[i]
      <3>1. CASE i = n + 1
        <4>1. i # 1 => n # 0 /\ h[i - 1] = f[n]
          BY <2>1, <3>1
        <4> QED
          BY <2>1, <3>1, <4>1
      <3>2. CASE i # n + 1
        <4>1. i \in 1 .. n /\ h[i] = f[i] /\ more[i] = t[i]
          BY <2>1, <3>2
        <4>2. i # 1 => h[i - 1] = f[i - 1]
          BY <2>1, <3>2
        <4> QED
          BY <2>6, <4>1, <4>2
      <3> QED
        BY <3>1, <3>2
    <2>8. IsFlat(h, more)
      <3>1. h = [i \in 1 .. (n + 1) |-> h[i]]
        OBVIOUS
      <3> HIDE DEF h
      <3> QED
        BY <2>1, <2>7, <3>1 DEF IsFlat
    <2> HIDE DEF h
    <2> QED
      BY <2>1, <2>5, <2>8 DEF more
  <1> HIDE DEF S
  <1>3. s \in S
    BY <1>1, <1>2, GrowsToAll
  <1> QED
    BY <1>3 DEF S

LEMMA FlatOf ==
    ASSUME NEW X, NEW s \in Seq(Seq(X)), s # <<>>
    PROVE  \E f \in [1 .. Len(s) -> Seq(X)] :
              /\ \A i \in 1 .. Len(s) : f[i] = IF i = 1 THEN s[i] ELSE f[i - 1] \o s[i]
              /\ FlattenSeq(s) = f[Len(s)]
  <1> DEFINE f == CHOOSE g : IsFlat(g, s)
  <1>1. IsFlat(f, s)
    BY FlatExists
  <1>2. Len(s) \in Nat \ {0}
    BY EmptySeq
  <1>3. FlattenSeq(s) = f[Len(s)]
    BY <1>2 DEF FlattenSeq, IsFlat
  <1> HIDE DEF f
  <1>4. \A i \in 1 .. Len(s) : f[i] = IF i = 1 THEN s[i] ELSE f[i - 1] \o s[i]
    BY <1>1 DEF IsFlat
  <1> DEFINE S == {k \in Nat : k + 1 <= Len(s) => f[k + 1] \in Seq(X)}
  <1>5. 0 \in S
    BY <1>2, <1>4
  <1>6. ASSUME NEW k \in Nat, k \in S PROVE k + 1 \in S
    <2>1. SUFFICES ASSUME k + 1 + 1 <= Len(s) PROVE f[k + 1 + 1] \in Seq(X)
      OBVIOUS
    <2>2. k + 1 + 1 \in 1 .. Len(s) /\ k + 1 + 1 # 1 /\ k + 1 + 1 - 1 = k + 1
      BY <1>2, <2>1
    <2>3. f[k + 1] \in Seq(X)
      BY <1>2, <1>6, <2>1
    <2>4. s[k + 1 + 1] \in Seq(X)
      BY <2>2, ElementOfSeq
    <2> DEFINE i == k + 1 + 1
    <2>5. f[i] = f[i - 1] \o s[i]
      <3>1. i \in 1 .. Len(s) /\ i # 1
        BY <2>2
      <3> HIDE DEF i
      <3> QED
        BY <1>4, <3>1, Zenon
    <2>6. f[k + 1] \o s[k + 1 + 1] \in Seq(X)
      BY <2>3, <2>4, ConcatProperties
    <2> QED
      BY <2>2, <2>5, <2>6
  <1> HIDE DEF S
  <1>7. \A k \in Nat : k \in S
    BY <1>5, <1>6, AllNaturals
  <1>8. \A i \in 1 .. Len(s) : f[i] \in Seq(X)
    <2>1. ASSUME NEW i \in 1 .. Len(s) PROVE f[i] \in Seq(X)
      <3>1. i - 1 \in Nat /\ i - 1 + 1 = i /\ i <= Len(s)
        BY <1>2
      <3> QED
        BY <1>7, <3>1 DEF S
    <2> QED
      BY <2>1
  <1>9. f \in [1 .. Len(s) -> Seq(X)]
    BY <1>1, <1>8 DEF IsFlat
  <1> QED
    BY <1>3, <1>4, <1>9

\* The two laws of flattening.
LEMMA FlattenNone == FlattenSeq(<<>>) = <<>>
  BY Len(<<>>) = 0 DEF FlattenSeq

LEMMA FlattenAppend ==
    ASSUME NEW X, NEW s \in Seq(Seq(X)), NEW e \in Seq(X)
    PROVE  /\ FlattenSeq(s) \in Seq(X)
           /\ FlattenSeq(Append(s, e)) = FlattenSeq(s) \o e
  <1> DEFINE n == Len(s)
             more == Append(s, e)
  <1>1. /\ more \in Seq(Seq(X)) /\ more # <<>> /\ n \in Nat /\ Len(more) = n + 1
        /\ \A k \in 1 .. n : more[k] = s[k]
        /\ more[n + 1] = e
    BY AppendProperties, LenProperties
  <1> HIDE DEF n, more
  <1>2. PICK f \in [1 .. (n + 1) -> Seq(X)] :
              /\ \A i \in 1 .. (n + 1) : f[i] = IF i = 1 THEN more[i] ELSE f[i - 1] \o more[i]
              /\ FlattenSeq(more) = f[n + 1]
    <2>1. \E f \in [1 .. Len(more) -> Seq(X)] :
              /\ \A i \in 1 .. Len(more) : f[i] = IF i = 1 THEN more[i] ELSE f[i - 1] \o more[i]
              /\ FlattenSeq(more) = f[Len(more)]
      BY <1>1, FlatOf
    <2> QED
      BY <1>1, <2>1
  <1>3. CASE s = <<>>
    <2>1. n = 0 /\ FlattenSeq(s) = <<>> /\ <<>> \in Seq(X)
      BY <1>3, FlattenNone, EmptySeq DEF n
    <2>2. FlattenSeq(more) = e
      BY <1>1, <1>2, <2>1
    <2>3. <<>> \o e = e
      BY ConcatEmptySeq
    <2> QED
      BY <2>1, <2>2, <2>3 DEF more
  <1>4. CASE s # <<>>
    <2>1. PICK g \in [1 .. n -> Seq(X)] :
              /\ \A i \in 1 .. n : g[i] = IF i = 1 THEN s[i] ELSE g[i - 1] \o s[i]
              /\ FlattenSeq(s) = g[n]
      BY <1>4, FlatOf DEF n
    <2>2. n # 0
      BY <1>4, EmptySeq DEF n
    <2> DEFINE S == {k \in Nat : k + 1 <= n => f[k + 1] = g[k + 1]}
    <2>3. 0 \in S
      <3>1. 1 \in 1 .. n /\ 1 \in 1 .. (n + 1)
        BY <1>1, <2>2
      <3>2. f[1] = more[1] /\ g[1] = s[1] /\ more[1] = s[1]
        BY <1>1, <1>2, <2>1, <3>1, Zenon
      <3> QED
        BY <3>2
    <2>4. ASSUME NEW k \in Nat, k \in S PROVE k + 1 \in S
      <3>1. SUFFICES ASSUME k + 1 + 1 <= n PROVE f[k + 1 + 1] = g[k + 1 + 1]
        OBVIOUS
      <3> DEFINE i == k + 1 + 1
      <3>2. i \in 1 .. n /\ i \in 1 .. (n + 1) /\ i # 1 /\ i - 1 = k + 1
        BY <1>1, <3>1
      <3>3. f[k + 1] = g[k + 1]
        BY <1>1, <2>4, <3>1
      <3> HIDE DEF i
      <3>4. f[i] = f[i - 1] \o more[i] /\ g[i] = g[i - 1] \o s[i]
        BY <1>2, <2>1, <3>2, Zenon
      <3>5. f[i] = g[i]
        BY <1>1, <3>2, <3>3, <3>4
      <3> QED
        BY <3>5 DEF i
    <2> HIDE DEF S
    <2>5. \A k \in Nat : k \in S
      BY <2>3, <2>4, AllNaturals
    <2>6. f[n] = g[n]
      <3>1. n - 1 \in Nat /\ n - 1 + 1 = n
        BY <1>1, <2>2
      <3>2. n - 1 \in S
        BY <2>5, <3>1
      <3> QED
        BY <1>1, <3>1, <3>2 DEF S
    <2>7. f[n + 1] = f[n] \o e
      <3> DEFINE i == n + 1
      <3>1. i \in 1 .. (n + 1) /\ i # 1 /\ i - 1 = n /\ more[i] = e
        BY <1>1, <2>2
      <3> HIDE DEF i
      <3>2. f[i] = f[i - 1] \o more[i]
        BY <1>2, <3>1, Zenon
      <3>3. f[i] = f[n] \o e
        BY <3>1, <3>2
      <3> QED
        BY <3>3 DEF i
    <2>8. g[n] \in Seq(X)
      BY <1>1, <2>1, <2>2
    <2> QED
      BY <1>2, <2>1, <2>6, <2>7, <2>8 DEF more
  <1> QED
    BY <1>3, <1>4

\* A step makes the value at i of the values behind i.
LooksAhead(step, n, V) ==
    /\ step \in [(0 .. n) \X [0 .. n -> V] -> V]
    /\ \A i \in 0 .. n : \A g, h \in [0 .. n -> V] :
          (\A k \in (i + 1) .. n : g[k] = h[k]) => step[<<i, g>>] = step[<<i, h>>]

Recurs(f, step, n, V) == f \in [0 .. n -> V] /\ \A i \in 0 .. n : f[i] = step[<<i, f>>]

LEMMA BackwardExists ==
    ASSUME NEW n \in Nat, NEW V, NEW base \in V, NEW step, LooksAhead(step, n, V)
    PROVE  \E f : Recurs(f, step, n, V)
  <1> USE DEF LooksAhead
  <1> DEFINE Good(f, m) == \A i \in 0 .. n : i + m > n => f[i] = step[<<i, f>>]
             S == {m \in Nat : m <= n + 1 => \E f \in [0 .. n -> V] : Good(f, m)}
  <1>1. 0 \in S
    <2>1. [i \in 0 .. n |-> base] \in [0 .. n -> V]
      OBVIOUS
    <2>2. Good([i \in 0 .. n |-> base], 0)
      OBVIOUS
    <2> QED
      BY <2>1, <2>2
  <1>2. ASSUME NEW m \in Nat, m \in S PROVE m + 1 \in S
    <2> HIDE DEF Good
    <2>1. SUFFICES ASSUME m + 1 <= n + 1 PROVE \E f \in [0 .. n -> V] : Good(f, m + 1)
      OBVIOUS
    <2>2. PICK f \in [0 .. n -> V] : Good(f, m)
      <3>1. m <= n + 1
        BY <2>1
      <3> QED
        BY <1>2, <3>1
    <2> DEFINE j == n - m
               h == [f EXCEPT ![j] = step[<<j, f>>]]
    <2>3. j \in 0 .. n
      BY <2>1
    <2>4. h \in [0 .. n -> V]
      BY <2>3
    <2>5. ASSUME NEW i \in 0 .. n, i + (m + 1) > n PROVE h[i] = step[<<i, h>>]
      <3>1. \A k \in (i + 1) .. n : k # j /\ k \in 0 .. n
        BY <2>5
      <3>2. \A k \in (i + 1) .. n : f[k] = h[k]
        BY <2>2, <3>1
      <3>3. step[<<i, f>>] = step[<<i, h>>]
        <4> HIDE DEF h
        <4> QED
          BY <2>4, <3>2
      <3>4. CASE i = j
        BY <2>2, <2>3, <3>3, <3>4
      <3>5. CASE i # j
        <4>1. i + m > n
          BY <2>5, <3>5
        <4>2. f[i] = step[<<i, f>>]
          BY <2>2, <4>1 DEF Good
        <4>3. h[i] = f[i]
          BY <2>2, <3>5
        <4> QED
          BY <3>3, <4>2, <4>3
      <3> QED
        BY <3>4, <3>5
    <2>6. Good(h, m + 1)
      BY <2>5 DEF Good
    <2> HIDE DEF h
    <2> QED
      BY <2>4, <2>6
  <1>3. \A m \in Nat : m \in S
    <2> HIDE DEF S
    <2> QED
      BY <1>1, <1>2, AllNaturals
  <1> HIDE DEF Good
  <1>4. PICK f \in [0 .. n -> V] : Good(f, n + 1)
    <2>1. n + 1 \in Nat /\ n + 1 <= n + 1
      OBVIOUS
    <2> QED
      BY <1>3, <2>1
  <1>5. \A i \in 0 .. n : f[i] = step[<<i, f>>]
    BY <1>4 DEF Good
  <1> QED
    BY <1>5 DEF Recurs

-----------------------------------------------------------------------------

(* Redaction: the patterns. *)

Characters == {"d", "x", "-", " ", "@", ".", "*", "#"}
WordCharacter == {"d", "x"}
AddressCharacter == {"d", "x", ".", "-"}

IsWord(t, k) == k \in DOMAIN t /\ t[k] \in WordCharacter

LEMMA WordBoundaryIs == \A t, k : WordBoundary(t, k) <=> ~(IsWord(t, k) <=> IsWord(t, k + 1))
  BY DEF WordBoundary, IsWord, WordCharacter

\* The patterns one by one.
IsAddress(t, i, j, at, dot) ==
    /\ at \in (i + 1) .. j /\ dot \in i .. (j - 2)
    /\ t[at] = "@" /\ t[dot] = "." /\ at + 1 < dot
    /\ \A k \in (i .. (dot - 1)) \ {at} : t[k] \in AddressCharacter
    /\ \A k \in (dot + 1) .. j : t[k] = "x"

Digits(t, i, j) == {k \in i .. j : t[k] = "d"}

IsCard(t, i, j) ==
    /\ t[i] = "d"
    /\ \A k \in i .. j : t[k] = "d" \/ (t[k] \in {"-", " "} /\ t[k - 1] = "d")
    /\ Cardinality(Digits(t, i, j)) \in CardDigits

LEMMA ShapeIs ==
    \A t, i, j :
        /\ Shape("email", t, i, j) <=> \E at, dot : IsAddress(t, i, j, at, dot)
        /\ Shape("ssn", t, i, j) <=> SubSeq(t, i, j) = <<"d", "-", "d", "d">>
        /\ Shape("credit_card", t, i, j) <=> IsCard(t, i, j)
  <1> TAKE t, i, j
  <1>1. Shape("email", t, i, j) <=> \E at, dot : IsAddress(t, i, j, at, dot)
    <2>1. Shape("email", t, i, j) <=>
             \E at \in (i + 1) .. j, dot \in i .. (j - 2) :
                /\ t[at] = "@" /\ t[dot] = "." /\ at + 1 < dot
                /\ \A k \in (i .. (dot - 1)) \ {at} : t[k] \in {"d", "x", ".", "-"}
                /\ \A k \in (dot + 1) .. j : t[k] = "x"
      BY DEF Shape
    <2> QED
      BY <2>1, Zenon DEF IsAddress, AddressCharacter
  <1>2. Shape("ssn", t, i, j) <=> SubSeq(t, i, j) = <<"d", "-", "d", "d">>
    BY DEF Shape
  <1>3. Shape("credit_card", t, i, j) <=> IsCard(t, i, j)
    BY DEF Shape, IsCard, Digits
  <1> QED
    BY <1>1, <1>2, <1>3

LEMMA PatternCases == \A p \in Pattern : p = "email" \/ p = "ssn" \/ p = "credit_card"
  BY DEF Pattern

\* A social security number character by character.
IsNumber(t, i, j) == j = i + 3 /\ t[i] = "d" /\ t[i + 1] = "-" /\ t[i + 2] = "d" /\ t[i + 3] = "d"

LEMMA NumberIs ==
    ASSUME NEW t \in Seq(Characters), NEW i \in 1 .. Len(t), NEW j \in i .. Len(t)
    PROVE  Shape("ssn", t, i, j) <=> IsNumber(t, i, j)
  <1> DEFINE u == SubSeq(t, i, j)
             v == <<"d", "-", "d", "d">>
  <1>1. i \in Int /\ j \in Int /\ i <= j /\ \A k \in i .. j : t[k] \in Characters
    BY LenProperties, ElementOfSeq
  <1>2. /\ u \in Seq(Characters) /\ Len(u) = j - i + 1
        /\ \A k \in 1 .. (j - i + 1) : u[k] = t[i + k - 1]
    BY <1>1, SubSeqProperties
  <1>3. v \in Seq(Characters) /\ Len(v) = 4 /\ v[1] = "d" /\ v[2] = "-" /\ v[3] = "d" /\ v[4] = "d"
    <2>1. "d" \in Characters /\ "-" \in Characters
      BY DEF Characters
    <2> QED
      BY <2>1
  <1> HIDE DEF u, v
  <1>4. ASSUME u = v PROVE IsNumber(t, i, j)
    <2>1. j = i + 3
      <3>1. Len(u) = 4 /\ Len(u) = j - i + 1
        BY <1>2, <1>3, <1>4
      <3>2. 4 = j - i + 1
        BY <3>1
      <3>3. i \in Int /\ j \in Int
        BY <1>1
      <3> QED
        BY <3>2, <3>3
    <2>2. u[1] = t[i + 1 - 1] /\ u[2] = t[i + 2 - 1] /\ u[3] = t[i + 3 - 1] /\ u[4] = t[i + 4 - 1]
      BY <1>1, <1>2, <2>1
    <2>3. i + 1 - 1 = i /\ i + 2 - 1 = i + 1 /\ i + 3 - 1 = i + 2 /\ i + 4 - 1 = i + 3
      BY <1>1
    <2>4. u[1] = t[i] /\ u[2] = t[i + 1] /\ u[3] = t[i + 2] /\ u[4] = t[i + 3]
      BY <2>2, <2>3
    <2> QED
      BY <1>3, <1>4, <2>1, <2>4 DEF IsNumber
  <1>5. ASSUME IsNumber(t, i, j) PROVE u = v
    <2>1. j = i + 3 /\ Len(u) = 4
      BY <1>1, <1>2, <1>5 DEF IsNumber
    <2>2. u[1] = t[i + 1 - 1] /\ u[2] = t[i + 2 - 1] /\ u[3] = t[i + 3 - 1] /\ u[4] = t[i + 4 - 1]
      BY <1>1, <1>2, <2>1
    <2>3. i + 1 - 1 = i /\ i + 2 - 1 = i + 1 /\ i + 3 - 1 = i + 2 /\ i + 4 - 1 = i + 3
      BY <1>1
    <2>4. u[1] = t[i] /\ u[2] = t[i + 1] /\ u[3] = t[i + 2] /\ u[4] = t[i + 3]
      BY <2>2, <2>3
    <2>5. \A k \in 1 .. 4 : u[k] = v[k]
      <3>1. \A k \in 1 .. 4 : k = 1 \/ k = 2 \/ k = 3 \/ k = 4
        OBVIOUS
      <3> QED
        BY <1>3, <1>5, <2>4, <3>1 DEF IsNumber
    <2> QED
      BY <1>2, <1>3, <2>1, <2>5, SeqEqual
  <1> QED
    BY <1>4, <1>5, ShapeIs DEF u, v

LEMMA EndsIs ==
    ASSUME NEW p, NEW t \in Seq(Characters), NEW i \in 1 .. Len(t)
    PROVE  /\ Ends(p, t, i) \in SUBSET (i .. Len(t))
           /\ MatchEnd(p, t, i) \in i .. Len(t)
           /\ Ends(p, t, i) # {} => MatchEnd(p, t, i) \in Ends(p, t, i)
           /\ Ends(p, t, i) = {} => MatchEnd(p, t, i) = i
           /\ \A j \in Ends(p, t, i) : j <= MatchEnd(p, t, i)
  <1>1. Len(t) \in Nat /\ i \in Nat /\ i <= Len(t) /\ 1 <= i
    BY LenProperties
  <1>2. Ends(p, t, i) \in SUBSET (i .. Len(t))
    BY DEF Ends
  <1>3. i .. Len(t) \in SUBSET (1 .. Len(t)) /\ i \in i .. Len(t)
    BY <1>1
  <1>4. CASE Ends(p, t, i) = {}
    BY <1>2, <1>3, <1>4 DEF MatchEnd
  <1>5. CASE Ends(p, t, i) # {}
    <2> DEFINE ends == Ends(p, t, i)
    <2>1. ends \in SUBSET (1 .. Len(t))
      BY <1>2, <1>3
    <2> HIDE DEF ends
    <2>2. Max(ends) \in ends /\ \A k \in ends : k <= Max(ends)
      <3>1. ends # {}
        BY <1>5 DEF ends
      <3> QED
        BY <1>1, <2>1, <3>1, MaxOf
    <2> QED
      BY <1>2, <1>5, <2>2 DEF MatchEnd, ends
  <1> QED
    BY <1>4, <1>5

LEMMA MatchIs ==
    ASSUME NEW p, NEW t \in Seq(Characters), NEW i \in 1 .. Len(t), NEW j \in Ends(p, t, i)
    PROVE  /\ j \in i .. Len(t) /\ Shape(p, t, i, j)
           /\ WordBoundary(t, i - 1) /\ WordBoundary(t, j)
  BY DEF Ends

-----------------------------------------------------------------------------

(* Where the characters of a replaced text come from. *)

\* For each n positions what is written for it and the last position it stands for.
Writes(rep, end, n, X) ==
    /\ rep \in [1 .. n -> Seq(X)] /\ end \in [1 .. n -> 1 .. n]
    /\ \A k \in 1 .. n : Len(rep[k]) >= 1 /\ k <= end[k]

\* The character k of r is the one numbered off[k] of what was written for src[k].
Traced(src, off, r, rep, end, n, i) ==
    /\ src \in [1 .. Len(r) -> 1 .. n] /\ off \in [1 .. Len(r) -> Nat]
    /\ \A k \in 1 .. Len(r) : off[k] \in 1 .. Len(rep[src[k]]) /\ r[k] = rep[src[k]][off[k]]
    /\ i > n => Len(r) = 0
    /\ i <= n => /\ Len(r) >= 1 /\ src[1] = i /\ off[1] = 1
                 /\ off[Len(r)] = Len(rep[src[Len(r)]]) /\ end[src[Len(r)]] = n
    /\ \A k \in 1 .. (Len(r) - 1) :
          IF off[k] < Len(rep[src[k]]) THEN src[k + 1] = src[k] /\ off[k + 1] = off[k] + 1
          ELSE src[k + 1] = end[src[k]] + 1 /\ off[k + 1] = 1

LEMMA TraceStep ==
    ASSUME NEW X, NEW n \in Nat, NEW rep, NEW end, Writes(rep, end, n, X),
           NEW i \in 1 .. n, NEW r \in Seq(X),
           NEW src, NEW off, Traced(src, off, r, rep, end, n, end[i] + 1)
    PROVE  \E src1, off1 : Traced(src1, off1, rep[i] \o r, rep, end, n, i)
  <1> DEFINE m == Len(rep[i])
             l == Len(r)
             u == rep[i] \o r
             src1 == [k \in 1 .. (m + l) |-> IF k <= m THEN i ELSE src[k - m]]
             off1 == [k \in 1 .. (m + l) |-> IF k <= m THEN k ELSE off[k - m]]
  <1>1. /\ rep[i] \in Seq(X) /\ m \in Nat /\ m >= 1 /\ l \in Nat
        /\ end[i] \in Nat /\ end[i] <= n /\ i <= end[i]
    BY DEF Writes
  <1>2. /\ Len(u) = m + l
        /\ \A k \in 1 .. (m + l) : u[k] = IF k <= m THEN rep[i][k] ELSE r[k - m]
    BY <1>1, ConcatProperties
  <1>3. /\ src \in [1 .. l -> 1 .. n] /\ off \in [1 .. l -> Nat]
        /\ \A k \in 1 .. l : off[k] \in 1 .. Len(rep[src[k]]) /\ r[k] = rep[src[k]][off[k]]
        /\ end[i] + 1 > n => l = 0
        /\ end[i] + 1 <= n => /\ l >= 1 /\ src[1] = end[i] + 1 /\ off[1] = 1
                              /\ off[l] = Len(rep[src[l]]) /\ end[src[l]] = n
        /\ \A k \in 1 .. (l - 1) :
              IF off[k] < Len(rep[src[k]]) THEN src[k + 1] = src[k] /\ off[k + 1] = off[k] + 1
              ELSE src[k + 1] = end[src[k]] + 1 /\ off[k + 1] = 1
    BY DEF Traced
  <1> HIDE DEF l, u
  <1>4. /\ \A k \in 1 .. (m + l) : ~(k <= m) => k - m \in 1 .. l
        /\ \A k \in 1 .. m : k \in 1 .. (m + l)
    BY <1>1
  <1>5. src1 \in [1 .. (m + l) -> 1 .. n]
    BY <1>3, <1>4
  <1>6. off1 \in [1 .. (m + l) -> Nat]
    BY <1>3, <1>4
  <1>7. /\ \A k \in 1 .. (m + l) : k <= m => src1[k] = i /\ off1[k] = k
        /\ \A k \in 1 .. (m + l) : ~(k <= m) => src1[k] = src[k - m] /\ off1[k] = off[k - m]
    OBVIOUS
  <1> HIDE DEF src1, off1
  <1>8. ASSUME NEW k \in 1 .. (m + l)
        PROVE  off1[k] \in 1 .. Len(rep[src1[k]]) /\ u[k] = rep[src1[k]][off1[k]]
    <2>1. CASE k <= m
      <3>1. src1[k] = i /\ off1[k] = k /\ u[k] = rep[i][k] /\ k \in 1 .. m
        BY <1>1, <1>2, <1>7, <2>1
      <3> QED
        BY <3>1
    <2>2. CASE ~(k <= m)
      <3>1. src1[k] = src[k - m] /\ off1[k] = off[k - m] /\ u[k] = r[k - m] /\ k - m \in 1 .. l
        BY <1>2, <1>4, <1>7, <2>2
      <3>2. off[k - m] \in 1 .. Len(rep[src[k - m]]) /\ r[k - m] = rep[src[k - m]][off[k - m]]
        BY <1>3, <3>1
      <3> QED
        BY <3>1, <3>2
    <2> QED
      BY <2>1, <2>2
  <1>9. /\ m + l >= 1 /\ src1[1] = i /\ off1[1] = 1
        /\ off1[m + l] = Len(rep[src1[m + l]]) /\ end[src1[m + l]] = n
    <2>1. 1 \in 1 .. (m + l) /\ 1 <= m /\ m + l \in 1 .. (m + l)
      BY <1>1, <1>3
    <2>2. CASE l = 0
      <3>1. m + l = m /\ m \in 1 .. (m + l) /\ m <= m
        BY <1>1, <2>1, <2>2
      <3>2. src1[m + l] = i /\ off1[m + l] = m
        BY <1>7, <3>1
      <3>3. end[i] = n
        BY <1>1, <1>3, <2>2
      <3> QED
        BY <1>7, <2>1, <3>2, <3>3
    <2>3. CASE l # 0
      <3>1. end[i] + 1 <= n /\ l \in 1 .. l
        BY <1>1, <1>3, <2>3
      <3> DEFINE z == m + l
      <3>2. z \in 1 .. (m + l) /\ ~(z <= m) /\ z - m = l
        BY <1>1, <1>3, <2>1, <2>3
      <3> HIDE DEF z
      <3>4. src1[z] = src[z - m] /\ off1[z] = off[z - m]
        BY <1>7, <3>2
      <3>3. src1[m + l] = src[l] /\ off1[m + l] = off[l]
        BY <3>2, <3>4 DEF z
      <3> QED
        BY <1>3, <1>7, <2>1, <3>1, <3>3
    <2> QED
      BY <2>2, <2>3
  <1>10. ASSUME NEW k \in 1 .. (m + l - 1)
         PROVE  IF off1[k] < Len(rep[src1[k]]) THEN src1[k + 1] = src1[k] /\ off1[k + 1] = off1[k] + 1
                ELSE src1[k + 1] = end[src1[k]] + 1 /\ off1[k + 1] = 1
    <2>1. k \in 1 .. (m + l) /\ k + 1 \in 1 .. (m + l)
      BY <1>1
    <2>2. CASE k < m
      <3>1. k <= m /\ k + 1 <= m
        BY <1>1, <2>2
      <3>2. src1[k] = i /\ off1[k] = k /\ src1[k + 1] = i /\ off1[k + 1] = k + 1
        BY <1>7, <2>1, <3>1
      <3> QED
        BY <2>2, <3>2
    <2>3. CASE k = m
      <3>1. k <= m /\ ~(k + 1 <= m) /\ k + 1 - m = 1 /\ l # 0
        BY <1>1, <2>3
      <3>2. src1[k] = i /\ off1[k] = m /\ src1[k + 1] = src[1] /\ off1[k + 1] = off[1]
        BY <1>7, <2>1, <2>3, <3>1
      <3>3. end[i] + 1 <= n
        BY <1>1, <1>3, <3>1
      <3>4. src[1] = end[i] + 1 /\ off[1] = 1
        BY <1>3, <3>3
      <3>5. ~(m < m)
        BY <1>1
      <3>6. ~(off1[k] < Len(rep[src1[k]]))
        BY <3>2, <3>5
      <3> QED
        BY <3>2, <3>4, <3>6
    <2>4. CASE k > m
      <3> DEFINE j == k - m
      <3>1. ~(k <= m) /\ ~(k + 1 <= m) /\ k + 1 - m = j + 1 /\ j \in 1 .. (l - 1)
        BY <1>1, <2>4
      <3>2. src1[k] = src[j] /\ off1[k] = off[j]
        BY <1>7, <2>1, <3>1
      <3>3. src1[k + 1] = src[j + 1] /\ off1[k + 1] = off[j + 1]
        <4> DEFINE z == k + 1
        <4>1. z \in 1 .. (m + l) /\ ~(z <= m) /\ z - m = j + 1
          BY <2>1, <3>1
        <4> HIDE DEF z
        <4>2. src1[z] = src[z - m] /\ off1[z] = off[z - m]
          BY <1>7, <4>1
        <4> QED
          BY <4>1, <4>2 DEF z
      <3> HIDE DEF j
      <3>4. IF off[j] < Len(rep[src[j]]) THEN src[j + 1] = src[j] /\ off[j + 1] = off[j] + 1
            ELSE src[j + 1] = end[src[j]] + 1 /\ off[j + 1] = 1
        BY <1>3, <3>1
      <3> QED
        BY <3>2, <3>3, <3>4
    <2> QED
      BY <1>1, <2>2, <2>3, <2>4
  <1>11. ~(i > n) /\ i <= n
    OBVIOUS
  <1> HIDE DEF m
  <1>12. Traced(src1, off1, u, rep, end, n, i)
    <2>1. /\ src1 \in [1 .. Len(u) -> 1 .. n] /\ off1 \in [1 .. Len(u) -> Nat]
          /\ \A k \in 1 .. Len(u) : off1[k] \in 1 .. Len(rep[src1[k]]) /\ u[k] = rep[src1[k]][off1[k]]
      BY <1>2, <1>5, <1>6, <1>8
    <2>2. \A k \in 1 .. (Len(u) - 1) :
            IF off1[k] < Len(rep[src1[k]]) THEN src1[k + 1] = src1[k] /\ off1[k + 1] = off1[k] + 1
            ELSE src1[k + 1] = end[src1[k]] + 1 /\ off1[k + 1] = 1
      <3>0. Len(u) = m + l
        BY <1>2
      <3>1. Len(u) - 1 = m + l - 1
        BY <1>1, <3>0
      <3>2. 1 .. (Len(u) - 1) = 1 .. (m + l - 1)
        BY <3>1
      <3> QED
        BY <1>10, <3>2, Zenon
    <2> QED
      BY <1>2, <1>9, <1>11, <2>1, <2>2 DEF Traced
  <1> QED
    BY <1>12 DEF u

LEMMA TraceExists ==
    ASSUME NEW X, NEW n \in Nat, NEW rep, NEW end, Writes(rep, end, n, X),
           NEW from \in [1 .. (n + 1) -> Seq(X)], from[n + 1] = <<>>,
           \A i \in 1 .. n : from[i] = rep[i] \o from[end[i] + 1]
    PROVE  \E src, off : Traced(src, off, from[1], rep, end, n, 1)
  <1> DEFINE Good(i) == \E src, off : Traced(src, off, from[i], rep, end, n, i)
             S == {m \in Nat : \A i \in 1 .. (n + 1) : i + m > n => Good(i)}
  <1>1. 0 \in S
    <2>1. Good(n + 1)
      <3>1. from[n + 1] = <<>> /\ Len(<<>>) = 0 /\ 1 .. 0 = {} /\ \A k : k \notin 1 .. (0 - 1)
        OBVIOUS
      <3>2. <<>> \in [{} -> 1 .. n] /\ <<>> \in [{} -> Nat]
        OBVIOUS
      <3>3. n + 1 > n /\ ~(n + 1 <= n)
        OBVIOUS
      <3>4. Traced(<<>>, <<>>, <<>>, rep, end, n, n + 1)
        BY <3>1, <3>2, <3>3 DEF Traced
      <3> QED
        BY <3>1, <3>4
    <2>2. \A i \in 1 .. (n + 1) : i + 0 > n => i = n + 1
      OBVIOUS
    <2> HIDE DEF Good
    <2> QED
      BY <2>1, <2>2
  <1>2. ASSUME NEW m \in Nat, m \in S PROVE m + 1 \in S
    <2>1. ASSUME NEW i \in 1 .. (n + 1), i + (m + 1) > n PROVE Good(i)
      <3>1. CASE i = n + 1
        <4>1. i + m > n
          BY <3>1
        <4> HIDE DEF Good
        <4> QED
          BY <1>2, <4>1
      <3>2. CASE i # n + 1
        <4>1. i \in 1 .. n
          BY <3>2
        <4>2. end[i] \in 1 .. n /\ i <= end[i]
          BY <4>1 DEF Writes
        <4>3. end[i] + 1 \in 1 .. (n + 1) /\ end[i] + 1 + m > n
          BY <2>1, <4>1, <4>2
        <4>4. Good(end[i] + 1)
          <5> HIDE DEF Good
          <5> QED
            BY <1>2, <4>3
        <4>5. PICK src, off : Traced(src, off, from[end[i] + 1], rep, end, n, end[i] + 1)
          BY <4>4
        <4>6. from[end[i] + 1] \in Seq(X) /\ from[i] = rep[i] \o from[end[i] + 1]
          BY <4>1, <4>3
        <4>7. \E src1, off1 : Traced(src1, off1, rep[i] \o from[end[i] + 1], rep, end, n, i)
          BY <4>1, <4>5, <4>6, TraceStep
        <4> QED
          BY <4>6, <4>7
      <3> QED
        BY <3>1, <3>2
    <2> HIDE DEF Good
    <2> QED
      BY <2>1
  <1> HIDE DEF Good
  <1>3. \A m \in Nat : m \in S
    <2> HIDE DEF S
    <2> QED
      BY <1>1, <1>2, AllNaturals
  <1>4. n \in S /\ 1 + n > n /\ 1 \in 1 .. (n + 1)
    <2>1. n \in S
      BY <1>3
    <2> QED
      BY <2>1
  <1>5. Good(1)
    BY <1>4
  <1> QED
    BY <1>5 DEF Good

-----------------------------------------------------------------------------

(* Redaction: what the masks write. *)

LEMMA MatchText ==
    ASSUME NEW t \in Seq(Characters), NEW i \in 1 .. Len(t), NEW j \in i .. Len(t)
    PROVE  /\ SubSeq(t, i, j) \in Seq(Characters) /\ Len(SubSeq(t, i, j)) = j - i + 1
           /\ \A k \in 1 .. (j - i + 1) : SubSeq(t, i, j)[k] = t[i + k - 1]
  <1>1. i \in Int /\ j \in Int /\ i <= j /\ \A k \in i .. j : t[k] \in Characters
    BY LenProperties, ElementOfSeq
  <1> QED
    BY <1>1, SubSeqProperties

LEMMA FullMask ==
    ASSUME NEW p, NEW t, NEW i, Ends(p, t, i) # {}
    PROVE  Replacement(p, t, "full", i) = <<"#">>
  BY DEF Replacement, Mask

LEMMA Copy ==
    ASSUME NEW p, NEW t, NEW strategy, NEW i, Ends(p, t, i) = {}
    PROVE  Replacement(p, t, strategy, i) = <<t[i]>> /\ MatchEnd(p, t, i) = i
  BY DEF Replacement, MatchEnd

\* The digits that a mask keeps.
LEMMA KeptOfTwo ==
    ASSUME NEW match \in Seq(Characters), NEW a \in 1 .. Len(match), NEW b \in 1 .. Len(match),
           a # b, match[a] = "d", match[b] = "d"
    PROVE  LET digits == Filter(match, {"d"})
           IN  SubSeq(digits, Len(digits) - KeptDigits + 1, Len(digits)) = <<"d", "d">>
  <1> DEFINE digits == Filter(match, {"d"})
             l == Len(digits)
  <1>1. digits \in Seq(Characters) /\ l \in Nat
    BY FilterType, LenProperties
  <1>2. \A k \in 1 .. l : digits[k] = "d"
    <2>1. ToSet(digits) = ToSet(match) \cap {"d"}
      BY FilterRange
    <2>2. ToSet(digits) = {digits[k] : k \in 1 .. l}
      BY <1>1, LenProperties DEF ToSet
    <2> HIDE DEF digits, l
    <2> QED
      BY <2>1, <2>2
  <1>3. PICK at : Places(at, digits, match, {"d"})
    BY FilterPlaces
  <1> HIDE DEF digits
  <1>4. PICK c \in 1 .. l : at[c] = a
    BY <1>3 DEF Places
  <1>5. PICK e \in 1 .. l : at[e] = b
    BY <1>3 DEF Places
  <1>6. c # e /\ l >= 2
    BY <1>1, <1>4, <1>5
  <1>7. l - KeptDigits + 1 = l - 1 /\ l - 1 \in Int /\ l \in Int
    BY <1>1 DEF KeptDigits
  <1>8. \A k \in (l - 1) .. l : digits[k] \in {"d"}
    <2>1. \A k \in (l - 1) .. l : k \in 1 .. l
      BY <1>1, <1>6
    <2> QED
      BY <1>2, <2>1
  <1> HIDE DEF l
  <1> DEFINE last == SubSeq(digits, l - 1, l)
  <1>9. /\ last \in Seq({"d"}) /\ Len(last) = IF l - 1 <= l THEN l - (l - 1) + 1 ELSE 0
    BY <1>7, <1>8, SubSeqProperties
  <1>10. Len(last) = 2
    <2>1. l - 1 <= l /\ l - (l - 1) + 1 = 2
      BY <1>7
    <2> HIDE DEF last
    <2> QED
      BY <1>9, <2>1
  <1>11. last = <<"d", "d">>
    <2>1. <<"d", "d">> \in Seq({"d"}) /\ Len(<<"d", "d">>) = 2
      OBVIOUS
    <2>2. \A k \in 1 .. 2 : last[k] \in {"d"}
      <3> HIDE DEF last
      <3> QED
        BY <1>9, <1>10, ElementOfSeq
    <2>3. \A k \in 1 .. 2 : <<"d", "d">>[k] = "d"
      OBVIOUS
    <2> HIDE DEF last
    <2>4. \A k \in 1 .. Len(last) : last[k] = <<"d", "d">>[k]
      BY <1>10, <2>2, <2>3
    <2> QED
      BY <1>9, <1>10, <2>1, <2>4, SeqEqual
  <1> QED
    BY <1>7, <1>11 DEF digits, l

LEMMA TwoDigits ==
    ASSUME NEW t \in Seq(Characters), NEW i \in 1 .. Len(t), NEW j \in i .. Len(t),
           IsNumber(t, i, j) \/ IsCard(t, i, j)
    PROVE  \E a, b \in i .. j : a # b /\ t[a] = "d" /\ t[b] = "d"
  <1>1. i \in Int /\ j \in Int
    OBVIOUS
  <1>2. CASE IsNumber(t, i, j)
    <2>1. i \in i .. j /\ i + 2 \in i .. j /\ i # i + 2
      BY <1>1, <1>2 DEF IsNumber
    <2> QED
      BY <1>2, <2>1 DEF IsNumber
  <1>3. CASE IsCard(t, i, j)
    <2> DEFINE D == Digits(t, i, j)
    <2>1. IsFiniteSet(i .. j)
      BY <1>1, FS_Interval
    <2>2. IsFiniteSet(D) /\ Cardinality(D) \in 4 .. 5
      <3>1. D \in SUBSET (i .. j)
        BY DEF Digits
      <3> QED
        BY <1>3, <2>1, <3>1, FS_Subset DEF IsCard, CardDigits
    <2>3. D # {}
      BY <2>2, FS_EmptySet
    <2>4. PICK a \in D : TRUE
      BY <2>3
    <2>5. D # {a}
      <3>1. Cardinality({a}) = 1
        BY FS_Singleton, Zenon
      <3>2. Cardinality(D) # 1
        BY <2>2
      <3> QED
        BY <3>1, <3>2
    <2>6. PICK b \in D : b # a
      BY <2>4, <2>5
    <2> QED
      BY <2>4, <2>6 DEF Digits
  <1> QED
    BY <1>2, <1>3

LEMMA NumberMask ==
    ASSUME NEW p \in {"ssn", "credit_card"}, NEW t \in Seq(Characters), NEW i \in 1 .. Len(t),
           Ends(p, t, i) # {}
    PROVE  Replacement(p, t, "partial", i) = <<"*", "-">> \o <<"d", "d">>
  <1> DEFINE j == MatchEnd(p, t, i)
             match == SubSeq(t, i, j)
             digits == Filter(match, {"d"})
             last == SubSeq(digits, Len(digits) - KeptDigits + 1, Len(digits))
  <1>1. j \in i .. Len(t) /\ Shape(p, t, i, j)
    <2>1. j \in Ends(p, t, i)
      BY EndsIs
    <2> HIDE DEF j
    <2> QED
      BY <2>1, MatchIs
  <1> HIDE DEF j
  <1>2. IsNumber(t, i, j) \/ IsCard(t, i, j)
    BY <1>1, NumberIs, ShapeIs
  <1>3. PICK a \in i .. j, b \in i .. j : a # b /\ t[a] = "d" /\ t[b] = "d"
    BY <1>1, <1>2, TwoDigits
  <1>4. /\ match \in Seq(Characters) /\ Len(match) = j - i + 1
        /\ \A k \in 1 .. (j - i + 1) : match[k] = t[i + k - 1]
    BY <1>1, MatchText
  <1> HIDE DEF match
  <1>5. /\ a - i + 1 \in 1 .. (j - i + 1) /\ b - i + 1 \in 1 .. (j - i + 1) /\ a - i + 1 # b - i + 1
        /\ i + (a - i + 1) - 1 = a /\ i + (b - i + 1) - 1 = b
    BY <1>1, <1>3
  <1>6. match[a - i + 1] = "d" /\ match[b - i + 1] = "d"
    <2>1. match[a - i + 1] = t[i + (a - i + 1) - 1] /\ match[b - i + 1] = t[i + (b - i + 1) - 1]
      BY <1>4, <1>5
    <2> QED
      BY <1>3, <1>5, <2>1
  <1>7. last = <<"d", "d">>
    <2> DEFINE u == a - i + 1
               v == b - i + 1
    <2>1. u \in 1 .. Len(match) /\ v \in 1 .. Len(match) /\ u # v /\ match[u] = "d" /\ match[v] = "d"
      BY <1>4, <1>5, <1>6
    <2> HIDE DEF u, v
    <2> QED
      BY <1>4, <2>1, KeptOfTwo
  <1>8. Replacement(p, t, "partial", i) = <<"*", "-">> \o last
    <2>1. p # "email"
      OBVIOUS
    <2> QED
      BY <2>1 DEF Replacement, Mask, match, j
  <1> QED
    BY <1>7, <1>8

\* An address keeps its first character, and its domain from the "@" on.
LEMMA AddressMask ==
    ASSUME NEW t \in Seq(Characters), NEW i \in 1 .. Len(t), Ends("email", t, i) # {},
           NEW j, j = MatchEnd("email", t, i)
    PROVE  \E at, dot :
              /\ IsAddress(t, i, j, at, dot)
              /\ Replacement("email", t, "partial", i) = <<t[i], "*">> \o SubSeq(t, at, j)
  <1> DEFINE match == SubSeq(t, i, j)
             A == {k \in 1 .. Len(match) : match[k] = "@"}
  <1>1. j \in i .. Len(t) /\ Shape("email", t, i, j)
    <2>1. j \in Ends("email", t, i)
      BY EndsIs
    <2> QED
      BY <2>1, MatchIs
  <1>2. PICK at, dot : IsAddress(t, i, j, at, dot)
    BY <1>1, ShapeIs
  <1>3. /\ match \in Seq(Characters) /\ Len(match) = j - i + 1
        /\ \A k \in 1 .. (j - i + 1) : match[k] = t[i + k - 1]
    BY <1>1, MatchText
  <1>4. i \in Int /\ j \in Int /\ at \in Int /\ dot \in Int /\ i < at /\ at + 1 < dot /\ dot + 2 <= j
    BY <1>1, <1>2 DEF IsAddress
  <1>5. \A k \in i .. j : t[k] = "@" <=> k = at
    <2>1. ASSUME NEW k \in i .. j, k # at PROVE t[k] # "@"
      <3>1. k \in (i .. (dot - 1)) \ {at} \/ k = dot \/ k \in (dot + 1) .. j
        BY <1>4, <2>1
      <3> QED
        BY <1>2, <3>1 DEF IsAddress, AddressCharacter
    <2> QED
      BY <1>2, <2>1 DEF IsAddress
  <1> DEFINE z == at - i + 1
  <1>6. z \in 1 .. (j - i + 1) /\ i + z - 1 = at /\ z \in Int
    BY <1>4
  <1>7. \A k \in 1 .. (j - i + 1) : i + k - 1 \in i .. j /\ (i + k - 1 = at <=> k = z)
    BY <1>4
  <1> HIDE DEF match, z
  <1>8. A = {z}
    <2>1. \A k \in 1 .. (j - i + 1) : match[k] = "@" <=> k = z
      BY <1>3, <1>5, <1>7
    <2> QED
      BY <1>3, <1>6, <2>1
  <1>9. SelectInSeq(match, LAMBDA c : c = "@") = z
    <2>1. Min({z}) = z
      BY <1>6 DEF Min
    <2>2. SelectInSeq(match, LAMBDA c : c = "@") = IF A # {} THEN Min(A) ELSE 0
      BY DEF SelectInSeq
    <2> HIDE DEF A
    <2> QED
      BY <1>8, <2>1, <2>2
  <1>10. Replacement("email", t, "partial", i) =
            <<match[1], "*">> \o SubSeq(match, z, Len(match))
    BY <1>9 DEF Replacement, Mask, match
  <1>11. match[1] = t[i]
    <2>1. 1 \in 1 .. (j - i + 1) /\ i + 1 - 1 = i
      BY <1>4
    <2>2. match[1] = t[i + 1 - 1]
      BY <1>3, <2>1
    <2> QED
      BY <2>1, <2>2
  <1>12. SubSeq(match, z, Len(match)) = SubSeq(t, at, j)
    <2> DEFINE l == j - i + 1
               u == SubSeq(match, z, l)
               v == SubSeq(t, at, j)
    <2>1. l \in Int /\ z <= l /\ l - z + 1 = j - at + 1 /\ \A k \in z .. l : k \in 1 .. l
      BY <1>4, <1>6
    <2>2. \A k \in z .. l : match[k] \in Characters
      BY <1>3, <2>1, ElementOfSeq
    <2>3. /\ u \in Seq(Characters) /\ Len(u) = IF z <= l THEN l - z + 1 ELSE 0
          /\ \A k \in 1 .. (l - z + 1) : u[k] = match[z + k - 1]
      <3> HIDE DEF l
      <3> QED
        BY <1>6, <2>1, <2>2, SubSeqProperties
    <2>4. at \in 1 .. Len(t) /\ j \in at .. Len(t)
      BY <1>1, <1>4
    <2>5. /\ v \in Seq(Characters) /\ Len(v) = j - at + 1
          /\ \A k \in 1 .. (j - at + 1) : v[k] = t[at + k - 1]
      BY <2>4, MatchText
    <2>6. ASSUME NEW k \in 1 .. (j - at + 1) PROVE u[k] = v[k]
      <3>1. z + k - 1 \in 1 .. (j - i + 1) /\ i + (z + k - 1) - 1 = at + k - 1
        BY <1>4, <1>6
      <3>2. u[k] = match[z + k - 1]
        BY <2>1, <2>3
      <3>3. match[z + k - 1] = t[i + (z + k - 1) - 1]
        BY <1>3, <3>1
      <3> QED
        BY <2>5, <3>1, <3>2, <3>3
    <2>7. Len(u) = j - at + 1
      <3> HIDE DEF u, l
      <3> QED
        BY <2>1, <2>3
    <2>8. u = v
      <3> HIDE DEF u, v, l
      <3> QED
        BY <2>3, <2>5, <2>6, <2>7, SeqEqual
    <2> QED
      BY <1>3, <2>8
  <1> QED
    BY <1>2, <1>10, <1>11, <1>12

-----------------------------------------------------------------------------

(* Redaction: what a substitution writes. *)

Strategy == {"full", "partial"}
Rewritten(p, t, strategy) == [k \in 1 .. Len(t) |-> Replacement(p, t, strategy, k)]
Behind(p, t) == [k \in 1 .. Len(t) |-> MatchEnd(p, t, k)]

LEMMA WrittenIs ==
    ASSUME NEW p \in Pattern, NEW t \in Seq(Characters), NEW strategy \in Strategy
    PROVE  Writes(Rewritten(p, t, strategy), Behind(p, t), Len(t), Characters)
  <1>1. ASSUME NEW k \in 1 .. Len(t)
        PROVE  /\ Replacement(p, t, strategy, k) \in Seq(Characters)
               /\ Len(Replacement(p, t, strategy, k)) >= 1
    <2> DEFINE r == Replacement(p, t, strategy, k)
    <2>1. t[k] \in Characters
      BY ElementOfSeq
    <2>2. "#" \in Characters /\ "*" \in Characters /\ "-" \in Characters /\ "d" \in Characters
      BY DEF Characters
    <2>3. CASE Ends(p, t, k) = {}
      <3>1. r = <<t[k]>>
        BY <2>3, Copy
      <3> HIDE DEF r
      <3>2. r \in Seq(Characters) /\ Len(r) = 1
        BY <2>1, <3>1
      <3> QED
        BY <3>2 DEF r
    <2>4. CASE Ends(p, t, k) # {} /\ strategy = "full"
      <3>1. r = <<"#">>
        BY <2>4, FullMask
      <3> HIDE DEF r
      <3>2. r \in Seq(Characters) /\ Len(r) = 1
        BY <2>2, <3>1
      <3> QED
        BY <3>2 DEF r
    <2>5. CASE Ends(p, t, k) # {} /\ strategy = "partial" /\ p \in {"ssn", "credit_card"}
      <3>1. r = <<"*", "-">> \o <<"d", "d">>
        BY <2>5, NumberMask
      <3>2. <<"*", "-">> \in Seq(Characters) /\ <<"d", "d">> \in Seq(Characters)
        BY <2>2
      <3>3. Len(<<"*", "-">>) = 2 /\ Len(<<"d", "d">>) = 2
        OBVIOUS
      <3> HIDE DEF r
      <3>4. r \in Seq(Characters) /\ Len(r) = 2 + 2
        BY <3>1, <3>2, <3>3, ConcatProperties
      <3> QED
        BY <3>4 DEF r
    <2>6. CASE Ends(p, t, k) # {} /\ strategy = "partial" /\ p = "email"
      <3> DEFINE j == MatchEnd("email", t, k)
      <3>1. j \in k .. Len(t)
        BY EndsIs
      <3>2. PICK at, dot : IsAddress(t, k, j, at, dot) /\ r = <<t[k], "*">> \o SubSeq(t, at, j)
        BY <2>6, AddressMask
      <3> HIDE DEF j
      <3>3. at \in 1 .. Len(t) /\ j \in at .. Len(t)
        BY <3>1, <3>2 DEF IsAddress
      <3>4. SubSeq(t, at, j) \in Seq(Characters) /\ Len(SubSeq(t, at, j)) = j - at + 1
        BY <3>3, MatchText
      <3>5. <<t[k], "*">> \in Seq(Characters) /\ Len(<<t[k], "*">>) = 2
        BY <2>1, <2>2
      <3> DEFINE u == <<t[k], "*">>
                 v == SubSeq(t, at, j)
      <3>6. Len(v) \in Nat /\ u \in Seq(Characters) /\ v \in Seq(Characters) /\ Len(u) = 2
        BY <3>4, <3>5
      <3> HIDE DEF r, u, v
      <3>7. u \o v \in Seq(Characters) /\ Len(u \o v) = Len(u) + Len(v)
        BY <3>6, ConcatProperties
      <3>8. r = u \o v
        BY <3>2 DEF u, v
      <3>9. r \in Seq(Characters) /\ Len(r) >= 1
        BY <3>6, <3>7, <3>8
      <3> QED
        BY <3>9 DEF r
    <2> QED
      BY <2>3, <2>4, <2>5, <2>6, PatternCases DEF Strategy
  <1>2. ASSUME NEW k \in 1 .. Len(t) PROVE MatchEnd(p, t, k) \in 1 .. Len(t) /\ k <= MatchEnd(p, t, k)
    <2>1. MatchEnd(p, t, k) \in k .. Len(t)
      BY EndsIs
    <2> QED
      BY <2>1
  <1> QED
    BY <1>1, <1>2 DEF Writes, Rewritten, Behind

\* What the search writes from each position on.
Searched(from, p, t, strategy) ==
    /\ from \in [1 .. (Len(t) + 1) -> Seq(Characters)] /\ from[Len(t) + 1] = <<>>
    /\ \A i \in 1 .. Len(t) :
          from[i] = Rewritten(p, t, strategy)[i] \o from[Behind(p, t)[i] + 1]

LEMMA SubSearches ==
    ASSUME NEW p \in Pattern, NEW t \in Seq(Characters), NEW strategy \in Strategy
    PROVE  \E from : Searched(from, p, t, strategy) /\ Sub(p, t, strategy) = from[1]
  <1> DEFINE n == Len(t)
             V == Seq(Characters)
             rep == Rewritten(p, t, strategy)
             end == Behind(p, t)
             IsSub(f) == f = [i \in 1 .. (n + 1) |->
                                 IF i > n THEN <<>>
                                 ELSE Replacement(p, t, strategy, i) \o f[MatchEnd(p, t, i) + 1]]
             step == [a \in (0 .. (n + 1)) \X [0 .. (n + 1) -> V] |->
                         IF a[1] \in 1 .. n THEN rep[a[1]] \o a[2][end[a[1]] + 1] ELSE <<>>]
  <1>1. n \in Nat /\ n + 1 \in Nat
    BY LenProperties
  <1>2. /\ \A i \in 1 .. n : rep[i] \in V /\ end[i] \in 1 .. n /\ i <= end[i]
        /\ \A i \in 1 .. n : rep[i] = Replacement(p, t, strategy, i) /\ end[i] = MatchEnd(p, t, i)
    BY WrittenIs DEF Writes, Rewritten, Behind
  <1>3. <<>> \in V
    BY EmptySeq
  <1> HIDE DEF rep, end, n
  <1>4. ASSUME NEW i \in 1 .. n, NEW g \in [0 .. (n + 1) -> V]
        PROVE  rep[i] \o g[end[i] + 1] \in V
    <2>1. end[i] + 1 \in 0 .. (n + 1)
      BY <1>1, <1>2
    <2>2. g[end[i] + 1] \in V
      BY <2>1
    <2> QED
      BY <1>2, <2>2, ConcatProperties
  <1>5. step \in [(0 .. (n + 1)) \X [0 .. (n + 1) -> V] -> V]
    <2> HIDE DEF V
    <2>1. ASSUME NEW i \in 0 .. (n + 1), NEW g \in [0 .. (n + 1) -> V]
          PROVE  step[<<i, g>>] \in V
      BY <1>3, <1>4
    <2> QED
      BY <1>3, <1>4
  <1>6. ASSUME NEW i \in 0 .. (n + 1), NEW g \in [0 .. (n + 1) -> V], NEW h \in [0 .. (n + 1) -> V],
               \A k \in (i + 1) .. (n + 1) : g[k] = h[k]
        PROVE  step[<<i, g>>] = step[<<i, h>>]
    <2> HIDE DEF V
    <2>1. CASE i \in 1 .. n
      <3>1. end[i] + 1 \in (i + 1) .. (n + 1)
        BY <1>1, <1>2, <2>1
      <3>2. g[end[i] + 1] = h[end[i] + 1]
        BY <1>6, <3>1
      <3> QED
        BY <2>1, <3>2
    <2>2. CASE i \notin 1 .. n
      BY <2>2
    <2> QED
      BY <2>1, <2>2
  <1>7. \E f \in [0 .. (n + 1) -> V] : \A i \in 0 .. (n + 1) : f[i] = step[<<i, f>>]
    <2> DEFINE N == n + 1
    <2>1. \A i \in 0 .. N : \A g, h \in [0 .. N -> V] :
             (\A k \in (i + 1) .. N : g[k] = h[k]) => step[<<i, g>>] = step[<<i, h>>]
      <3> HIDE DEF V, step
      <3> QED
        BY <1>6
    <2>2. N \in Nat /\ <<>> \in V /\ step \in [(0 .. N) \X [0 .. N -> V] -> V]
      BY <1>1, <1>3, <1>5
    <2> HIDE DEF V, step, N
    <2>3. \E f : Recurs(f, step, N, V)
      <3>1. LooksAhead(step, N, V)
        BY <2>1, <2>2 DEF LooksAhead
      <3> QED
        BY <2>2, <3>1, BackwardExists
    <2>4. \E f \in [0 .. N -> V] : \A i \in 0 .. N : f[i] = step[<<i, f>>]
      BY <2>3, Zenon DEF Recurs
    <2> QED
      BY <2>4 DEF N
  <1>8. PICK f \in [0 .. (n + 1) -> V] : \A i \in 0 .. (n + 1) : f[i] = step[<<i, f>>]
    BY <1>7
  <1>9. \E it : IsSub(it)
    <2> DEFINE it == [i \in 1 .. (n + 1) |-> f[i]]
    <2>1. ASSUME NEW i \in 1 .. (n + 1)
          PROVE  it[i] = IF i > n THEN <<>>
                         ELSE Replacement(p, t, strategy, i) \o it[MatchEnd(p, t, i) + 1]
      <3> HIDE DEF V
      <3>1. i \in 0 .. (n + 1) /\ (i > n <=> i \notin 1 .. n)
        BY <1>1
      <3>2. it[i] = IF i \in 1 .. n THEN rep[i] \o f[end[i] + 1] ELSE <<>>
        BY <1>8, <3>1
      <3>3. i \in 1 .. n => end[i] + 1 \in 1 .. (n + 1)
        BY <1>1, <1>2
      <3> QED
        BY <1>2, <3>1, <3>2, <3>3
    <2>2. it = [i \in 1 .. (n + 1) |-> it[i]]
      OBVIOUS
    <2> HIDE DEF it
    <2>3. IsSub(it)
      BY <2>1, <2>2
    <2> QED
      BY <2>3
  <1> DEFINE from == CHOOSE g : IsSub(g)
  <1>10. IsSub(from)
    BY <1>9
  <1>11. Sub(p, t, strategy) = from[1]
    BY DEF Sub, n
  <1> HIDE DEF from
  <1>12. /\ from = [i \in 1 .. (n + 1) |-> from[i]]
         /\ from[n + 1] = <<>>
         /\ \A i \in 1 .. n : from[i] = rep[i] \o from[end[i] + 1]
    <2>1. /\ DOMAIN from = 1 .. (n + 1)
          /\ \A i \in 1 .. (n + 1) :
                from[i] = IF i > n THEN <<>>
                          ELSE Replacement(p, t, strategy, i) \o from[MatchEnd(p, t, i) + 1]
      BY <1>10, Zenon
    <2>2. from = [i \in 1 .. (n + 1) |-> from[i]]
      BY <1>10
    <2>3. n + 1 \in 1 .. (n + 1) /\ n + 1 > n
      BY <1>1
    <2>4. from[n + 1] = <<>>
      BY <2>1, <2>3
    <2>5. ASSUME NEW i \in 1 .. n PROVE from[i] = rep[i] \o from[end[i] + 1]
      <3>1. i \in 1 .. (n + 1) /\ ~(i > n)
        BY <1>1
      <3>2. from[i] = Replacement(p, t, strategy, i) \o from[MatchEnd(p, t, i) + 1]
        BY <2>1, <3>1
      <3> QED
        BY <1>2, <3>2
    <2> QED
      BY <2>2, <2>4, <2>5
  <1> DEFINE S == {m \in Nat : \A i \in 1 .. (n + 1) : i + m > n => from[i] \in V}
  <1>13. 0 \in S
    <2>1. \A i \in 1 .. (n + 1) : i + 0 > n => i = n + 1
      BY <1>1
    <2> QED
      BY <1>3, <1>12, <2>1
  <1>14. ASSUME NEW m \in Nat, m \in S PROVE m + 1 \in S
    <2>1. ASSUME NEW i \in 1 .. (n + 1), i + (m + 1) > n PROVE from[i] \in V
      <3>1. CASE i = n + 1
        BY <1>3, <1>12, <3>1
      <3>2. CASE i # n + 1
        <4>1. i \in 1 .. n
          BY <1>1, <3>2
        <4>2. end[i] + 1 \in 1 .. (n + 1) /\ end[i] + 1 + m > n
          BY <1>1, <1>2, <2>1, <4>1
        <4>3. from[end[i] + 1] \in V
          BY <1>14, <4>2
        <4>4. rep[i] \o from[end[i] + 1] \in V
          BY <1>2, <4>1, <4>3, ConcatProperties
        <4> QED
          BY <1>12, <4>1, <4>4
      <3> QED
        BY <3>1, <3>2
    <2> HIDE DEF V
    <2> QED
      BY <2>1
  <1>15. \A m \in Nat : m \in S
    <2> HIDE DEF S
    <2> QED
      BY <1>13, <1>14, AllNaturals
  <1>16. \A i \in 1 .. (n + 1) : from[i] \in V
    <2>1. n + 1 \in S
      BY <1>1, <1>15
    <2>2. \A i \in 1 .. (n + 1) : i + (n + 1) > n
      BY <1>1
    <2> HIDE DEF V
    <2> QED
      BY <2>1, <2>2
  <1>17. Searched(from, p, t, strategy)
    <2>1. from \in [1 .. (n + 1) -> V]
      BY <1>12, <1>16
    <2> QED
      BY <1>12, <2>1 DEF Searched, n, rep, end
  <1> QED
    BY <1>11, <1>17

LEMMA SubTraced ==
    ASSUME NEW p \in Pattern, NEW t \in Seq(Characters), NEW strategy \in Strategy
    PROVE  /\ Sub(p, t, strategy) \in Seq(Characters)
           /\ \E src, off :
                 Traced(src, off, Sub(p, t, strategy), Rewritten(p, t, strategy), Behind(p, t), Len(t), 1)
  <1>1. PICK from : Searched(from, p, t, strategy) /\ Sub(p, t, strategy) = from[1]
    BY SubSearches
  <1>2. Len(t) \in Nat
    BY LenProperties
  <1>3. from \in [1 .. (Len(t) + 1) -> Seq(Characters)] /\ 1 \in 1 .. (Len(t) + 1)
    BY <1>1, <1>2 DEF Searched
  <1>4. \E src, off :
           Traced(src, off, from[1], Rewritten(p, t, strategy), Behind(p, t), Len(t), 1)
    <2>1. /\ from[Len(t) + 1] = <<>>
          /\ \A i \in 1 .. Len(t) :
                from[i] = Rewritten(p, t, strategy)[i] \o from[Behind(p, t)[i] + 1]
      BY <1>1 DEF Searched
    <2> QED
      BY <1>2, <1>3, <2>1, WrittenIs, TraceExists
  <1> QED
    BY <1>1, <1>3, <1>4

-----------------------------------------------------------------------------

(* Redaction: matches in what a substitution wrote. *)

\* The character k of r is the one numbered off[k] of what replaces the text at src[k].
Origin(src, off, r, p, t, strategy) ==
    /\ \A k \in 1 .. Len(r) :
          /\ src[k] \in 1 .. Len(t)
          /\ Len(Replacement(p, t, strategy, src[k])) \in Nat
          /\ off[k] \in 1 .. Len(Replacement(p, t, strategy, src[k]))
          /\ r[k] = Replacement(p, t, strategy, src[k])[off[k]]
          /\ (off[k] = Len(Replacement(p, t, strategy, src[k])) /\ k < Len(r)) =>
                src[k + 1] = MatchEnd(p, t, src[k]) + 1 /\ off[k + 1] = 1
          /\ off[k] < Len(Replacement(p, t, strategy, src[k])) =>
                k < Len(r) /\ src[k + 1] = src[k] /\ off[k + 1] = off[k] + 1
          /\ k = Len(r) => MatchEnd(p, t, src[k]) = Len(t)
    /\ Len(r) >= 1 => src[1] = 1 /\ off[1] = 1
    /\ Len(t) >= 1 => Len(r) >= 1

LEMMA OriginExists ==
    ASSUME NEW p \in Pattern, NEW t \in Seq(Characters), NEW strategy \in Strategy
    PROVE  /\ Sub(p, t, strategy) \in Seq(Characters)
           /\ \E src, off : Origin(src, off, Sub(p, t, strategy), p, t, strategy)
  <1> DEFINE r == Sub(p, t, strategy)
             rep == Rewritten(p, t, strategy)
             end == Behind(p, t)
             n == Len(t)
  <1>1. r \in Seq(Characters) /\ \E src, off : Traced(src, off, r, rep, end, n, 1)
    BY SubTraced
  <1>2. PICK src, off : Traced(src, off, r, rep, end, n, 1)
    BY <1>1
  <1> HIDE DEF r
  <1>3. Len(r) \in Nat /\ n \in Nat
    BY <1>1, LenProperties
  <1>4. Len(r) >= 1 <=> n >= 1
    <2> HIDE DEF n, rep, end
    <2> QED
      BY <1>2, <1>3 DEF Traced
  <1>5. /\ \A k \in 1 .. Len(r) : src[k] \in 1 .. n
        /\ \A k \in 1 .. Len(r) : off[k] \in 1 .. Len(rep[src[k]]) /\ r[k] = rep[src[k]][off[k]]
        /\ \A k \in 1 .. (Len(r) - 1) :
              IF off[k] < Len(rep[src[k]]) THEN src[k + 1] = src[k] /\ off[k + 1] = off[k] + 1
              ELSE src[k + 1] = end[src[k]] + 1 /\ off[k + 1] = 1
    BY <1>2 DEF Traced
  <1>6. Len(r) >= 1 => /\ src[1] = 1 /\ off[1] = 1
                       /\ off[Len(r)] = Len(rep[src[Len(r)]]) /\ end[src[Len(r)]] = n
    BY <1>2, <1>3, <1>4 DEF Traced
  <1>7. \A i \in 1 .. n : /\ rep[i] = Replacement(p, t, strategy, i) /\ end[i] = MatchEnd(p, t, i)
                          /\ Len(rep[i]) \in Nat
    <2>1. Writes(rep, end, n, Characters)
      BY WrittenIs
    <2>2. \A i \in 1 .. n : Len(rep[i]) \in Nat
      BY <2>1 DEF Writes
    <2> QED
      BY <2>2 DEF Rewritten, Behind
  <1> HIDE DEF rep, end, n
  <1>8. ASSUME NEW k \in 1 .. Len(r)
        PROVE  /\ src[k] \in 1 .. n
               /\ Len(Replacement(p, t, strategy, src[k])) \in Nat
               /\ off[k] \in 1 .. Len(Replacement(p, t, strategy, src[k]))
               /\ r[k] = Replacement(p, t, strategy, src[k])[off[k]]
               /\ (off[k] = Len(Replacement(p, t, strategy, src[k])) /\ k < Len(r)) =>
                     src[k + 1] = MatchEnd(p, t, src[k]) + 1 /\ off[k + 1] = 1
               /\ off[k] < Len(Replacement(p, t, strategy, src[k])) =>
                     k < Len(r) /\ src[k + 1] = src[k] /\ off[k + 1] = off[k] + 1
               /\ k = Len(r) => MatchEnd(p, t, src[k]) = n
    <2> DEFINE i == src[k]
               l == Len(rep[i])
    <2>1. i \in 1 .. n /\ off[k] \in 1 .. l /\ r[k] = rep[i][off[k]] /\ l \in Nat
      BY <1>5, <1>7
    <2>2. rep[i] = Replacement(p, t, strategy, i) /\ end[i] = MatchEnd(p, t, i)
      BY <1>7, <2>1
    <2> HIDE DEF l
    <2>3. CASE k < Len(r)
      <3>1. k \in 1 .. (Len(r) - 1)
        BY <1>3, <2>3
      <3>2. IF off[k] < l THEN src[k + 1] = i /\ off[k + 1] = off[k] + 1
            ELSE src[k + 1] = end[i] + 1 /\ off[k + 1] = 1
        BY <1>5, <3>1 DEF l
      <3>3. off[k] = l => ~(off[k] < l)
        BY <2>1
      <3>4. k # Len(r)
        BY <1>3, <2>3
      <3> QED
        BY <2>1, <2>2, <2>3, <3>2, <3>3, <3>4 DEF l
    <2>4. CASE ~(k < Len(r))
      <3>1. k = Len(r) /\ Len(r) >= 1
        BY <1>3, <2>4
      <3>2. off[k] = l /\ end[i] = n
        BY <1>6, <3>1 DEF l
      <3>3. ~(off[k] < l)
        BY <2>1, <3>2
      <3> QED
        BY <2>1, <2>2, <2>4, <3>2, <3>3 DEF l
    <2> QED
      BY <2>3, <2>4
  <1>9. Origin(src, off, r, p, t, strategy)
    BY <1>4, <1>6, <1>8, Zenon DEF Origin, n
  <1> QED
    BY <1>1, <1>9 DEF r

\* A position whose character was not replaced.
Kept(src, p, t, k) == Ends(p, t, src[k]) = {}

LEMMA KeptIs ==
    ASSUME NEW p, NEW t \in Seq(Characters), NEW strategy, NEW r \in Seq(Characters),
           NEW src, NEW off, Origin(src, off, r, p, t, strategy),
           NEW k \in 1 .. Len(r), Kept(src, p, t, k)
    PROVE  /\ off[k] = 1 /\ r[k] = t[src[k]] /\ MatchEnd(p, t, src[k]) = src[k]
           /\ Len(Replacement(p, t, strategy, src[k])) = 1
  <1>1. /\ Replacement(p, t, strategy, src[k]) = <<t[src[k]]>>
        /\ MatchEnd(p, t, src[k]) = src[k]
    BY Copy DEF Kept
  <1>2. /\ off[k] \in 1 .. Len(Replacement(p, t, strategy, src[k]))
        /\ r[k] = Replacement(p, t, strategy, src[k])[off[k]]
    BY DEF Origin
  <1>3. off[k] \in 1 .. Len(<<t[src[k]]>>) /\ r[k] = <<t[src[k]]>>[off[k]]
    BY <1>1, <1>2
  <1>4. Len(<<t[src[k]]>>) = 1
    OBVIOUS
  <1>5. off[k] = 1
    BY <1>3, <1>4
  <1> QED
    BY <1>1, <1>3, <1>4, <1>5

\* The first character of what was written, and the last.
Opens(off, k) == off[k] = 1
Closes(src, off, p, t, strategy, k) == off[k] = Len(Replacement(p, t, strategy, src[k]))

LEMMA OpensBehind ==
    ASSUME NEW p, NEW t \in Seq(Characters), NEW strategy, NEW r \in Seq(Characters),
           NEW src, NEW off, Origin(src, off, r, p, t, strategy),
           NEW k \in 1 .. Len(r), NEW m \in 1 .. Len(r), m = k + 1, Opens(off, m)
    PROVE  Closes(src, off, p, t, strategy, k) /\ src[m] = MatchEnd(p, t, src[k]) + 1
  <1> DEFINE l == Len(Replacement(p, t, strategy, src[k]))
  <1>1. /\ off[k] \in 1 .. l /\ l \in Nat
        /\ (off[k] = l /\ k < Len(r)) => src[k + 1] = MatchEnd(p, t, src[k]) + 1 /\ off[k + 1] = 1
        /\ off[k] < l => off[k + 1] = off[k] + 1
    BY DEF Origin
  <1>2. k < Len(r) /\ off[k + 1] = 1
    BY DEF Opens
  <1> HIDE DEF l
  <1>3. off[k] = l
    BY <1>1, <1>2
  <1> QED
    BY <1>1, <1>2, <1>3 DEF Closes, l

\* A boundary between two replaced or kept parts was one in the text.
LEMMA BoundaryBehind ==
    ASSUME NEW p, NEW t \in Seq(Characters), NEW strategy, NEW r \in Seq(Characters),
           NEW src, NEW off, Origin(src, off, r, p, t, strategy),
           NEW k \in 1 .. Len(r), Closes(src, off, p, t, strategy, k), WordBoundary(r, k)
    PROVE  WordBoundary(t, MatchEnd(p, t, src[k]))
  <1> DEFINE i == src[k]
             e == MatchEnd(p, t, i)
  <1>1. i \in 1 .. Len(t)
    BY DEF Origin
  <1>0. Len(r) \in Nat /\ k \in Int /\ k <= Len(r)
    BY LenProperties
  <1>2. Len(r) \in Nat /\ DOMAIN r = 1 .. Len(r) /\ Len(t) \in Nat /\ DOMAIN t = 1 .. Len(t)
    BY LenProperties
  <1>3. CASE ~Kept(src, p, t, k)
    <2>1. e \in Ends(p, t, i)
      BY <1>1, <1>3, EndsIs DEF Kept
    <2> HIDE DEF i, e
    <2>2. WordBoundary(t, e)
      BY <1>1, <2>1, MatchIs
    <2> QED
      BY <2>2 DEF e, i
  <1>4. CASE Kept(src, p, t, k)
    <2>1. r[k] = t[i] /\ e = i
      BY <1>4, KeptIs
    <2>2. IsWord(r, k) <=> IsWord(t, i)
      BY <1>1, <1>2, <2>1 DEF IsWord
    <2>3. CASE k = Len(r)
      <3>1. e = Len(t)
        BY <2>3 DEF Origin
      <3>2. ~IsWord(r, k + 1) /\ ~IsWord(t, i + 1)
        BY <1>2, <2>1, <2>3, <3>1 DEF IsWord
      <3> QED
        BY <2>1, <2>2, <3>2, WordBoundaryIs
    <2>4. CASE k # Len(r)
      <3>1. k + 1 \in 1 .. Len(r) /\ k < Len(r)
        BY <1>0, <2>4
      <3>2. src[k + 1] = e + 1 /\ off[k + 1] = 1
        BY <3>1 DEF Origin, Closes
      <3>3. src[k + 1] \in 1 .. Len(t)
        BY <3>1 DEF Origin
      <3>4. CASE ~Kept(src, p, t, k + 1)
        <4>1. Ends(p, t, e + 1) # {}
          BY <3>2, <3>4 DEF Kept
        <4>2. e + 1 \in 1 .. Len(t) /\ e \in Int
          BY <1>1, <2>1, <3>2, <3>3
        <4>3. WordBoundary(t, e + 1 - 1) /\ e + 1 - 1 = e
          <5> HIDE DEF e
          <5> QED
            BY <4>1, <4>2, MatchIs
        <4> QED
          BY <4>3
      <3>5. CASE Kept(src, p, t, k + 1)
        <4>1. r[k + 1] = t[e + 1]
          BY <3>1, <3>2, <3>5, KeptIs
        <4>2. IsWord(r, k + 1) <=> IsWord(t, i + 1)
          BY <1>2, <2>1, <3>1, <3>2, <3>3, <4>1 DEF IsWord
        <4> QED
          BY <2>1, <2>2, <4>2, WordBoundaryIs
      <3> QED
        BY <3>4, <3>5
    <2> QED
      BY <2>3, <2>4
  <1> QED
    BY <1>3, <1>4

LEMMA BoundaryBefore ==
    ASSUME NEW p, NEW t \in Seq(Characters), NEW strategy, NEW r \in Seq(Characters),
           NEW src, NEW off, Origin(src, off, r, p, t, strategy),
           NEW k \in 1 .. Len(r), Opens(off, k), WordBoundary(r, k - 1)
    PROVE  WordBoundary(t, src[k] - 1)
  <1>0. Len(r) \in Nat /\ k \in Int /\ 1 <= k /\ k <= Len(r)
    BY LenProperties
  <1>1. Len(r) \in Nat /\ DOMAIN r = 1 .. Len(r) /\ Len(t) \in Nat /\ DOMAIN t = 1 .. Len(t)
    BY LenProperties
  <1>2. src[k] \in 1 .. Len(t)
    BY DEF Origin
  <1>3. CASE k # 1
    <2> DEFINE j == k - 1
    <2>1. j \in 1 .. Len(r) /\ j + 1 = k
      BY <1>0, <1>3
    <2> HIDE DEF j
    <2>2. Closes(src, off, p, t, strategy, j) /\ src[k] = MatchEnd(p, t, src[j]) + 1
      BY <2>1, OpensBehind
    <2>3. WordBoundary(r, j)
      BY DEF j
    <2>4. WordBoundary(t, MatchEnd(p, t, src[j]))
      BY <2>1, <2>2, <2>3, BoundaryBehind
    <2>5. src[j] \in 1 .. Len(t)
      BY <2>1 DEF Origin
    <2>6. MatchEnd(p, t, src[j]) \in Int
      <3>1. MatchEnd(p, t, src[j]) \in src[j] .. Len(t)
        BY <2>5, EndsIs
      <3> QED
        BY <3>1
    <2>7. src[k] - 1 = MatchEnd(p, t, src[j])
      BY <2>2, <2>6
    <2> QED
      BY <2>4, <2>7
  <1>4. CASE k = 1
    <2>0. Len(r) >= 1
      BY <1>0, <1>4
    <2>1. src[1] = 1 /\ src[k] = 1 /\ 1 \in 1 .. Len(t)
      BY <1>2, <1>4, <2>0 DEF Origin
    <2>2. CASE ~Kept(src, p, t, k)
      <3>1. Ends(p, t, 1) # {}
        BY <2>1, <2>2 DEF Kept
      <3>2. WordBoundary(t, 1 - 1)
        BY <2>1, <3>1, MatchIs
      <3> QED
        BY <2>1, <3>2
    <2>3. CASE Kept(src, p, t, k)
      <3>1. r[1] = t[1]
        BY <1>4, <2>1, <2>3, KeptIs
      <3>2. IsWord(r, 1) <=> IsWord(t, 1)
        BY <1>1, <1>4, <2>1, <3>1 DEF IsWord
      <3>3. ~IsWord(r, 0) /\ ~IsWord(t, 0)
        BY <1>1 DEF IsWord
      <3>4. WordBoundary(r, 0) /\ 0 + 1 = 1
        BY <1>4
      <3>5. WordBoundary(t, 0)
        BY <3>2, <3>3, <3>4, WordBoundaryIs
      <3> QED
        BY <2>1, <3>5
    <2> QED
      BY <2>2, <2>3
  <1> QED
    BY <1>3, <1>4

\* Kept characters next to each other were next to each other.
LEMMA KeptRun ==
    ASSUME NEW p, NEW t \in Seq(Characters), NEW strategy, NEW r \in Seq(Characters),
           NEW src, NEW off, Origin(src, off, r, p, t, strategy),
           NEW a \in 1 .. Len(r), NEW b \in a .. Len(r),
           \A k \in a .. b : Kept(src, p, t, k)
    PROVE  \A k \in a .. b : /\ src[k] = k + (src[a] - a) /\ r[k] = t[k + (src[a] - a)]
                             /\ k + (src[a] - a) \in 1 .. Len(t)
  <1> DEFINE c == src[a] - a
             S == {m \in Nat : a + m <= b => src[a + m] = a + m + c}
  <1>1. a \in Int /\ b \in Int /\ 1 <= a /\ a <= b /\ b <= Len(r) /\ Len(r) \in Nat
    BY LenProperties
  <1>2. \A k \in a .. b : k \in 1 .. Len(r) /\ src[k] \in 1 .. Len(t)
    BY <1>1 DEF Origin
  <1>3. c \in Int /\ src[a] \in Int
    BY <1>1, <1>2
  <1>4. src[a] = a + c
    BY <1>1, <1>3
  <1> HIDE DEF c
  <1>5. 0 \in S
    BY <1>1, <1>3, <1>4
  <1>6. ASSUME NEW m \in Nat, m \in S PROVE m + 1 \in S
    <2>1. SUFFICES ASSUME a + (m + 1) <= b PROVE src[a + (m + 1)] = a + (m + 1) + c
      OBVIOUS
    <2> DEFINE k == a + m
    <2>2. k \in a .. b /\ k + 1 \in a .. b /\ k + 1 = a + (m + 1) /\ k < Len(r) /\ k \in 1 .. Len(r)
      BY <1>1, <2>1
    <2>3. src[k] = k + c
      BY <1>6, <2>2
    <2> HIDE DEF k
    <2>4. off[k] = 1 /\ MatchEnd(p, t, src[k]) = src[k] /\ Len(Replacement(p, t, strategy, src[k])) = 1
      BY <2>2, KeptIs
    <2>5. src[k + 1] = src[k] + 1
      BY <2>2, <2>4 DEF Origin
    <2>6. src[k + 1] = k + 1 + c
      BY <1>1, <1>3, <2>2, <2>3, <2>5
    <2> QED
      BY <2>2, <2>6
  <1> HIDE DEF S
  <1>7. \A m \in Nat : m \in S
    BY <1>5, <1>6, AllNaturals
  <1>8. ASSUME NEW k \in a .. b PROVE src[k] = k + c
    <2>1. k - a \in Nat /\ a + (k - a) = k /\ k <= b
      BY <1>1
    <2>2. k - a \in S
      BY <1>7, <2>1
    <2> DEFINE m == k - a
    <2>3. m \in S /\ a + m = k
      BY <2>1, <2>2
    <2> HIDE DEF m
    <2> QED
      BY <2>1, <2>3 DEF S
  <1>9. ASSUME NEW k \in a .. b PROVE r[k] = t[k + c] /\ k + c \in 1 .. Len(t)
    <2>1. r[k] = t[src[k]]
      BY <1>2, KeptIs
    <2> QED
      BY <1>2, <1>8, <2>1
  <1> QED
    BY <1>8, <1>9 DEF c

-----------------------------------------------------------------------------

(* Redaction: what a pattern matches, it matches wherever it is copied to. *)

Shifted(r, t, a, b, c) == \A k \in a .. b : k + c \in 1 .. Len(t) /\ r[k] = t[k + c]

LEMMA ShiftedBack ==
    ASSUME NEW r, NEW t, NEW a \in Int, NEW b \in Int, NEW c \in Int, Shifted(r, t, a, b, c)
    PROVE  \A k \in (a + c) .. (b + c) : k - c \in a .. b /\ t[k] = r[k - c]
  <1> TAKE k \in (a + c) .. (b + c)
  <1> DEFINE j == k - c
  <1>1. j \in a .. b /\ j + c = k
    OBVIOUS
  <1> HIDE DEF j
  <1>2. r[j] = t[j + c]
    BY <1>1 DEF Shifted
  <1> QED
    BY <1>1, <1>2 DEF j

LEMMA AddressShift ==
    ASSUME NEW r, NEW t, NEW a \in Int, NEW b \in Int, NEW c \in Int, Shifted(r, t, a, b, c),
           NEW at, NEW dot, IsAddress(r, a, b, at, dot)
    PROVE  IsAddress(t, a + c, b + c, at + c, dot + c)
  <1> DEFINE i == a + c
             j == b + c
             u == at + c
             v == dot + c
  <1>1. /\ at \in Int /\ dot \in Int /\ a + 1 <= at /\ at <= b /\ a <= dot /\ dot + 2 <= b
        /\ at + 1 < dot
    BY DEF IsAddress
  <1>2. at \in a .. b /\ dot \in a .. b
    BY <1>1
  <1>3. t[u] = "@" /\ t[v] = "."
    <2>1. r[at] = t[at + c] /\ r[dot] = t[dot + c]
      BY <1>2 DEF Shifted
    <2> QED
      BY <2>1 DEF IsAddress
  <1>4. u \in (i + 1) .. j /\ v \in i .. (j - 2) /\ u + 1 < v
    BY <1>1
  <1>5. \A k \in i .. j : k - c \in a .. b /\ t[k] = r[k - c]
    BY ShiftedBack
  <1>6. ASSUME NEW k \in (i .. (v - 1)) \ {u} PROVE t[k] \in AddressCharacter
    <2> DEFINE m == k - c
    <2>1. m \in (a .. (dot - 1)) \ {at} /\ k \in i .. j
      BY <1>1
    <2>2. r[m] \in AddressCharacter
      <3> HIDE DEF m
      <3> QED
        BY <2>1 DEF IsAddress
    <2> QED
      BY <1>5, <2>1, <2>2
  <1>7. ASSUME NEW k \in (v + 1) .. j PROVE t[k] = "x"
    <2> DEFINE m == k - c
    <2>1. m \in (dot + 1) .. b /\ k \in i .. j
      BY <1>1
    <2>2. r[m] = "x"
      <3> HIDE DEF m
      <3> QED
        BY <2>1 DEF IsAddress
    <2> QED
      BY <1>5, <2>1, <2>2
  <1> HIDE DEF i, j, u, v
  <1>8. IsAddress(t, i, j, u, v)
    BY <1>3, <1>4, <1>6, <1>7 DEF IsAddress
  <1> QED
    BY <1>8 DEF i, j, u, v

LEMMA CardShift ==
    ASSUME NEW r, NEW t, NEW a \in Int, NEW b \in Int, a <= b, NEW c \in Int,
           Shifted(r, t, a, b, c), IsCard(r, a, b)
    PROVE  IsCard(t, a + c, b + c)
  <1> DEFINE i == a + c
             j == b + c
             D == Digits(r, a, b)
             E == Digits(t, i, j)
  <1>1. \A k \in i .. j : k - c \in a .. b /\ t[k] = r[k - c]
    BY ShiftedBack
  <1>2. t[i] = "d"
    <2>1. i \in i .. j /\ i - c = a
      OBVIOUS
    <2> QED
      BY <1>1, <2>1 DEF IsCard
  <1>3. ASSUME NEW k \in i .. j
        PROVE  t[k] = "d" \/ (t[k] \in {"-", " "} /\ t[k - 1] = "d")
    <2> DEFINE m == k - c
               z == k - 1
               y == m - 1
    <2>1. m \in a .. b /\ t[k] = r[m] /\ m \in Int
      BY <1>1
    <2>2. r[m] = "d" \/ (r[m] \in {"-", " "} /\ r[y] = "d")
      <3> HIDE DEF m
      <3> QED
        BY <2>1 DEF IsCard
    <2>3. CASE m = a
      <3> HIDE DEF m
      <3> QED
        BY <2>1, <2>3 DEF IsCard
    <2>4. CASE m # a
      <3>1. z \in i .. j /\ z - c = y
        BY <2>1, <2>4
      <3>2. t[z] = r[z - c]
        <4> HIDE DEF z
        <4> QED
          BY <1>1, <3>1
      <3> QED
        BY <2>1, <2>2, <3>1, <3>2
    <2> QED
      BY <2>3, <2>4
  <1>4. IsFiniteSet(D)
    <2>1. IsFiniteSet(a .. b)
      BY FS_Interval
    <2> QED
      BY <2>1, FS_Subset DEF Digits
  <1>5. Cardinality(E) = Cardinality(D)
    <2> DEFINE f == [m \in D |-> m + c]
    <2>1. \A m, l \in D : f[m] = f[l] => m = l
      BY DEF Digits
    <2>2. \A m \in D : f[m] \in E
      <3> SUFFICES ASSUME NEW m \in D PROVE m + c \in E
        OBVIOUS
      <3> DEFINE k == m + c
      <3>1. k \in i .. j /\ k - c = m /\ r[m] = "d"
        BY DEF Digits
      <3> QED
        BY <1>1, <3>1 DEF Digits
    <2>3. \A k \in E : \E m \in D : f[m] = k
      <3> SUFFICES ASSUME NEW k \in E PROVE \E m \in D : m + c = k
        OBVIOUS
      <3> DEFINE m == k - c
      <3>1. k \in i .. j /\ m + c = k /\ t[k] = "d"
        BY DEF Digits
      <3>2. m \in D
        BY <1>1, <3>1 DEF Digits
      <3> QED
        BY <3>1, <3>2
    <2>4. DOMAIN f = D
      OBVIOUS
    <2> HIDE DEF f, D, E
    <2>5. {f[m] : m \in D} = E
      BY <2>2, <2>3
    <2> QED
      BY <1>4, <2>1, <2>4, <2>5, SameSize
  <1> HIDE DEF i, j
  <1>6. IsCard(t, i, j)
    BY <1>2, <1>3, <1>5 DEF IsCard
  <1> QED
    BY <1>6 DEF i, j

LEMMA ShapeShift ==
    ASSUME NEW q \in Pattern, NEW t \in Seq(Characters), NEW r \in Seq(Characters),
           NEW a \in 1 .. Len(r), NEW b \in a .. Len(r), NEW c \in Int,
           Shifted(r, t, a, b, c), Shape(q, r, a, b)
    PROVE  /\ a + c \in 1 .. Len(t) /\ b + c \in (a + c) .. Len(t)
           /\ Shape(q, t, a + c, b + c)
  <1>1. a \in Int /\ b \in Int /\ a <= b /\ a \in a .. b /\ b \in a .. b
    OBVIOUS
  <1> DEFINE i == a + c
             j == b + c
  <1>2. i \in 1 .. Len(t) /\ j \in 1 .. Len(t) /\ i <= j
    BY <1>1 DEF Shifted
  <1>3. j \in i .. Len(t)
    BY <1>2
  <1>4. CASE q = "email"
    <2>1. \E at, dot : IsAddress(r, a, b, at, dot)
      BY <1>4, ShapeIs
    <2>2. \E at, dot : IsAddress(t, i, j, at, dot)
      BY <1>1, <2>1, AddressShift
    <2> HIDE DEF i, j
    <2>3. Shape("email", t, i, j)
      BY <2>2, ShapeIs
    <2> QED
      BY <1>2, <1>3, <1>4, <2>3 DEF i, j
  <1>5. CASE q = "ssn"
    <2>1. IsNumber(r, a, b)
      BY <1>5, NumberIs
    <2>2. /\ \A k \in a .. b : r[k] = t[k + c]
          /\ b = a + 3 /\ r[a] = "d" /\ r[a + 1] = "-" /\ r[a + 2] = "d" /\ r[a + 3] = "d"
      BY <2>1 DEF IsNumber, Shifted
    <2>3. \A k \in i .. j : k - c \in a .. b /\ t[k] = r[k - c]
      BY <1>1, ShiftedBack
    <2> DEFINE i1 == i + 1
               i2 == i + 2
               i3 == i + 3
    <2>4. /\ i \in i .. j /\ i1 \in i .. j /\ i2 \in i .. j /\ i3 \in i .. j
          /\ i - c = a /\ i1 - c = a + 1 /\ i2 - c = a + 2 /\ i3 - c = a + 3 /\ j = i3
      BY <1>1, <2>2
    <2> HIDE DEF i, j, i1, i2, i3
    <2>5. t[i] = r[i - c] /\ t[i1] = r[i1 - c] /\ t[i2] = r[i2 - c] /\ t[i3] = r[i3 - c]
      BY <2>3, <2>4
    <2>6. IsNumber(t, i, j)
      BY <2>2, <2>4, <2>5 DEF IsNumber, i1, i2, i3
    <2>7. Shape("ssn", t, i, j)
      BY <1>2, <1>3, <2>6, NumberIs
    <2> QED
      BY <1>2, <1>3, <1>5, <2>7 DEF i, j
  <1>6. CASE q = "credit_card"
    <2>1. IsCard(r, a, b)
      BY <1>6, ShapeIs
    <2>2. IsCard(t, i, j)
      BY <1>1, <2>1, CardShift
    <2> HIDE DEF i, j
    <2>3. Shape("credit_card", t, i, j)
      BY <2>2, ShapeIs
    <2> QED
      BY <1>2, <1>3, <1>6, <2>3 DEF i, j
  <1> QED
    BY <1>4, <1>5, <1>6, PatternCases

\* A match none of whose characters was replaced was one before.
LEMMA KeptMatch ==
    ASSUME NEW p, NEW q \in Pattern, NEW t \in Seq(Characters), NEW strategy,
           NEW r \in Seq(Characters), NEW src, NEW off, Origin(src, off, r, p, t, strategy),
           NEW a \in 1 .. Len(r), NEW b \in Ends(q, r, a), \A k \in a .. b : Kept(src, p, t, k)
    PROVE  src[a] \in 1 .. Len(t) /\ Ends(q, t, src[a]) # {}
  <1> DEFINE c == src[a] - a
             i == src[a]
             j == src[b]
  <1>1. /\ b \in a .. Len(r) /\ Shape(q, r, a, b)
        /\ WordBoundary(r, a - 1) /\ WordBoundary(r, b)
    BY MatchIs
  <1>2. a \in Int /\ b \in 1 .. Len(r) /\ a \in a .. b /\ b \in a .. b
    BY <1>1
  <1>3. i \in 1 .. Len(t) /\ j \in 1 .. Len(t)
    BY <1>2 DEF Origin
  <1>4. \A k \in a .. b : src[k] = k + c /\ r[k] = t[k + c] /\ k + c \in 1 .. Len(t)
    BY <1>1, KeptRun
  <1>5. c \in Int /\ a + c = i
    BY <1>2, <1>3
  <1> HIDE DEF c
  <1>6. b + c = j
    BY <1>2, <1>4
  <1>7. Shifted(r, t, a, b, c)
    BY <1>4 DEF Shifted
  <1>8. j \in i .. Len(t) /\ Shape(q, t, i, j)
    <2>1. b + c \in (a + c) .. Len(t) /\ Shape(q, t, a + c, b + c)
      BY <1>1, <1>5, <1>7, ShapeShift
    <2> HIDE DEF i, j
    <2> QED
      BY <1>5, <1>6, <2>1
  <1>9. WordBoundary(t, i - 1)
    <2>1. Opens(off, a)
      BY <1>2, KeptIs DEF Opens
    <2> QED
      BY <1>1, <2>1, BoundaryBefore
  <1>10. WordBoundary(t, j)
    <2>1. Kept(src, p, t, b)
      BY <1>2
    <2>2. /\ off[b] = 1 /\ MatchEnd(p, t, src[b]) = src[b]
          /\ Len(Replacement(p, t, strategy, src[b])) = 1
      BY <1>2, <2>1, KeptIs
    <2>3. Closes(src, off, p, t, strategy, b)
      BY <2>2 DEF Closes
    <2> QED
      BY <1>1, <1>2, <2>2, <2>3, BoundaryBehind
  <1> HIDE DEF i, j
  <1>11. j \in Ends(q, t, i)
    BY <1>8, <1>9, <1>10 DEF Ends
  <1> QED
    BY <1>3, <1>11 DEF i

-----------------------------------------------------------------------------

(* Redaction: full masking leaves nothing behind. *)

MatchCharacter == {"d", "x", "-", " ", "@", "."}

\* No pattern matches what a mask has put in.
LEMMA MatchHasNoMark ==
    ASSUME NEW q \in Pattern, NEW t \in Seq(Characters), NEW i \in 1 .. Len(t),
           NEW j \in Ends(q, t, i), NEW k \in i .. j
    PROVE  t[k] \in MatchCharacter
  <1>1. j \in i .. Len(t) /\ Shape(q, t, i, j)
    BY MatchIs
  <1>2. i \in Int /\ j \in Int /\ k \in Int
    BY <1>1
  <1>3. CASE q = "email"
    <2>1. PICK at, dot : IsAddress(t, i, j, at, dot)
      BY <1>1, <1>3, ShapeIs
    <2>2. at \in Int /\ dot \in Int
      BY <2>1 DEF IsAddress
    <2>3. k \in (i .. (dot - 1)) \ {at} \/ k = at \/ k = dot \/ k \in (dot + 1) .. j
      BY <1>2, <2>2
    <2> QED
      BY <2>1, <2>3 DEF IsAddress, AddressCharacter, MatchCharacter
  <1>4. CASE q = "ssn"
    <2>1. IsNumber(t, i, j)
      BY <1>1, <1>4, NumberIs
    <2>2. k = i \/ k = i + 1 \/ k = i + 2 \/ k = i + 3
      BY <1>2, <2>1 DEF IsNumber
    <2> QED
      BY <2>1, <2>2 DEF IsNumber, MatchCharacter
  <1>5. CASE q = "credit_card"
    <2>1. IsCard(t, i, j)
      BY <1>1, <1>5, ShapeIs
    <2> QED
      BY <2>1 DEF IsCard, MatchCharacter
  <1> QED
    BY <1>3, <1>4, <1>5, PatternCases

LEMMA FullSub ==
    ASSUME NEW p \in Pattern, NEW q \in Pattern, NEW t \in Seq(Characters),
           Found(q, Sub(p, t, "full"))
    PROVE  q # p /\ Found(q, t)
  <1> DEFINE r == Sub(p, t, "full")
  <1>1. r \in Seq(Characters) /\ \E src, off : Origin(src, off, r, p, t, "full")
    BY OriginExists DEF Strategy
  <1>2. PICK src, off : Origin(src, off, r, p, t, "full")
    BY <1>1
  <1>3. PICK a \in DOMAIN r : Ends(q, r, a) # {}
    BY DEF Found
  <1> HIDE DEF r
  <1>4. a \in 1 .. Len(r) /\ DOMAIN t = 1 .. Len(t)
    BY <1>1, LenProperties
  <1>5. PICK b \in Ends(q, r, a) : TRUE
    BY <1>3
  <1>6. b \in a .. Len(r)
    BY <1>1, <1>4, MatchIs
  <1>7. ASSUME NEW k \in a .. b PROVE Kept(src, p, t, k)
    <2> SUFFICES ASSUME Ends(p, t, src[k]) # {} PROVE FALSE
      BY DEF Kept
    <2>1. k \in 1 .. Len(r)
      BY <1>4, <1>6
    <2>2. off[k] \in 1 .. Len(<<"#">>) /\ r[k] = <<"#">>[off[k]]
      <3>1. Replacement(p, t, "full", src[k]) = <<"#">>
        BY FullMask
      <3> QED
        BY <1>2, <2>1, <3>1 DEF Origin
    <2>3. r[k] = "#"
      BY <2>2
    <2>4. r[k] \in MatchCharacter
      BY <1>1, <1>4, MatchHasNoMark
    <2> QED
      BY <2>3, <2>4 DEF MatchCharacter
  <1>8. src[a] \in 1 .. Len(t) /\ Ends(q, t, src[a]) # {}
    BY <1>1, <1>2, <1>4, <1>7, KeptMatch
  <1>9. Kept(src, p, t, a)
    BY <1>4, <1>6, <1>7
  <1> QED
    BY <1>4, <1>8, <1>9 DEF Found, Kept

-----------------------------------------------------------------------------

(* Redaction: where a mask begins, and what partial masking of numbers writes. *)

Before(j, k) == j = k - 1

LEMMA MaskBefore ==
    ASSUME NEW p, NEW t \in Seq(Characters), NEW strategy, NEW r \in Seq(Characters),
           NEW src, NEW off, Origin(src, off, r, p, t, strategy),
           NEW k \in 1 .. Len(r), ~Opens(off, k), NEW j, Before(j, k)
    PROVE  j \in 1 .. Len(r) /\ off[j] = off[k] - 1 /\ src[j] = src[k]
  <1>1. Len(r) \in Nat /\ k \in Int /\ 1 <= k /\ k <= Len(r)
    BY LenProperties
  <1>2. k # 1
    <2>1. Len(r) >= 1
      BY <1>1
    <2> QED
      BY <2>1 DEF Origin, Opens
  <1>3. j \in 1 .. Len(r) /\ j < Len(r) /\ j + 1 = k
    BY <1>1, <1>2 DEF Before
  <1> DEFINE l == Len(Replacement(p, t, strategy, src[j]))
  <1>4. /\ l \in Nat /\ off[j] \in 1 .. l
        /\ off[j] = l => off[j + 1] = 1
        /\ off[j] < l => src[j + 1] = src[j] /\ off[j + 1] = off[j] + 1
    BY <1>3 DEF Origin
  <1> HIDE DEF l
  <1>5. off[j] < l
    BY <1>3, <1>4 DEF Opens
  <1>6. off[k] = off[j] + 1
    BY <1>3, <1>4, <1>5
  <1>7. off[j] = off[k] - 1
    BY <1>4, <1>6
  <1> QED
    BY <1>3, <1>4, <1>5, <1>7

\* Of the replaced characters of a run the first begins a mask, unless it begins the run.
LEMMA FirstReplaced ==
    ASSUME NEW p, NEW t \in Seq(Characters), NEW strategy, NEW r \in Seq(Characters),
           NEW src, NEW off, Origin(src, off, r, p, t, strategy),
           NEW a \in 1 .. Len(r), NEW b \in a .. Len(r), \E k \in a .. b : ~Kept(src, p, t, k)
    PROVE  \E k \in a .. b : /\ ~Kept(src, p, t, k) /\ \A l \in a .. (k - 1) : Kept(src, p, t, l)
                             /\ k = a \/ off[k] = 1
  <1> DEFINE S == {k \in a .. b : ~Kept(src, p, t, k)}
  <1>1. a \in Int /\ b \in Int /\ 1 <= a /\ b <= Len(r) /\ Len(r) \in Nat
    BY LenProperties
  <1>2. S \in SUBSET Nat /\ S # {}
    BY <1>1
  <1>3. PICK m \in S : \A l \in S : m <= l
    <2> HIDE DEF S
    <2> QED
      BY <1>2, LeastOf
  <1>4. m \in a .. b /\ ~Kept(src, p, t, m) /\ m \in 1 .. Len(r) /\ m \in Int
    BY <1>1
  <1>5. ASSUME NEW l \in a .. (m - 1) PROVE Kept(src, p, t, l)
    <2>1. l \in a .. b /\ ~(m <= l)
      BY <1>1, <1>4
    <2> QED
      BY <1>3, <2>1
  <1>6. ASSUME m # a, off[m] # 1 PROVE FALSE
    <2> DEFINE j == m - 1
    <2>1. j \in a .. (m - 1)
      BY <1>1, <1>4, <1>6
    <2> HIDE DEF j
    <2>2. Kept(src, p, t, j)
      BY <1>5, <2>1
    <2>3. Before(j, m)
      BY DEF j, Before
    <2>4. src[j] = src[m]
      <3>1. m \in 1 .. Len(r) /\ ~Opens(off, m)
        BY <1>4, <1>6 DEF Opens
      <3>2. j \in 1 .. Len(r) /\ off[j] = off[m] - 1 /\ src[j] = src[m]
        BY <2>3, <3>1, MaskBefore
      <3> QED
        BY <3>2
    <2> QED
      BY <1>4, <2>2, <2>4 DEF Kept
  <1>7. m = a \/ off[m] = 1
    BY <1>6
  <1> QED
    BY <1>4, <1>5, <1>7

LEMMA NumberMaskIs ==
    ASSUME NEW p \in {"ssn", "credit_card"}, NEW t \in Seq(Characters), NEW r \in Seq(Characters),
           NEW src, NEW off, Origin(src, off, r, p, t, "partial"),
           NEW k \in 1 .. Len(r), ~Kept(src, p, t, k)
    PROVE  /\ Len(Replacement(p, t, "partial", src[k])) = 4
           /\ \/ off[k] = 1 /\ r[k] = "*"
              \/ off[k] = 2 /\ r[k] = "-"
              \/ off[k] = 3 /\ r[k] = "d"
              \/ off[k] = 4 /\ r[k] = "d"
  <1> DEFINE u == <<"*", "-">> \o <<"d", "d">>
  <1>1. src[k] \in 1 .. Len(t) /\ Ends(p, t, src[k]) # {}
    BY DEF Origin, Kept
  <1>2. Replacement(p, t, "partial", src[k]) = u
    BY <1>1, NumberMask
  <1>3. off[k] \in 1 .. Len(u) /\ r[k] = u[off[k]]
    BY <1>2 DEF Origin
  <1>4. Len(u) = 4 /\ u[1] = "*" /\ u[2] = "-" /\ u[3] = "d" /\ u[4] = "d"
    OBVIOUS
  <1> HIDE DEF u
  <1>5. off[k] = 1 \/ off[k] = 2 \/ off[k] = 3 \/ off[k] = 4
    BY <1>3, <1>4
  <1> QED
    BY <1>2, <1>3, <1>4, <1>5

\* A match begins neither at the "-" of a number's mask nor at its second digit.
LEMMA NumberMaskStart ==
    ASSUME NEW p \in {"ssn", "credit_card"}, NEW t \in Seq(Characters), NEW r \in Seq(Characters),
           NEW src, NEW off, Origin(src, off, r, p, t, "partial"),
           NEW q \in Pattern, NEW a \in 1 .. Len(r), NEW b \in Ends(q, r, a), ~Kept(src, p, t, a)
    PROVE  off[a] = 3 /\ r[a] = "d" /\ a + 1 \in 1 .. Len(r) /\ off[a + 1] = 4 /\ r[a + 1] = "d"
           /\ src[a + 1] = src[a]
  <1>1. /\ b \in a .. Len(r) /\ WordBoundary(r, a - 1)
    BY MatchIs
  <1>2. r[a] \in MatchCharacter
    <2>1. a \in a .. b
      BY <1>1
    <2> QED
      BY <2>1, MatchHasNoMark
  <1>3. Len(r) \in Nat /\ a \in Int /\ DOMAIN r = 1 .. Len(r) /\ 1 <= a /\ a <= Len(r)
    BY LenProperties
  <1> DEFINE j == a - 1
  <1>4. j + 1 = a
    BY <1>3
  <1>5. ~(IsWord(r, j) <=> IsWord(r, a))
    BY <1>1, <1>4, WordBoundaryIs
  <1>6. IsWord(r, a) <=> r[a] \in WordCharacter
    BY <1>3 DEF IsWord
  <1>7. off[a] = 1 \/ off[a] = 2 \/ off[a] = 3 \/ off[a] = 4
    BY NumberMaskIs
  <1>8. off[a] # 1
    <2>1. r[a] # "*"
      BY <1>2 DEF MatchCharacter
    <2> QED
      BY <2>1, NumberMaskIs
  <1>9. j \in 1 .. Len(r) /\ off[j] = off[a] - 1 /\ src[j] = src[a]
    <2>1. Before(j, a) /\ ~Opens(off, a)
      BY <1>8 DEF Before, Opens
    <2> HIDE DEF j
    <2> QED
      BY <2>1, MaskBefore
  <1> HIDE DEF j
  <1>10. ~Kept(src, p, t, j)
    BY <1>9 DEF Kept
  <1>11. off[a] # 2
    <2> SUFFICES ASSUME off[a] = 2 PROVE FALSE
      OBVIOUS
    <2>1. off[j] = 1
      BY <1>9
    <2>2. r[j] = "*" /\ r[a] = "-"
      BY <1>9, <1>10, <2>1, NumberMaskIs
    <2> QED
      BY <1>5, <2>2 DEF IsWord, WordCharacter
  <1>12. off[a] # 4
    <2> SUFFICES ASSUME off[a] = 4 PROVE FALSE
      OBVIOUS
    <2>1. off[j] = 3
      BY <1>9
    <2>2. r[j] = "d" /\ r[a] = "d"
      BY <1>9, <1>10, <2>1, NumberMaskIs
    <2> QED
      BY <1>3, <1>5, <1>9, <2>2 DEF IsWord, WordCharacter
  <1>13. off[a] = 3
    BY <1>7, <1>8, <1>11, <1>12
  <1> DEFINE z == a + 1
  <1>14. z \in 1 .. Len(r) /\ src[z] = src[a] /\ off[z] = 4
    <2>0. Len(Replacement(p, t, "partial", src[a])) = 4
      BY NumberMaskIs
    <2> DEFINE l == Len(Replacement(p, t, "partial", src[a]))
    <2>1. off[a] < l => a < Len(r) /\ src[a + 1] = src[a] /\ off[a + 1] = off[a] + 1
      BY DEF Origin
    <2>3. l = 4
      BY <2>0
    <2> HIDE DEF l
    <2>2. a < Len(r) /\ src[a + 1] = src[a] /\ off[a + 1] = off[a] + 1
      BY <1>13, <2>1, <2>3
    <2> QED
      BY <1>3, <1>13, <2>2
  <1> HIDE DEF z
  <1>15. r[z] = "d"
    <2>1. ~Kept(src, p, t, z)
      BY <1>14 DEF Kept
    <2> QED
      BY <1>14, <2>1, NumberMaskIs
  <1>16. r[a] = "d"
    BY <1>13, NumberMaskIs
  <1> QED
    BY <1>13, <1>14, <1>15, <1>16 DEF z

\* Partial masking leaves no social security number where there was none, nor one of its own.
LEMMA PartialNumbers ==
    ASSUME NEW p \in {"ssn", "credit_card"}, NEW t \in Seq(Characters),
           Found("ssn", Sub(p, t, "partial"))
    PROVE  p # "ssn" /\ Found("ssn", t)
  <1> DEFINE r == Sub(p, t, "partial")
  <1>0. p \in Pattern /\ "ssn" \in Pattern /\ "partial" \in Strategy
    BY DEF Pattern, Strategy
  <1>1. r \in Seq(Characters) /\ \E src, off : Origin(src, off, r, p, t, "partial")
    BY <1>0, OriginExists
  <1>2. PICK src, off : Origin(src, off, r, p, t, "partial")
    BY <1>1
  <1>3. PICK a \in DOMAIN r : Ends("ssn", r, a) # {}
    BY DEF Found
  <1> HIDE DEF r
  <1>4. a \in 1 .. Len(r) /\ DOMAIN t = 1 .. Len(t) /\ a \in Int
    BY <1>1, LenProperties
  <1>5. PICK b \in Ends("ssn", r, a) : TRUE
    BY <1>3
  <1>6. b \in a .. Len(r) /\ Shape("ssn", r, a, b)
    BY <1>1, <1>4, MatchIs
  <1>7. ASSUME NEW k \in a .. b PROVE Kept(src, p, t, k)
    <2> SUFFICES ASSUME ~Kept(src, p, t, k) PROVE FALSE
      OBVIOUS
    <2>1. PICK l \in a .. b : ~Kept(src, p, t, l) /\ (l = a \/ off[l] = 1)
      BY <1>1, <1>2, <1>4, <1>6, FirstReplaced
    <2>2. l \in 1 .. Len(r)
      BY <1>4, <1>6
    <2>3. off[l] # 1
      <3>1. r[l] \in MatchCharacter
        BY <1>0, <1>1, <1>4, MatchHasNoMark
      <3>2. r[l] # "*"
        BY <3>1 DEF MatchCharacter
      <3> QED
        BY <1>1, <1>2, <2>1, <2>2, <3>2, NumberMaskIs
    <2>4. ~Kept(src, p, t, a)
      BY <2>1, <2>3
    <2>5. r[a + 1] = "d"
      BY <1>0, <1>1, <1>2, <1>4, <2>4, NumberMaskStart
    <2>6. r[a + 1] = "-"
      BY <1>1, <1>4, <1>6, NumberIs DEF IsNumber
    <2> QED
      BY <2>5, <2>6
  <1>8. src[a] \in 1 .. Len(t) /\ Ends("ssn", t, src[a]) # {}
    BY <1>0, <1>1, <1>2, <1>4, <1>7, KeptMatch
  <1>9. Kept(src, p, t, a)
    BY <1>4, <1>6, <1>7
  <1> QED
    BY <1>4, <1>8, <1>9 DEF Found, Kept

-----------------------------------------------------------------------------

(* Redaction: partial masking of numbers makes no address. *)

LEMMA NumberCharacters ==
    ASSUME NEW p \in {"ssn", "credit_card"}, NEW t \in Seq(Characters), NEW i \in 1 .. Len(t),
           NEW e \in Ends(p, t, i)
    PROVE  \A k \in i .. e : t[k] \in {"d", "-", " "}
  <1> TAKE k \in i .. e
  <1>1. e \in i .. Len(t) /\ Shape(p, t, i, e)
    BY MatchIs
  <1>2. CASE p = "ssn"
    <2>1. IsNumber(t, i, e)
      BY <1>1, <1>2, NumberIs
    <2>2. k = i \/ k = i + 1 \/ k = i + 2 \/ k = i + 3
      BY <2>1 DEF IsNumber
    <2> QED
      BY <2>1, <2>2 DEF IsNumber
  <1>3. CASE p = "credit_card"
    <2>1. IsCard(t, i, e)
      BY <1>1, <1>3, ShapeIs
    <2> QED
      BY <2>1 DEF IsCard
  <1> QED
    BY <1>2, <1>3

\* Where an address can begin whose rest follows a number.
NumberTail(t, i, e, w) ==
    /\ w \in i .. (e + 1) /\ WordBoundary(t, w - 1)
    /\ \A k \in w .. e : t[k] = "d"
    /\ w = e + 1 => IsWord(t, e + 1)

LEMMA NumberTailExists ==
    ASSUME NEW p \in {"ssn", "credit_card"}, NEW t \in Seq(Characters), NEW i \in 1 .. Len(t),
           NEW e \in Ends(p, t, i)
    PROVE  \E w : NumberTail(t, i, e, w)
  <1>1. e \in i .. Len(t) /\ WordBoundary(t, i - 1) /\ WordBoundary(t, e)
    BY MatchIs
  <1>2. Len(t) \in Nat /\ i \in Int /\ e \in Int /\ 1 <= i /\ i <= e /\ e <= Len(t)
    BY <1>1, LenProperties
  <1>3. \A k \in i .. e : t[k] \in {"d", "-", " "} /\ (IsWord(t, k) <=> t[k] = "d")
    <2>1. \A k \in i .. e : k \in DOMAIN t
      BY <1>2, LenProperties
    <2> QED
      BY <2>1, NumberCharacters DEF IsWord, WordCharacter
  <1>4. CASE t[e] = "d"
    <2> DEFINE S == {w \in i .. e : \A k \in w .. e : t[k] = "d"}
    <2>1. S \in SUBSET Nat /\ e \in S
      BY <1>2, <1>4
    <2>2. PICK w \in S : \A k \in S : w <= k
      <3> HIDE DEF S
      <3> QED
        BY <2>1, LeastOf
    <2>3. w \in i .. e /\ \A k \in w .. e : t[k] = "d"
      OBVIOUS
    <2>4. WordBoundary(t, w - 1)
      <3>1. CASE w = i
        BY <1>1, <3>1
      <3>2. CASE w # i
        <4> DEFINE z == w - 1
        <4>1. z \in i .. e /\ z + 1 = w /\ ~(w <= z) /\ w \in i .. e /\ w \in w .. e
          BY <1>2, <2>3, <3>2
        <4>2. t[z] # "d"
          <5> SUFFICES ASSUME t[z] = "d" PROVE FALSE
            OBVIOUS
          <5>1. \A k \in z .. e : k = z \/ k \in w .. e
            BY <1>2, <4>1
          <5>2. \A k \in z .. e : t[k] = "d"
            <6> HIDE DEF z, S
            <6> QED
              BY <2>3, <5>1
          <5>3. z \in S
            <6> HIDE DEF z
            <6> QED
              BY <4>1, <5>2
          <5> QED
            BY <2>2, <4>1, <5>3
        <4>3. t[w] = "d"
          BY <2>3, <4>1
        <4> HIDE DEF z
        <4>4. WordBoundary(t, z)
          BY <1>3, <4>1, <4>2, <4>3, WordBoundaryIs
        <4> QED
          BY <4>4 DEF z
      <3> QED
        BY <3>1, <3>2
    <2>5. w \in i .. (e + 1) /\ w # e + 1
      BY <1>2, <2>3
    <2> QED
      BY <2>3, <2>4, <2>5 DEF NumberTail
  <1>5. CASE t[e] # "d"
    <2> DEFINE w == e + 1
    <2>1. w \in i .. (e + 1) /\ w - 1 = e /\ (\A k \in w .. e : FALSE) /\ e \in i .. e
      BY <1>2
    <2>2. ~IsWord(t, e)
      BY <1>3, <1>5, <2>1
    <2>3. IsWord(t, e + 1)
      BY <1>1, <2>2, WordBoundaryIs
    <2> HIDE DEF w
    <2>4. WordBoundary(t, w - 1)
      BY <1>1, <2>1
    <2>5. NumberTail(t, i, e, w)
      BY <2>1, <2>3, <2>4 DEF NumberTail
    <2> QED
      BY <2>5
  <1> QED
    BY <1>4, <1>5

\* An address of which only the front was a number's mask was one before.
LEMMA AddressBehindNumber ==
    ASSUME NEW t \in Seq(Characters), NEW r \in Seq(Characters),
           NEW i \in 1 .. Len(t), NEW e \in i .. Len(t), NEW w, NumberTail(t, i, e, w),
           NEW a \in Int, NEW b \in Int, NEW c \in Int, Shifted(r, t, a + 2, b, c), a + 2 + c = e + 1,
           NEW at, NEW dot, IsAddress(r, a, b, at, dot), r[a + 1] = "d", WordBoundary(t, b + c)
    PROVE  Found("email", t)
  <1>1. /\ at \in Int /\ dot \in Int /\ a + 1 <= at /\ at <= b /\ a <= dot /\ dot + 2 <= b
        /\ at + 1 < dot /\ r[at] = "@"
    BY DEF IsAddress
  <1>2. /\ i \in Int /\ e \in Int /\ w \in Int /\ 1 <= i /\ i <= w /\ w <= e + 1 /\ e <= Len(t)
        /\ Len(t) \in Nat
    BY LenProperties DEF NumberTail
  <1>3. a + 2 <= at
    <2>1. at # a + 1
      BY <1>1
    <2> QED
      BY <1>1, <2>1
  <1> DEFINE j == b + c
             u == at + c
             v == dot + c
  <1>4. /\ u \in (e + 1) .. j /\ v \in w .. (j - 2) /\ u + 1 < v
        /\ at \in (a + 2) .. b /\ dot \in (a + 2) .. b /\ u - c = at
    BY <1>1, <1>2, <1>3
  <1>5. \A k \in (e + 1) .. j : k - c \in (a + 2) .. b /\ t[k] = r[k - c]
    <2> DEFINE y == a + 2
    <2>1. y \in Int /\ y + c = e + 1
      OBVIOUS
    <2>2. Shifted(r, t, y, b, c)
      OBVIOUS
    <2> HIDE DEF y
    <2>3. \A k \in (y + c) .. (b + c) : k - c \in y .. b /\ t[k] = r[k - c]
      BY <2>1, <2>2, ShiftedBack
    <2> QED
      BY <2>1, <2>3 DEF y
  <1>6. t[u] = "@" /\ t[v] = "."
    <2>1. r[at] = t[at + c] /\ r[dot] = t[dot + c]
      BY <1>4 DEF Shifted
    <2> QED
      BY <2>1 DEF IsAddress
  <1>7. u \in (w + 1) .. j
    <2>1. w # u
      <3> SUFFICES ASSUME w = u PROVE FALSE
        OBVIOUS
      <3>1. w = e + 1
        BY <1>2, <1>4
      <3>2. IsWord(t, w)
        BY <3>1 DEF NumberTail
      <3> HIDE DEF u
      <3> QED
        BY <1>6, <3>2 DEF IsWord, WordCharacter
    <2> QED
      BY <1>2, <1>4, <2>1
  <1>8. ASSUME NEW k \in (w .. (v - 1)) \ {u} PROVE t[k] \in AddressCharacter
    <2>1. CASE k <= e
      <3>1. k \in w .. e
        BY <1>2, <2>1
      <3>2. t[k] = "d"
        BY <3>1 DEF NumberTail
      <3> QED
        BY <3>2 DEF AddressCharacter
    <2>2. CASE ~(k <= e)
      <3> DEFINE m == k - c
      <3>1. k \in (e + 1) .. j /\ m \in (a .. (dot - 1)) \ {at}
        BY <1>1, <1>2, <1>4, <2>2
      <3>2. r[m] \in AddressCharacter
        <4> HIDE DEF m
        <4> QED
          BY <3>1 DEF IsAddress
      <3> QED
        BY <1>5, <3>1, <3>2
    <2> QED
      BY <2>1, <2>2
  <1>9. ASSUME NEW k \in (v + 1) .. j PROVE t[k] = "x"
    <2> DEFINE m == k - c
    <2>1. k \in (e + 1) .. j /\ m \in (dot + 1) .. b
      BY <1>2, <1>4, <1>3, <1>1
    <2>2. r[m] = "x"
      <3> HIDE DEF m
      <3> QED
        BY <2>1 DEF IsAddress
    <2> QED
      BY <1>5, <2>1, <2>2
  <1>10. j \in w .. Len(t) /\ w \in 1 .. Len(t)
    <2>1. b \in (a + 2) .. b
      BY <1>1, <1>3
    <2>2. j \in 1 .. Len(t)
      BY <2>1 DEF Shifted
    <2> QED
      BY <1>2, <1>4, <2>2
  <1> HIDE DEF j, u, v
  <1>11. Shape("email", t, w, j)
    <2>1. IsAddress(t, w, j, u, v)
      BY <1>4, <1>6, <1>7, <1>8, <1>9 DEF IsAddress
    <2> QED
      BY <2>1, ShapeIs
  <1>12. WordBoundary(t, w - 1) /\ WordBoundary(t, j)
    BY DEF NumberTail, j
  <1>13. j \in Ends("email", t, w)
    BY <1>10, <1>11, <1>12 DEF Ends
  <1>14. w \in DOMAIN t
    BY <1>10, LenProperties
  <1> QED
    BY <1>13, <1>14 DEF Found

LEMMA PartialAddresses ==
    ASSUME NEW p \in {"ssn", "credit_card"}, NEW t \in Seq(Characters),
           Found("email", Sub(p, t, "partial"))
    PROVE  Found("email", t)
  <1> DEFINE r == Sub(p, t, "partial")
  <1>0. p \in Pattern /\ "email" \in Pattern /\ "partial" \in Strategy
    BY DEF Pattern, Strategy
  <1>1. r \in Seq(Characters) /\ \E src, off : Origin(src, off, r, p, t, "partial")
    BY <1>0, OriginExists
  <1>2. PICK src, off : Origin(src, off, r, p, t, "partial")
    BY <1>1
  <1>3. PICK a \in DOMAIN r : Ends("email", r, a) # {}
    BY DEF Found
  <1> HIDE DEF r
  <1>4. a \in 1 .. Len(r) /\ DOMAIN t = 1 .. Len(t)
    BY <1>1, LenProperties
  <1>5. PICK b \in Ends("email", r, a) : TRUE
    BY <1>3
  <1>6. b \in a .. Len(r) /\ Shape("email", r, a, b) /\ WordBoundary(r, b)
    BY <1>1, <1>4, MatchIs
  <1>7. a \in Int /\ b \in Int /\ 1 <= a /\ a <= b /\ b <= Len(r) /\ Len(r) \in Nat
    BY <1>1, <1>4, <1>6, LenProperties
  <1>8. ASSUME NEW k \in a .. b, ~Kept(src, p, t, k) PROVE off[k] # 1
    <2>1. r[k] \in MatchCharacter
      BY <1>0, <1>1, <1>4, MatchHasNoMark
    <2>2. r[k] # "*"
      BY <2>1 DEF MatchCharacter
    <2>3. k \in 1 .. Len(r)
      BY <1>7
    <2> QED
      BY <1>1, <1>2, <1>8, <2>2, <2>3, NumberMaskIs
  <1>9. CASE \A k \in a .. b : Kept(src, p, t, k)
    <2>1. src[a] \in 1 .. Len(t) /\ Ends("email", t, src[a]) # {}
      BY <1>0, <1>1, <1>2, <1>4, <1>9, KeptMatch
    <2> QED
      BY <1>4, <2>1 DEF Found
  <1>10. CASE \E k \in a .. b : ~Kept(src, p, t, k)
    <2>1. ~Kept(src, p, t, a)
      <3>1. PICK l \in a .. b : ~Kept(src, p, t, l) /\ (l = a \/ off[l] = 1)
        BY <1>1, <1>2, <1>4, <1>6, <1>10, FirstReplaced
      <3> QED
        BY <1>8, <3>1
    <2> DEFINE a1 == a + 1
               a2 == a + 2
               i == src[a]
               e == MatchEnd(p, t, i)
    <2>2. /\ off[a] = 3 /\ r[a] = "d" /\ a1 \in 1 .. Len(r) /\ off[a1] = 4 /\ r[a1] = "d"
          /\ src[a1] = i
      BY <1>0, <1>1, <1>2, <1>4, <2>1, NumberMaskStart
    <2>3. PICK at, dot : IsAddress(r, a, b, at, dot)
      BY <1>6, ShapeIs
    <2>4. a1 + 1 = a2 /\ a1 < Len(r) /\ a2 \in 1 .. Len(r) /\ b \in a2 .. Len(r) /\ a2 \in a .. b
          /\ a2 \in Int /\ a2 \in a2 .. b /\ b \in a2 .. b /\ \A k \in a2 .. b : k \in a .. b
      <3>1. at \in (a + 1) .. b /\ dot \in a .. (b - 2) /\ at + 1 < dot
        BY <2>3 DEF IsAddress
      <3> QED
        BY <1>7, <3>1
    <2>5. i \in 1 .. Len(t) /\ Ends(p, t, i) # {}
      BY <1>2, <1>4, <2>1 DEF Origin, Kept
    <2> HIDE DEF a1, a2, i
    <2>6. e \in Ends(p, t, i) /\ e \in i .. Len(t) /\ e \in Int
      <3>1. e \in Ends(p, t, i) /\ e \in i .. Len(t)
        BY <2>5, EndsIs
      <3> QED
        BY <3>1
    <2>7. src[a2] = e + 1 /\ off[a2] = 1
      <3>1. ~Kept(src, p, t, a1)
        BY <2>2, <2>5 DEF Kept
      <3>2. Len(Replacement(p, t, "partial", src[a1])) = 4
        BY <1>1, <1>2, <2>2, <3>1, NumberMaskIs
      <3>3. src[a1 + 1] = MatchEnd(p, t, src[a1]) + 1 /\ off[a1 + 1] = 1
        BY <1>2, <2>2, <2>4, <3>2 DEF Origin
      <3> QED
        BY <2>2, <2>4, <3>3
    <2> HIDE DEF e
    <2>8. \A k \in a2 .. b : Kept(src, p, t, k)
      <3> SUFFICES ASSUME \E k \in a2 .. b : ~Kept(src, p, t, k) PROVE FALSE
        OBVIOUS
      <3>1. PICK l \in a2 .. b : ~Kept(src, p, t, l) /\ (l = a2 \/ off[l] = 1)
        BY <1>1, <1>2, <2>4, FirstReplaced
      <3>2. off[l] = 1 /\ l \in a .. b
        BY <2>4, <2>7, <3>1
      <3> QED
        BY <1>8, <3>1, <3>2
    <2> DEFINE c == src[a2] - a2
    <2>9. c \in Int /\ a2 + c = e + 1
      BY <2>4, <2>6, <2>7
    <2>10. \A k \in a2 .. b : src[k] = k + c /\ r[k] = t[k + c] /\ k + c \in 1 .. Len(t)
      <3>1. /\ a2 \in 1 .. Len(r) /\ b \in a2 .. Len(r)
            /\ \A k \in a2 .. b : Kept(src, p, t, k)
        BY <2>4, <2>8
      <3> QED
        BY <1>1, <1>2, <3>1, KeptRun
    <2> HIDE DEF c
    <2>11. Shifted(r, t, a2, b, c)
      BY <2>10 DEF Shifted
    <2>12. WordBoundary(t, b + c)
      <3>1. Kept(src, p, t, b) /\ b \in 1 .. Len(r) /\ src[b] = b + c
        BY <1>7, <2>4, <2>8, <2>10
      <3>2. /\ off[b] = 1 /\ MatchEnd(p, t, src[b]) = src[b]
            /\ Len(Replacement(p, t, "partial", src[b])) = 1
        BY <1>1, <1>2, <3>1, KeptIs
      <3>3. Closes(src, off, p, t, "partial", b)
        BY <3>2 DEF Closes
      <3> QED
        BY <1>1, <1>2, <1>6, <3>1, <3>2, <3>3, BoundaryBehind
    <2>13. PICK w : NumberTail(t, i, e, w)
      BY <2>5, <2>6, NumberTailExists
    <2> QED
      BY <1>1, <1>7, <2>2, <2>3, <2>5, <2>6, <2>9, <2>11, <2>12, <2>13, AddressBehindNumber DEF a1, a2
  <1> QED
    BY <1>9, <1>10

-----------------------------------------------------------------------------

(* Redaction: what partial masking of addresses leaves of them. *)

\* The character numbered o of the mask of an address.
LEMMA AddressMaskIs ==
    ASSUME NEW t \in Seq(Characters), NEW r \in Seq(Characters),
           NEW src, NEW off, Origin(src, off, r, "email", t, "partial"),
           NEW k \in 1 .. Len(r), ~Kept(src, "email", t, k),
           NEW i, i = src[k], NEW e, e = MatchEnd("email", t, i)
    PROVE  \E at, dot :
              /\ IsAddress(t, i, e, at, dot)
              /\ Len(Replacement("email", t, "partial", i)) = e - at + 3
              /\ \A o \in 1 .. (e - at + 3) :
                    Replacement("email", t, "partial", i)[o] =
                       IF o = 1 THEN t[i] ELSE IF o = 2 THEN "*" ELSE t[at + o - 3]
  <1>1. i \in 1 .. Len(t) /\ Ends("email", t, i) # {}
    BY DEF Origin, Kept
  <1>2. e \in i .. Len(t)
    BY <1>1, EndsIs
  <1>3. PICK at, dot :
           /\ IsAddress(t, i, e, at, dot)
           /\ Replacement("email", t, "partial", i) = <<t[i], "*">> \o SubSeq(t, at, e)
    BY <1>1, AddressMask
  <1>4. at \in 1 .. Len(t) /\ e \in at .. Len(t) /\ at \in Int /\ e \in Int
    BY <1>1, <1>2, <1>3 DEF IsAddress
  <1> DEFINE u == <<t[i], "*">>
             v == SubSeq(t, at, e)
  <1>5. /\ v \in Seq(Characters) /\ Len(v) = e - at + 1
        /\ \A k1 \in 1 .. (e - at + 1) : v[k1] = t[at + k1 - 1]
    BY <1>4, MatchText
  <1>6. u \in Seq(Characters) /\ Len(u) = 2 /\ u[1] = t[i] /\ u[2] = "*"
    <2>1. t[i] \in Characters /\ "*" \in Characters
      BY <1>1, ElementOfSeq DEF Characters
    <2> QED
      BY <2>1
  <1> HIDE DEF u, v
  <1>7. /\ Len(u \o v) = Len(u) + Len(v)
        /\ \A o \in 1 .. (Len(u) + Len(v)) : (u \o v)[o] = IF o <= Len(u) THEN u[o] ELSE v[o - Len(u)]
    BY <1>5, <1>6, ConcatProperties
  <1> DEFINE w == u \o v
             l == e - at + 3
  <1>8. Len(u) + Len(v) = l
    <2> DEFINE n == e - at + 1
    <2>1. n \in Int /\ 2 + n = l
      BY <1>4
    <2> HIDE DEF n, l
    <2>2. Len(v) = n
      BY <1>5 DEF n
    <2> QED
      BY <1>6, <2>1, <2>2
  <1> HIDE DEF w
  <1>9. Len(w) = l /\ \A o \in 1 .. l : w[o] = IF o <= 2 THEN u[o] ELSE v[o - 2]
    BY <1>6, <1>7, <1>8 DEF w
  <1>10. ASSUME NEW o \in 1 .. l
         PROVE  w[o] = IF o = 1 THEN t[i] ELSE IF o = 2 THEN "*" ELSE t[at + o - 3]
    <2>1. CASE o <= 2
      <3>1. o = 1 \/ o = 2
        BY <2>1
      <3> QED
        BY <1>6, <1>9, <2>1, <3>1
    <2>2. CASE ~(o <= 2)
      <3> DEFINE z == o - 2
      <3>1. z \in 1 .. (e - at + 1) /\ at + z - 1 = at + o - 3 /\ o # 1 /\ o # 2
        BY <1>4, <2>2
      <3>2. w[o] = v[z]
        BY <1>9, <2>2
      <3> HIDE DEF z
      <3>3. v[z] = t[at + z - 1]
        BY <1>5, <3>1
      <3> QED
        BY <3>1, <3>2, <3>3
    <2> QED
      BY <2>1, <2>2
  <1>11. Replacement("email", t, "partial", i) = w
    BY <1>3 DEF w, u, v
  <1> QED
    BY <1>3, <1>9, <1>10, <1>11

\* Behind the first character of an address comes the mark.
LEMMA AddressMaskStart ==
    ASSUME NEW t \in Seq(Characters), NEW r \in Seq(Characters),
           NEW src, NEW off, Origin(src, off, r, "email", t, "partial"),
           NEW k \in 1 .. Len(r), ~Kept(src, "email", t, k), Opens(off, k)
    PROVE  /\ r[k] = t[src[k]] /\ WordBoundary(t, src[k] - 1)
           /\ k + 1 \in 1 .. Len(r) /\ r[k + 1] = "*"
  <1> DEFINE i == src[k]
             e == MatchEnd("email", t, i)
             rep == Replacement("email", t, "partial", i)
             z == k + 1
  <1>1. i \in 1 .. Len(t) /\ Ends("email", t, i) # {}
    BY DEF Origin, Kept
  <1>2. PICK at, dot :
           /\ IsAddress(t, i, e, at, dot)
           /\ Len(rep) = e - at + 3
           /\ \A o \in 1 .. (e - at + 3) :
                 rep[o] = IF o = 1 THEN t[i] ELSE IF o = 2 THEN "*" ELSE t[at + o - 3]
    BY AddressMaskIs
  <1>3. e \in Int /\ at \in Int /\ at <= e
    <2>1. e \in i .. Len(t)
      BY <1>1, EndsIs
    <2> HIDE DEF e
    <2>2. at \in (i + 1) .. e
      BY <1>2 DEF IsAddress
    <2> QED
      BY <2>1, <2>2
  <1> HIDE DEF e
  <1>4. 1 \in 1 .. (e - at + 3) /\ 2 \in 1 .. (e - at + 3) /\ 1 < e - at + 3
    BY <1>3
  <1>5. rep[1] = t[i] /\ rep[2] = "*"
    BY <1>2, <1>4
  <1>6. off[k] = 1 /\ off[k] < Len(rep)
    BY <1>2, <1>4 DEF Opens
  <1>7. r[k] = t[i]
    BY <1>5, <1>6 DEF Origin
  <1>8. k < Len(r) /\ src[z] = i /\ off[z] = 2
    <2>1. k < Len(r) /\ src[k + 1] = src[k] /\ off[k + 1] = off[k] + 1
      BY <1>6 DEF Origin
    <2> QED
      BY <1>6, <2>1
  <1>9. z \in 1 .. Len(r)
    BY <1>8, LenProperties
  <1>10. WordBoundary(t, i - 1)
    <2>1. PICK j \in Ends("email", t, i) : TRUE
      BY <1>1
    <2> HIDE DEF i
    <2> QED
      BY <1>1, <2>1, MatchIs
  <1> HIDE DEF z
  <1>11. r[z] = "*"
    <2>1. r[z] = Replacement("email", t, "partial", src[z])[off[z]]
      BY <1>9 DEF Origin
    <2> QED
      BY <1>5, <1>8, <2>1
  <1> QED
    BY <1>7, <1>9, <1>10, <1>11 DEF z

\* What begins with a mask or a kept character and ends as an address does, has no mask.
LEMMA KeptToEnd ==
    ASSUME NEW t \in Seq(Characters), NEW r \in Seq(Characters),
           NEW src, NEW off, Origin(src, off, r, "email", t, "partial"),
           NEW y \in 1 .. Len(r), Opens(off, y), NEW b \in (y + 1) .. Len(r),
           \A k \in y .. b : r[k] # "*", r[b] = "x", r[b - 1] = "x"
    PROVE  \A k \in y .. b : Kept(src, "email", t, k)
  <1> SUFFICES ASSUME \E k \in y .. b : ~Kept(src, "email", t, k) PROVE FALSE
    OBVIOUS
  <1>1. /\ y \in Int /\ b \in Int /\ 1 <= y /\ y + 1 <= b /\ b <= Len(r) /\ Len(r) \in Nat
        /\ b \in y .. Len(r) /\ b \in 1 .. Len(r)
    BY LenProperties
  <1>2. PICK k \in y .. b : /\ ~Kept(src, "email", t, k)
                            /\ \A l \in y .. (k - 1) : Kept(src, "email", t, l)
                            /\ (k = y \/ off[k] = 1)
    BY <1>1, FirstReplaced
  <1>3. Opens(off, k) /\ k \in 1 .. Len(r)
    <2>1. Opens(off, k)
      BY <1>2 DEF Opens
    <2> QED
      BY <1>1, <2>1
  <1>4. /\ r[k] = t[src[k]] /\ WordBoundary(t, src[k] - 1) /\ r[k + 1] = "*"
    BY <1>2, <1>3, AddressMaskStart
  <1>5. k = b
    <2>1. k + 1 \notin y .. b
      BY <1>4
    <2> QED
      BY <1>1, <2>1
  <1> DEFINE j == b - 1
  <1>6. j \in y .. (k - 1) /\ j \in 1 .. Len(r) /\ j + 1 = b /\ r[j] = "x"
    BY <1>1, <1>5
  <1> HIDE DEF j
  <1>7. Kept(src, "email", t, j)
    BY <1>2, <1>6
  <1>8. r[j] = t[src[j]] /\ MatchEnd("email", t, src[j]) = src[j]
    BY <1>6, <1>7, KeptIs
  <1>9. src[b] = src[j] + 1
    <2>0. Opens(off, b) /\ b = j + 1 /\ b \in 1 .. Len(r)
      BY <1>1, <1>3, <1>5, <1>6
    <2>1. Closes(src, off, "email", t, "partial", j) /\ src[b] = MatchEnd("email", t, src[j]) + 1
      BY <1>6, <2>0, OpensBehind
    <2> QED
      BY <1>8, <2>1
  <1>10. src[j] \in 1 .. Len(t) /\ src[b] \in 1 .. Len(t)
    BY <1>1, <1>6 DEF Origin
  <1>11. src[b] - 1 = src[j]
    BY <1>9, <1>10
  <1>12. IsWord(t, src[j]) /\ IsWord(t, src[j] + 1)
    <2>1. DOMAIN t = 1 .. Len(t)
      BY LenProperties
    <2>2. t[src[j]] = "x" /\ t[src[b]] = "x"
      BY <1>4, <1>5, <1>6, <1>8
    <2> QED
      BY <1>9, <1>10, <2>1, <2>2 DEF IsWord, WordCharacter
  <1>13. WordBoundary(t, src[j])
    BY <1>4, <1>5, <1>11
  <1> QED
    BY <1>12, <1>13, WordBoundaryIs

\* Inside a mask of length l the characters follow each other.
RunsOn(src, off, r, a, l) ==
    \A m \in Nat : off[a] + m <= l =>
        a + m \in 1 .. Len(r) /\ src[a + m] = src[a] /\ off[a + m] = off[a] + m

LEMMA MaskRun ==
    ASSUME NEW p, NEW t \in Seq(Characters), NEW strategy, NEW r \in Seq(Characters),
           NEW src, NEW off, Origin(src, off, r, p, t, strategy),
           NEW a \in 1 .. Len(r)
    PROVE  RunsOn(src, off, r, a, Len(Replacement(p, t, strategy, src[a])))
  <1> DEFINE l == Len(Replacement(p, t, strategy, src[a]))
             S == {m \in Nat : off[a] + m <= l =>
                      a + m \in 1 .. Len(r) /\ src[a + m] = src[a] /\ off[a + m] = off[a] + m}
  <1>1. a \in Int /\ 1 <= a /\ Len(r) \in Nat
    BY LenProperties
  <1>2. off[a] \in Nat /\ l \in Nat
    BY DEF Origin
  <1>3. 0 \in S
    BY <1>1, <1>2
  <1>4. ASSUME NEW m \in Nat, m \in S PROVE m + 1 \in S
    <2> DEFINE j == a + m
               z == a + (m + 1)
    <2>1. SUFFICES ASSUME off[a] + (m + 1) <= l
                   PROVE  z \in 1 .. Len(r) /\ src[z] = src[a] /\ off[z] = off[a] + (m + 1)
      OBVIOUS
    <2>2. j \in 1 .. Len(r) /\ src[j] = src[a] /\ off[j] = off[a] + m /\ off[j] < l /\ z = j + 1
      <3>1. off[a] + m <= l /\ off[a] + m < l
        BY <1>2, <2>1
      <3>2. j \in 1 .. Len(r) /\ src[j] = src[a] /\ off[j] = off[a] + m
        BY <1>4, <3>1
      <3> QED
        BY <1>1, <3>1, <3>2
    <2> HIDE DEF j, z
    <2>3. j < Len(r) /\ src[j + 1] = src[j] /\ off[j + 1] = off[j] + 1
      BY <2>2 DEF Origin
    <2>4. z \in 1 .. Len(r)
      BY <1>1, <2>2, <2>3
    <2>5. off[z] = off[a] + (m + 1)
      <3>1. off[z] = off[a] + m + 1
        BY <2>2, <2>3
      <3> QED
        BY <1>2, <3>1
    <2> QED
      BY <2>2, <2>3, <2>4, <2>5
  <1> HIDE DEF S
  <1>5. \A m \in Nat : m \in S
    BY <1>3, <1>4, AllNaturals
  <1> QED
    BY <1>5 DEF S, RunsOn

\* An address that partial masking of addresses leaves behind was directly before an "@".
LEMMA OwnAddresses ==
    ASSUME NEW t \in Seq(Characters), Found("email", Sub("email", t, "partial"))
    PROVE  Chained(t)
  <1> DEFINE r == Sub("email", t, "partial")
  <1>0. "email" \in Pattern /\ "partial" \in Strategy
    BY DEF Pattern, Strategy
  <1>1. r \in Seq(Characters) /\ \E src, off : Origin(src, off, r, "email", t, "partial")
    BY <1>0, OriginExists
  <1>2. PICK src, off : Origin(src, off, r, "email", t, "partial")
    BY <1>1
  <1>3. PICK a \in DOMAIN r : Ends("email", r, a) # {}
    BY DEF Found
  <1> HIDE DEF r
  <1>4. a \in 1 .. Len(r) /\ DOMAIN t = 1 .. Len(t)
    BY <1>1, LenProperties
  <1>5. PICK b \in Ends("email", r, a) : TRUE
    BY <1>3
  <1>6. b \in a .. Len(r) /\ Shape("email", r, a, b) /\ WordBoundary(r, b)
    BY <1>1, <1>4, MatchIs
  <1>7. PICK at, dot : IsAddress(r, a, b, at, dot)
    BY <1>6, ShapeIs
  <1>8. /\ a \in Int /\ b \in Int /\ 1 <= a /\ a <= b /\ b <= Len(r) /\ Len(r) \in Nat
        /\ at \in Int /\ dot \in Int /\ a + 1 <= at /\ at + 1 < dot /\ dot + 2 <= b /\ r[at] = "@"
    BY <1>1, <1>4, <1>6, <1>7, LenProperties DEF IsAddress
  <1>9. r[b] = "x" /\ r[b - 1] = "x"
    <2> DEFINE z == b - 1
    <2>1. b \in (dot + 1) .. b /\ z \in (dot + 1) .. b
      BY <1>8
    <2> HIDE DEF z
    <2>2. r[b] = "x" /\ r[z] = "x"
      BY <1>7, <2>1 DEF IsAddress
    <2> QED
      BY <2>2 DEF z
  <1>10. ASSUME NEW k \in a .. b PROVE r[k] # "*"
    <2>1. r[k] \in MatchCharacter
      BY <1>0, <1>1, <1>4, MatchHasNoMark
    <2> QED
      BY <2>1 DEF MatchCharacter
  <1>11. ASSUME NEW y \in a .. (at - 1), Opens(off, y) PROVE \A k \in y .. b : Kept(src, "email", t, k)
    <2>1. y \in 1 .. Len(r) /\ b \in (y + 1) .. Len(r) /\ \A k \in y .. b : k \in a .. b
      BY <1>8
    <2>2. \A k \in y .. b : r[k] # "*"
      BY <1>10, <2>1
    <2> QED
      BY <1>1, <1>2, <1>9, <1>11, <2>1, <2>2, KeptToEnd
  <1>12. ~Opens(off, a)
    <2> SUFFICES ASSUME Opens(off, a) PROVE FALSE
      OBVIOUS
    <2>1. a \in a .. (at - 1) /\ a \in a .. b
      BY <1>8
    <2>2. \A k \in a .. b : Kept(src, "email", t, k)
      BY <1>11, <2>1
    <2>3. Ends("email", t, src[a]) # {}
      BY <1>0, <1>1, <1>2, <1>4, <2>2, KeptMatch
    <2> QED
      BY <2>1, <2>2, <2>3 DEF Kept
  <1>13. ~Kept(src, "email", t, a)
    <2> SUFFICES ASSUME Kept(src, "email", t, a) PROVE FALSE
      OBVIOUS
    <2>1. off[a] = 1
      BY <1>1, <1>2, <1>4, KeptIs
    <2> QED
      BY <1>12, <2>1 DEF Opens
  <1> DEFINE i == src[a]
             e == MatchEnd("email", t, i)
             rep == Replacement("email", t, "partial", i)
  <1>14. PICK at0, dot0 :
            /\ IsAddress(t, i, e, at0, dot0)
            /\ Len(rep) = e - at0 + 3
            /\ \A o \in 1 .. (e - at0 + 3) :
                  rep[o] = IF o = 1 THEN t[i] ELSE IF o = 2 THEN "*" ELSE t[at0 + o - 3]
    <2>1. i = src[a] /\ e = MatchEnd("email", t, i) /\ rep = Replacement("email", t, "partial", i)
      OBVIOUS
    <2> HIDE DEF i, e, rep
    <2>2. \E at0, dot0 :
             /\ IsAddress(t, i, e, at0, dot0)
             /\ Len(Replacement("email", t, "partial", i)) = e - at0 + 3
             /\ \A o \in 1 .. (e - at0 + 3) :
                   Replacement("email", t, "partial", i)[o] =
                      IF o = 1 THEN t[i] ELSE IF o = 2 THEN "*" ELSE t[at0 + o - 3]
      BY <1>1, <1>2, <1>4, <1>13, <2>1, AddressMaskIs
    <2> QED
      BY <2>1, <2>2
  <1> DEFINE l == e - at0 + 3
  <1>15. i \in 1 .. Len(t) /\ e \in Ends("email", t, i) /\ e \in i .. Len(t)
    <2>1. i \in 1 .. Len(t) /\ Ends("email", t, i) # {}
      BY <1>2, <1>4, <1>13 DEF Origin, Kept
    <2>2. e \in Ends("email", t, i) /\ e \in i .. Len(t)
      BY <2>1, EndsIs
    <2> QED
      BY <2>1, <2>2
  <1>16. off[a] \in 1 .. l /\ r[a] = rep[off[a]]
    BY <1>2, <1>4, <1>14 DEF Origin
  <1> HIDE DEF e, rep
  <1>17. e \in Int /\ at0 \in Int /\ i + 1 <= at0 /\ at0 <= e /\ e <= Len(t) /\ Len(t) \in Nat /\ l \in Int
         /\ i \in Int /\ 1 <= i
    <2>1. at0 \in (i + 1) .. e
      BY <1>14 DEF IsAddress
    <2> HIDE DEF i
    <2> QED
      BY <1>15, <2>1, LenProperties
  <1>18. off[a] \in 3 .. l
    <2>1. off[a] # 1
      BY <1>12 DEF Opens
    <2>2. off[a] # 2
      <3> SUFFICES ASSUME off[a] = 2 PROVE FALSE
        OBVIOUS
      <3>1. 2 \in 1 .. l
        BY <1>16
      <3>2. rep[2] = "*"
        BY <1>14, <3>1
      <3>3. a \in a .. b
        BY <1>8
      <3> QED
        BY <1>10, <1>16, <3>2, <3>3
    <2> HIDE DEF l
    <2> QED
      BY <1>16, <1>17, <2>1, <2>2
  <1> DEFINE f == a + (l - off[a])
  <1>19. ASSUME NEW k \in a .. f
         PROVE  k \in 1 .. Len(r) /\ src[k] = i /\ off[k] = off[a] + (k - a)
    <2> DEFINE m == k - a
    <2>1. m \in Nat /\ off[a] + m <= l /\ a + m = k
      <3> DEFINE n == off[a]
      <3>1. n \in Int /\ l \in Int /\ a \in Int
        BY <1>8, <1>17, <1>18
      <3>2. k \in a .. (a + (l - n))
        OBVIOUS
      <3> HIDE DEF n, l, f
      <3>3. m \in Nat /\ n + m <= l /\ a + m = k
        BY <3>1, <3>2
      <3> QED
        BY <3>3 DEF n
    <2> HIDE DEF m, l, f
    <2>2. RunsOn(src, off, r, a, l)
      <3>1. RunsOn(src, off, r, a, Len(Replacement("email", t, "partial", src[a])))
        BY <1>1, <1>2, <1>4, MaskRun
      <3>2. Len(Replacement("email", t, "partial", src[a])) = l
        BY <1>14 DEF rep, l
      <3> QED
        BY <3>1, <3>2
    <2>3. a + m \in 1 .. Len(r) /\ src[a + m] = src[a] /\ off[a + m] = off[a] + m
      BY <2>1, <2>2 DEF RunsOn
    <2> QED
      BY <2>1, <2>3 DEF m
  <1>20. f \in a .. f /\ off[a] + (f - a) = l /\ f \in Int /\ a <= f
    BY <1>8, <1>17, <1>18
  <1>21. ASSUME NEW k \in (a + 1) .. f PROVE r[k] # "@"
    <2> DEFINE o == off[a] + (k - a)
               z == at0 + o - 3
    <2>1. k \in a .. f /\ o \in 1 .. l /\ o # 1 /\ o # 2 /\ z \in i .. e /\ z # at0
      <3> HIDE DEF i
      <3> DEFINE n == off[a]
      <3>1. n \in Int /\ 3 <= n
        BY <1>17, <1>18
      <3>2. k \in Int /\ a + 1 <= k /\ k <= a + (l - n)
        BY <1>8, <1>17, <3>1
      <3>3. l = e - at0 + 3
        OBVIOUS
      <3> HIDE DEF n, l
      <3>4. k \in a .. (a + (l - n)) /\ n + (k - a) \in 4 .. l
        BY <1>8, <1>17, <3>1, <3>2
      <3>5. at0 + (n + (k - a)) - 3 \in (at0 + 1) .. e
        <4>1. PICK h \in 4 .. l : h = n + (k - a)
          BY <3>4
        <4>2. at0 + h - 3 \in (at0 + 1) .. e
          BY <1>17, <3>3, <4>1
        <4> QED
          BY <4>1, <4>2
      <3>6. n + (k - a) # 1 /\ n + (k - a) # 2 /\ n + (k - a) \in 1 .. l
        BY <1>17, <3>4
      <3>7. at0 + (n + (k - a)) - 3 \in i .. e /\ at0 + (n + (k - a)) - 3 # at0
        BY <1>17, <3>5
      <3> QED
        BY <3>4, <3>6, <3>7 DEF n
    <2>2. k \in 1 .. Len(r) /\ src[k] = i /\ off[k] = o
      BY <1>19, <2>1
    <2>3. r[k] = rep[o]
      BY <1>2, <2>2 DEF Origin, rep
    <2> HIDE DEF o, l, f
    <2>4. rep[o] = t[z]
      BY <1>14, <2>1 DEF l
    <2> HIDE DEF z, i
    <2>5. t[z] # "@"
      <3>1. dot0 \in Int /\ at0 + 1 < dot0
        BY <1>14 DEF IsAddress
      <3>2. z \in (i .. (dot0 - 1)) \ {at0} \/ z = dot0 \/ z \in (dot0 + 1) .. e
        BY <1>17, <2>1, <3>1
      <3> QED
        BY <1>14, <3>2 DEF IsAddress, AddressCharacter
    <2> QED
      BY <2>3, <2>4, <2>5
  <1>22. f < at
    <2>1. ~(at \in (a + 1) .. f)
      BY <1>8, <1>21
    <2> HIDE DEF f
    <2> QED
      BY <1>8, <1>20, <2>1
  <1> DEFINE y == f + 1
  <1>23. f \in 1 .. Len(r) /\ src[f] = i /\ off[f] = l
    <2> HIDE DEF f, i, l
    <2>1. f \in 1 .. Len(r) /\ src[f] = i /\ off[f] = off[a] + (f - a)
      BY <1>19, <1>20
    <2> QED
      BY <1>20, <2>1
  <1> HIDE DEF i, l, f
  <1>24. y \in 1 .. Len(r) /\ y \in a .. at /\ y \in Int
    BY <1>8, <1>20, <1>22
  <1>25. src[y] = e + 1 /\ off[y] = 1
    <2>1. f < Len(r)
      BY <1>8, <1>20, <1>22
    <2>2. Len(Replacement("email", t, "partial", src[f])) = l
      BY <1>14, <1>23 DEF rep, l
    <2>3. src[f + 1] = MatchEnd("email", t, src[f]) + 1 /\ off[f + 1] = 1
      BY <1>2, <1>23, <2>1, <2>2 DEF Origin
    <2> QED
      BY <1>23, <2>3 DEF e
  <1>26. src[y] \in 1 .. Len(t)
    BY <1>2, <1>24 DEF Origin
  <1>27. e < Len(t) /\ e + 1 \in 1 .. Len(t)
    BY <1>17, <1>25, <1>26
  <1> HIDE DEF y
  <1>28. CASE y = at
    <2>1. Kept(src, "email", t, y)
      <3> SUFFICES ASSUME ~Kept(src, "email", t, y) PROVE FALSE
        OBVIOUS
      <3>1. r[y + 1] = "*"
        BY <1>1, <1>2, <1>24, <1>25, AddressMaskStart DEF Opens
      <3>2. y + 1 \in a .. b
        BY <1>8, <1>28
      <3> QED
        BY <1>10, <3>1, <3>2
    <2>2. r[y] = t[e + 1]
      BY <1>1, <1>2, <1>24, <1>25, <2>1, KeptIs
    <2>3. t[e + 1] = "@"
      BY <1>8, <1>28, <2>2
    <2> QED
      BY <1>4, <1>15, <1>27, <2>3 DEF Chained
  <1>29. CASE y # at
    <2>1. y \in a .. (at - 1) /\ y + 1 <= at
      BY <1>8, <1>24, <1>29
    <2>2. \A k \in y .. b : Kept(src, "email", t, k)
      BY <1>11, <1>25, <2>1 DEF Opens
    <2>3. y \in 1 .. Len(r) /\ b \in y .. Len(r) /\ b \in 1 .. Len(r) /\ b \in y .. b /\ y \in y .. b
      BY <1>8, <1>24, <2>1
    <2> DEFINE c == src[y] - y
               j == b + c
    <2>4. \A k \in y .. b : src[k] = k + c /\ r[k] = t[k + c] /\ k + c \in 1 .. Len(t)
      BY <1>1, <1>2, <2>2, <2>3, KeptRun
    <2>5. c \in Int /\ y + c = e + 1
      BY <1>17, <1>24, <1>25
    <2> HIDE DEF c
    <2>6. Shifted(r, t, y, b, c)
      BY <2>4 DEF Shifted
    <2>7. IsAddress(r, y, b, at, dot)
      <3>1. at \in (y + 1) .. b /\ dot \in y .. (b - 2) /\ \A k \in y .. (dot - 1) : k \in a .. (dot - 1)
        BY <1>8, <1>24, <2>1
      <3> QED
        BY <1>7, <3>1 DEF IsAddress
    <2>8. IsAddress(t, y + c, b + c, at + c, dot + c)
      BY <1>8, <1>24, <2>5, <2>6, <2>7, AddressShift
    <2> DEFINE w == e + 1
    <2>9. Shape("email", t, w, j)
      <3>1. \E u, v : IsAddress(t, w, j, u, v)
        BY <2>5, <2>8
      <3> HIDE DEF j, w
      <3> QED
        BY <3>1, ShapeIs
    <2>10. WordBoundary(t, w - 1)
      <3>1. WordBoundary(t, e) /\ w - 1 = e
        BY <1>15, <1>17, MatchIs
      <3> HIDE DEF w
      <3> QED
        BY <3>1
    <2>11. WordBoundary(t, j)
      <3>1. Kept(src, "email", t, b) /\ src[b] = j
        BY <2>2, <2>3, <2>4
      <3> HIDE DEF j
      <3>2. /\ off[b] = 1 /\ MatchEnd("email", t, src[b]) = src[b]
            /\ Len(Replacement("email", t, "partial", src[b])) = 1
        BY <1>1, <1>2, <2>3, <3>1, KeptIs
      <3>3. Closes(src, off, "email", t, "partial", b)
        BY <3>2 DEF Closes
      <3> QED
        BY <1>1, <1>2, <1>6, <2>3, <3>1, <3>2, <3>3, BoundaryBehind
    <2>12. j \in w .. Len(t)
      <3>1. j \in 1 .. Len(t)
        BY <2>3, <2>4
      <3>2. e + 1 <= j
        BY <1>8, <1>17, <1>24, <2>1, <2>5
      <3> QED
        BY <1>17, <3>1, <3>2
    <2> HIDE DEF j, w
    <2>13. j \in Ends("email", t, w)
      BY <2>9, <2>10, <2>11, <2>12 DEF Ends
    <2>14. src[y] = w /\ Kept(src, "email", t, y)
      BY <1>25, <2>2, <2>3 DEF w
    <2> QED
      BY <2>13, <2>14 DEF Kept
  <1> QED
    BY <1>28, <1>29

-----------------------------------------------------------------------------

(* Redaction: a text is changed exactly if something was found in it. *)

Mark == {"*", "#"}
HasMark(t) == \E k \in DOMAIN t : t[k] \in Mark

LEMMA AllKept ==
    ASSUME NEW p \in Pattern, NEW t \in Seq(Characters), NEW strategy, NEW r \in Seq(Characters),
           NEW src, NEW off, Origin(src, off, r, p, t, strategy),
           \A k \in 1 .. Len(r) : Kept(src, p, t, k)
    PROVE  r = t /\ ~Found(p, t)
  <1>1. Len(r) \in Nat /\ Len(t) \in Nat /\ DOMAIN t = 1 .. Len(t)
    BY LenProperties
  <1>2. CASE Len(r) = 0
    <2>1. Len(t) = 0
      BY <1>1, <1>2 DEF Origin
    <2>2. r = <<>> /\ t = <<>>
      BY <1>2, <2>1, EmptySeq
    <2> QED
      BY <1>1, <2>1, <2>2 DEF Found
  <1>3. CASE Len(r) # 0
    <2> DEFINE n == Len(r)
    <2>1. n >= 1 /\ 1 \in 1 .. n /\ n \in 1 .. n
      BY <1>1, <1>3
    <2>2. src[1] = 1
      BY <2>1 DEF Origin
    <2>3. \A k \in 1 .. n : /\ src[k] = k + (src[1] - 1) /\ r[k] = t[k + (src[1] - 1)]
                            /\ k + (src[1] - 1) \in 1 .. Len(t)
      BY <2>1, KeptRun
    <2>4. \A k \in 1 .. n : k + (src[1] - 1) = k
      BY <2>2
    <2>5. \A k \in 1 .. n : src[k] = k /\ r[k] = t[k]
      BY <2>3, <2>4
    <2>6. n = Len(t)
      <3>1. MatchEnd(p, t, src[n]) = Len(t)
        BY <2>1 DEF Origin
      <3>2. MatchEnd(p, t, src[n]) = src[n]
        BY <2>1, KeptIs
      <3> QED
        BY <2>1, <2>5, <3>1, <3>2
    <2>7. r = t
      BY <2>5, <2>6, SeqEqual
    <2>8. \A k \in 1 .. n : Ends(p, t, k) = {}
      BY <2>5 DEF Kept
    <2> HIDE DEF n
    <2> QED
      BY <1>1, <2>6, <2>7, <2>8 DEF Found
  <1> QED
    BY <1>2, <1>3

LEMMA NothingFound ==
    ASSUME NEW p \in Pattern, NEW t \in Seq(Characters), NEW strategy \in Strategy, ~Found(p, t)
    PROVE  Sub(p, t, strategy) = t
  <1> DEFINE r == Sub(p, t, strategy)
  <1>1. r \in Seq(Characters) /\ \E src, off : Origin(src, off, r, p, t, strategy)
    BY OriginExists
  <1>2. PICK src, off : Origin(src, off, r, p, t, strategy)
    BY <1>1
  <1> HIDE DEF r
  <1>3. \A k \in 1 .. Len(r) : src[k] \in DOMAIN t
    <2>1. DOMAIN t = 1 .. Len(t)
      BY LenProperties
    <2> QED
      BY <1>2, <2>1 DEF Origin
  <1>4. \A k \in 1 .. Len(r) : Kept(src, p, t, k)
    BY <1>3 DEF Found, Kept
  <1>5. r = t
    BY <1>1, <1>2, <1>4, AllKept
  <1> QED
    BY <1>5 DEF r

LEMMA FoundMarks ==
    ASSUME NEW p \in Pattern, NEW t \in Seq(Characters), NEW strategy \in Strategy, Found(p, t)
    PROVE  HasMark(Sub(p, t, strategy))
  <1> DEFINE r == Sub(p, t, strategy)
  <1>1. r \in Seq(Characters) /\ \E src, off : Origin(src, off, r, p, t, strategy)
    BY OriginExists
  <1>2. PICK src, off : Origin(src, off, r, p, t, strategy)
    BY <1>1
  <1> HIDE DEF r
  <1>3. Len(r) \in Nat /\ DOMAIN r = 1 .. Len(r)
    BY <1>1, LenProperties
  <1>4. PICK m \in 1 .. Len(r) : ~Kept(src, p, t, m)
    BY <1>1, <1>2, AllKept
  <1>5. 1 \in 1 .. Len(r) /\ Len(r) \in 1 .. Len(r)
    BY <1>3
  <1>6. PICK k \in 1 .. Len(r) : ~Kept(src, p, t, k) /\ (k = 1 \/ off[k] = 1)
    BY <1>1, <1>2, <1>4, <1>5, FirstReplaced
  <1>7. off[1] = 1
    <2>1. Len(r) >= 1
      BY <1>5
    <2> QED
      BY <1>2, <2>1 DEF Origin
  <1>8. off[k] = 1
    BY <1>6, <1>7
  <1>9. CASE strategy = "full"
    <2>1. Replacement(p, t, strategy, src[k]) = <<"#">>
      BY <1>6, <1>9, FullMask DEF Kept
    <2>2. r[k] = <<"#">>[1]
      BY <1>2, <1>8, <2>1 DEF Origin
    <2> QED
      BY <1>3, <2>2 DEF HasMark, Mark, r
  <1>10. CASE strategy = "partial" /\ p = "email"
    <2>1. k + 1 \in 1 .. Len(r) /\ r[k + 1] = "*"
      BY <1>1, <1>2, <1>6, <1>8, <1>10, AddressMaskStart DEF Opens
    <2> QED
      BY <1>3, <2>1 DEF HasMark, Mark, r
  <1>11. CASE strategy = "partial" /\ p # "email"
    <2>1. p \in {"ssn", "credit_card"}
      BY <1>11, PatternCases
    <2>2. r[k] = "*"
      BY <1>1, <1>2, <1>6, <1>8, <1>11, <2>1, NumberMaskIs
    <2> QED
      BY <1>3, <2>2 DEF HasMark, Mark, r
  <1> QED
    BY <1>9, <1>10, <1>11 DEF Strategy

LEMMA MarksStay ==
    ASSUME NEW p \in Pattern, NEW t \in Seq(Characters), NEW strategy \in Strategy, HasMark(t)
    PROVE  HasMark(Sub(p, t, strategy))
  BY NothingFound, FoundMarks

\* What every text without marks becomes.
LEMMA EverythingMasked ==
    ASSUME NEW t \in Seq(Characters), ~HasMark(t)
    PROVE  MasksAll(t)
  <1>0. "email" \in Pattern /\ "ssn" \in Pattern /\ "credit_card" \in Pattern
    BY DEF Pattern
  <1>1. ASSUME NEW strategy \in Strategy
        PROVE  LET result == RedactPii(t, strategy)
                   left == {p \in Pattern : Found(p, result.redacted_text)}
                   kept == IF Chained(t) THEN {"credit_card", "email"} ELSE {"credit_card"}
               IN  /\ left \subseteq IF strategy = "full" THEN {} ELSE kept
                   /\ result.categories_found = {} <=> result.redacted_text = t
    <2> DEFINE t1 == Sub("email", t, strategy)
               t2 == Sub("ssn", t1, strategy)
               t3 == Sub("credit_card", t2, strategy)
               found == (IF Found("email", t) THEN {"email"} ELSE {})
                        \cup (IF Found("ssn", t1) THEN {"ssn"} ELSE {})
                        \cup (IF Found("credit_card", t2) THEN {"credit_card"} ELSE {})
    <2>1. RedactPii(t, strategy).redacted_text = t3 /\ RedactPii(t, strategy).categories_found = found
      BY DEF RedactPii
    <2>2. t1 \in Seq(Characters)
      BY <1>0, OriginExists
    <2> HIDE DEF t1
    <2>3. t2 \in Seq(Characters)
      BY <1>0, <2>2, OriginExists
    <2> HIDE DEF t2
    <2>4. strategy = "full" => ~Found("email", t3) /\ ~Found("ssn", t3) /\ ~Found("credit_card", t3)
      <3> SUFFICES ASSUME strategy = "full"
                   PROVE  ~Found("email", t3) /\ ~Found("ssn", t3) /\ ~Found("credit_card", t3)
        OBVIOUS
      <3>1. ~Found("email", t1)
        BY <1>0, FullSub DEF t1
      <3>2. ~Found("email", t2) /\ ~Found("ssn", t2)
        BY <1>0, <2>2, <3>1, FullSub DEF t2
      <3> QED
        BY <1>0, <2>3, <3>2, FullSub
    <2>5. strategy = "partial" => ~Found("ssn", t3) /\ (Found("email", t3) => Chained(t))
      <3> SUFFICES ASSUME strategy = "partial"
                   PROVE  ~Found("ssn", t3) /\ (Found("email", t3) => Chained(t))
        OBVIOUS
      <3>1. Found("email", t1) => Chained(t)
        BY OwnAddresses DEF t1
      <3>2. ~Found("ssn", t2) /\ (Found("email", t2) => Found("email", t1))
        BY <2>2, PartialNumbers, PartialAddresses DEF t2
      <3>3. /\ Found("ssn", t3) => Found("ssn", t2)
            /\ Found("email", t3) => Found("email", t2)
        BY <2>3, PartialNumbers, PartialAddresses
      <3> QED
        BY <3>1, <3>2, <3>3
    <2>6. found = {} <=> t3 = t
      <3>1. CASE Found("email", t) \/ Found("ssn", t1) \/ Found("credit_card", t2)
        <4>1. found # {}
          BY <3>1
        <4>2. HasMark(t3)
          <5>1. Found("email", t) => HasMark(t1)
            BY <1>0, FoundMarks DEF t1
          <5>2. HasMark(t1) \/ Found("ssn", t1) => HasMark(t2)
            BY <1>0, <2>2, FoundMarks, MarksStay DEF t2
          <5>3. HasMark(t2) \/ Found("credit_card", t2) => HasMark(t3)
            BY <1>0, <2>3, FoundMarks, MarksStay
          <5> QED
            BY <3>1, <5>1, <5>2, <5>3
        <4> HIDE DEF found, t3
        <4> QED
          BY <4>1, <4>2
      <3>2. CASE ~Found("email", t) /\ ~Found("ssn", t1) /\ ~Found("credit_card", t2)
        <4>1. found = {}
          BY <3>2
        <4>2. t1 = t
          BY <1>0, <3>2, NothingFound DEF t1
        <4>3. t2 = t1
          BY <1>0, <2>2, <3>2, NothingFound DEF t2
        <4>4. t3 = t2
          BY <1>0, <2>3, <3>2, NothingFound
        <4> HIDE DEF found, t3
        <4> QED
          BY <4>1, <4>2, <4>3, <4>4
      <3> QED
        BY <3>1, <3>2
    <2> HIDE DEF found, t3
    <2> DEFINE left == {p \in Pattern : Found(p, t3)}
               kept == IF Chained(t) THEN {"credit_card", "email"} ELSE {"credit_card"}
    <2>7. left \subseteq IF strategy = "full" THEN {} ELSE kept
      <3>1. CASE strategy = "full"
        BY <2>4, <3>1, PatternCases
      <3>2. CASE strategy = "partial"
        <4>1. \A p \in left : p = "credit_card" \/ (p = "email" /\ Chained(t))
          BY <2>5, <3>2, PatternCases
        <4>2. strategy # "full"
          BY <3>2
        <4> HIDE DEF left
        <4> QED
          BY <4>1, <4>2
      <3> QED
        BY <3>1, <3>2 DEF Strategy
    <2> QED
      BY <2>1, <2>6, <2>7
  <1> QED
    BY <1>1 DEF MasksAll, Strategy

\* What a description grows by is free of marks.
LEMMA DescriptionText ==
    ASSUME NEW words \in Seq(Words)
    PROVE  Text(words) \in Seq(Characters) /\ ~HasMark(Text(words))
  <1>1. Words \in SUBSET Seq(MatchCharacter)
    <2>1. <<"@", "x", ".", "x", "x">> \in Seq(MatchCharacter)
      BY DEF MatchCharacter
    <2>2. <<"d", "-", "d", "d">> \in Seq(MatchCharacter)
      BY DEF MatchCharacter
    <2>3. \A c \in MatchCharacter : <<c>> \in Seq(MatchCharacter)
      OBVIOUS
    <2>4. Words = {<<c>> : c \in MatchCharacter}
                  \cup {<<"@", "x", ".", "x", "x">>, <<"d", "-", "d", "d">>}
      BY DEF Words, MatchCharacter
    <2> QED
      BY <2>1, <2>2, <2>3, <2>4
  <1> DEFINE S == {w \in Seq(Words) : w \in Seq(Seq(MatchCharacter))}
  <1>2. <<>> \in S
    BY EmptySeq
  <1>3. ASSUME NEW w \in Seq(Words), NEW x \in Words, w \in S PROVE Append(w, x) \in S
    <2>1. x \in Seq(MatchCharacter)
      BY <1>1
    <2> QED
      BY <1>3, <2>1, AppendProperties
  <1> HIDE DEF S
  <1>4. words \in S
    BY <1>2, <1>3, GrowsToAll
  <1>5. Text(words) \in Seq(MatchCharacter)
    <2>1. words \in Seq(Seq(MatchCharacter)) /\ <<>> \in Seq(MatchCharacter)
      BY <1>4, EmptySeq DEF S
    <2> QED
      BY <2>1, FlattenAppend DEF Text
  <1> DEFINE text == Text(words)
  <1>6. \A k \in 1 .. Len(text) : text[k] \in MatchCharacter
    <2> HIDE DEF text
    <2> QED
      BY <1>5, ElementOfSeq DEF text
  <1>7. DOMAIN text = 1 .. Len(text) /\ Len(text) \in Nat /\ text = [k \in 1 .. Len(text) |-> text[k]]
    <2>1. text \in Seq(MatchCharacter)
      BY <1>5
    <2> HIDE DEF text
    <2> QED
      BY <2>1, LenProperties
  <1> HIDE DEF text
  <1>8. \A k \in 1 .. Len(text) : text[k] \in Characters /\ text[k] \notin Mark
    BY <1>6 DEF MatchCharacter, Characters, Mark
  <1>9. text \in Seq(Characters)
    <2>1. text \in [1 .. Len(text) -> Characters]
      BY <1>7, <1>8
    <2> QED
      BY <1>7, <2>1, SeqDef
  <1> QED
    BY <1>7, <1>8, <1>9 DEF HasMark, text

(* Whatever description is redacted: full masking leaves nothing behind that   *)
(* a pattern knows; partial masking leaves no social security number, and an   *)
(* address only if one was directly before another "@"; and the text stays as  *)
(* it was exactly if nothing was found in it (redact_pii of                    *)
(* app/vault/pii_redaction.py).                                                *)
THEOREM DescriptionsMasked == Spec => []PiiMasked
  <1> DEFINE WordsTyped == job = "description" => input \in Seq(Words)
  <1>1. Init => WordsTyped
    BY EmptySeq DEF Init
  <1>2. WordsTyped /\ [Next]_vars => WordsTyped'
    <2> SUFFICES ASSUME WordsTyped, [Next]_vars, job' = "description" PROVE input' \in Seq(Words)
      OBVIOUS
    <2>1. job = "description" /\ input \in Seq(Words)
      BY DEF Next, Logs, Grow, vars
    <2>2. CASE Grow
      <3>1. PICK piece \in Pieces : input' = Append(input, piece)
        BY <2>2 DEF Grow
      <3>2. Pieces = Words
        BY <2>1 DEF Pieces
      <3> QED
        BY <2>1, <3>1, <3>2, AppendProperties
    <2>3. CASE UNCHANGED input
      BY <2>1, <2>3
    <2> QED
      BY <2>2, <2>3 DEF Next, Logs, vars
  <1>3. WordsTyped => PiiMasked
    BY DescriptionText, EverythingMasked DEF PiiMasked
  <1> QED
    BY <1>1, <1>2, <1>3, PTL DEF Spec

-----------------------------------------------------------------------------

(* Flattening two lists one after the other, and what occurs in it. *)

LEMMA FlattenType ==
    ASSUME NEW X, NEW s \in Seq(Seq(X))
    PROVE  FlattenSeq(s) \in Seq(X)
  <1>1. <<>> \in Seq(X)
    OBVIOUS
  <1>2. QED
    BY <1>1, FlattenAppend

LEMMA FlattenConcat ==
    ASSUME NEW X, NEW a \in Seq(Seq(X)), NEW b \in Seq(Seq(X))
    PROVE  FlattenSeq(a \o b) = FlattenSeq(a) \o FlattenSeq(b)
  <1>  DEFINE Y == Seq(X)
              S == {s \in Seq(Y) : FlattenSeq(a \o s) = FlattenSeq(a) \o FlattenSeq(s)}
  <1>1. <<>> \in S
    <2>1. <<>> \in Seq(Y) /\ a \o <<>> = a
      OBVIOUS
    <2>2. FlattenSeq(a) \o <<>> = FlattenSeq(a)
      BY FlattenType
    <2>3. QED
      BY <2>1, <2>2, FlattenNone
  <1>2. ASSUME NEW s \in Seq(Y), NEW e \in Y, s \in S
        PROVE  Append(s, e) \in S
    <2>1. a \o s \in Seq(Y) /\ a \o Append(s, e) = Append(a \o s, e)
      OBVIOUS
    <2>2. /\ FlattenSeq(a \o s) \in Seq(X)
          /\ FlattenSeq(Append(a \o s, e)) = FlattenSeq(a \o s) \o e
      BY <2>1, FlattenAppend
    <2>3. FlattenSeq(s) \in Seq(X) /\ FlattenSeq(Append(s, e)) = FlattenSeq(s) \o e
      BY FlattenAppend
    <2>4. FlattenSeq(a) \in Seq(X)
      BY FlattenType
    <2>5. (FlattenSeq(a) \o FlattenSeq(s)) \o e = FlattenSeq(a) \o (FlattenSeq(s) \o e)
      BY <2>3, <2>4
    <2>6. Append(s, e) \in Seq(Y)
      OBVIOUS
    <2>7. FlattenSeq(a \o s) = FlattenSeq(a) \o FlattenSeq(s)
      BY <1>2
    <2>8. QED
      BY <2>1, <2>2, <2>3, <2>5, <2>6, <2>7
  <1>  HIDE DEF S, Y
  <1>3. \A s \in Seq(Y) : s \in S
    BY <1>1, <1>2, GrowsToAll
  <1>4. QED
    BY <1>3 DEF S, Y

LEMMA ConcatToSet ==
    ASSUME NEW X, NEW a \in Seq(X), NEW b \in Seq(X), NEW x
    PROVE  x \in ToSet(a \o b) <=> x \in ToSet(a) \/ x \in ToSet(b)
  <1>  DEFINE n == Len(a)
              m == Len(b)
              c == a \o b
              P == ToSet(a)
              Q == ToSet(b)
  <1>1. n \in Nat /\ m \in Nat /\ DOMAIN a = 1 .. n /\ DOMAIN b = 1 .. m /\ DOMAIN c = 1 .. (n + m)
    BY LenProperties, ConcatProperties
  <1>2. \A i \in 1 .. (n + m) : c[i] = IF i <= n THEN a[i] ELSE b[i - n]
    BY ConcatProperties
  <1>3. P = {a[i] : i \in 1 .. n} /\ Q = {b[i] : i \in 1 .. m} /\ ToSet(c) = {c[i] : i \in 1 .. (n + m)}
    BY <1>1 DEF ToSet
  <1>  HIDE DEF n, m, c, P, Q
  <1>4. ASSUME x \in P PROVE x \in ToSet(c)
    <2>1. PICK i \in 1 .. n : a[i] = x
      BY <1>3, <1>4
    <2>2. i \in 1 .. (n + m) /\ c[i] = x
      BY <1>1, <1>2, <2>1
    <2>3. QED
      BY <1>3, <2>2
  <1>5. ASSUME x \in Q PROVE x \in ToSet(c)
    <2>1. PICK i \in 1 .. m : b[i] = x
      BY <1>3, <1>5
    <2>  DEFINE l == n + i
    <2>2. l \in 1 .. (n + m) /\ ~(l <= n) /\ l - n = i
      BY <1>1
    <2>  HIDE DEF l
    <2>3. c[l] = x
      BY <1>2, <2>1, <2>2
    <2>4. QED
      BY <1>3, <2>2, <2>3
  <1>6. ASSUME x \in ToSet(c) PROVE x \in P \/ x \in Q
    <2>1. PICK i \in 1 .. (n + m) : c[i] = x
      BY <1>3, <1>6
    <2>2. CASE i <= n
      <3>1. i \in 1 .. n /\ a[i] = x
        BY <1>1, <1>2, <2>1, <2>2
      <3>2. QED
        BY <1>3, <3>1
    <2>3. CASE ~(i <= n)
      <3>  DEFINE l == i - n
      <3>1. l \in 1 .. m /\ b[l] = x
        BY <1>1, <1>2, <2>1, <2>3
      <3>  HIDE DEF l
      <3>2. QED
        BY <1>3, <3>1
    <2>4. QED
      BY <2>2, <2>3
  <1>7. QED
    BY <1>4, <1>5, <1>6 DEF P, Q, c

LEMMA FlattenRange ==
    ASSUME NEW X, NEW s \in Seq(Seq(X)), NEW x
    PROVE  x \in ToSet(FlattenSeq(s)) <=> \E i \in DOMAIN s : x \in ToSet(s[i])
  <1>  DEFINE Y == Seq(X)
              Within(r) == \E i \in DOMAIN r : x \in ToSet(r[i])
              S == {r \in Seq(Y) : x \in ToSet(FlattenSeq(r)) <=> Within(r)}
  <1>1. <<>> \in S
    <2>1. <<>> \in Seq(Y) /\ ~Within(<<>>) /\ x \notin ToSet(<<>>)
      BY DEF ToSet
    <2>2. QED
      BY <2>1, FlattenNone
  <1>2. ASSUME NEW r \in Seq(Y), NEW e \in Y, r \in S
        PROVE  Append(r, e) \in S
    <2>1. FlattenSeq(r) \in Seq(X) /\ FlattenSeq(Append(r, e)) = FlattenSeq(r) \o e
      BY FlattenAppend
    <2>2. x \in ToSet(FlattenSeq(r) \o e) <=> x \in ToSet(FlattenSeq(r)) \/ x \in ToSet(e)
      BY <2>1, ConcatToSet
    <2>3. Within(Append(r, e)) <=> Within(r) \/ x \in ToSet(e)
      <3>1. DOMAIN Append(r, e) = DOMAIN r \cup {Len(r) + 1}
        OBVIOUS
      <3>2. Append(r, e)[Len(r) + 1] = e /\ \A i \in DOMAIN r : Append(r, e)[i] = r[i]
        OBVIOUS
      <3>3. QED
        BY <3>1, <3>2, Zenon
    <2>4. Append(r, e) \in Seq(Y)
      OBVIOUS
    <2>5. x \in ToSet(FlattenSeq(r)) <=> Within(r)
      BY <1>2
    <2>  HIDE DEF Within
    <2>6. QED
      BY <2>1, <2>2, <2>3, <2>4, <2>5
  <1>  HIDE DEF S, Y
  <1>3. \A r \in Seq(Y) : r \in S
    BY <1>1, <1>2, GrowsToAll
  <1>4. QED
    BY <1>3 DEF S, Y, Within

-----------------------------------------------------------------------------

(* Extraction: the indicators of two pieces of data one after the other. *)

Bytes == {"nul", "space", "u", "k"}

RunEnds(c, t, i) == {j \in i .. Len(t) : \A k \in i .. j : t[k] = c}

RunAt(c, t, i) ==
    IF Cardinality(RunEnds(c, t, i)) >= IndicatorLength /\ (i = 1 \/ t[i - 1] # c)
    THEN <<SubSeq(t, i, Max(RunEnds(c, t, i)))>> ELSE <<>>

RunsOf(c, t) == [i \in DOMAIN t |-> RunAt(c, t, i)]

LEMMA FindAllIs == \A c, t : FindAll(c, t) = FlattenSeq(RunsOf(c, t))
  <1>1. QED
    BY DEF FindAll, RunsOf, RunAt, RunEnds

\* No run of c goes on from the one into the other.
Apart(c, u, v) == u # <<>> /\ v # <<>> => u[Len(u)] # c \/ v[1] # c

LEMMA RunEndsFront ==
    ASSUME NEW c, NEW u \in Seq(Bytes), NEW v \in Seq(Bytes), Apart(c, u, v), NEW i \in 1 .. Len(u)
    PROVE  RunEnds(c, u \o v, i) = RunEnds(c, u, i)
  <1>  DEFINE m == Len(u)
              n == Len(v)
              w == u \o v
  <1>1. m \in Nat /\ n \in Nat /\ Len(w) = m + n /\ i \in 1 .. m
    BY LenProperties, ConcatProperties
  <1>2. \A k \in 1 .. (m + n) : w[k] = IF k <= m THEN u[k] ELSE v[k - m]
    BY ConcatProperties
  <1>3. u # <<>> /\ (n >= 1 => v # <<>>)
    BY EmptySeq
  <1>4. n >= 1 => u[m] # c \/ v[1] # c
    BY <1>3 DEF Apart
  <1>  HIDE DEF m, n, w
  <1>5. \A k \in 1 .. m : w[k] = u[k]
    BY <1>1, <1>2
  <1>6. n >= 1 => w[m] = u[m] /\ w[m + 1] = v[1]
    <2>  DEFINE l == m + 1
    <2>1. n >= 1 => l \in 1 .. (m + n) /\ ~(l <= m) /\ l - m = 1
      BY <1>1
    <2>2. m \in 1 .. m
      BY <1>1
    <2>  HIDE DEF l
    <2>3. n >= 1 => w[l] = v[1]
      BY <1>2, <2>1
    <2>4. QED
      BY <1>5, <2>2, <2>3 DEF l
  <1>7. ASSUME NEW j \in i .. (m + n), \A k \in i .. j : w[k] = c
        PROVE  j <= m
    <2>1. SUFFICES ASSUME m + 1 <= j PROVE FALSE
      BY <1>1
    <2>2. m \in i .. j /\ m + 1 \in i .. j /\ n >= 1
      BY <1>1, <2>1
    <2>3. w[m] = c /\ w[m + 1] = c
      BY <1>7, <2>2
    <2>4. QED
      BY <1>4, <1>6, <2>2, <2>3
  <1>8. ASSUME NEW j \in i .. m
        PROVE  (\A k \in i .. j : w[k] = c) <=> (\A k \in i .. j : u[k] = c)
    <2>1. \A k \in i .. j : k \in 1 .. m
      BY <1>1
    <2>2. QED
      BY <1>5, <2>1
  <1>9. \A j : j \in RunEnds(c, w, i) <=> j \in RunEnds(c, u, i)
    <2>1. \A j : j \in i .. m => j \in i .. (m + n)
      BY <1>1
    <2>2. \A j : j \in i .. (m + n) /\ j <= m => j \in i .. m
      BY <1>1
    <2>3. Len(u) = m /\ Len(w) = m + n
      BY <1>1 DEF m
    <2>4. QED
      BY <1>7, <1>8, <2>1, <2>2, <2>3 DEF RunEnds
  <1>10. QED
    BY <1>9 DEF w

\* D holds what E does, each m further on.
Moved(D, E, m) == \A l : l \in D <=> \E j \in E : l = m + j

LEMMA RunEndsBack ==
    ASSUME NEW c, NEW u \in Seq(Bytes), NEW v \in Seq(Bytes), NEW i \in 1 .. Len(v)
    PROVE  Moved(RunEnds(c, u \o v, Len(u) + i), RunEnds(c, v, i), Len(u))
  <1>  DEFINE m == Len(u)
              n == Len(v)
              w == u \o v
  <1>1. m \in Nat /\ n \in Nat /\ Len(w) = m + n /\ i \in 1 .. n
    BY LenProperties, ConcatProperties
  <1>2. \A k \in 1 .. (m + n) : w[k] = IF k <= m THEN u[k] ELSE v[k - m]
    BY ConcatProperties
  <1>3. Len(v) = n
    OBVIOUS
  <1>  HIDE DEF m, n, w
  <1>4. ASSUME NEW k \in 1 .. n PROVE w[m + k] = v[k]
    <2>  DEFINE l == m + k
    <2>1. l \in 1 .. (m + n) /\ ~(l <= m) /\ l - m = k
      BY <1>1
    <2>  HIDE DEF l
    <2>2. w[l] = v[k]
      BY <1>2, <2>1
    <2>3. QED
      BY <2>2 DEF l
  <1>5. ASSUME NEW j \in i .. n
        PROVE  (\A k \in (m + i) .. (m + j) : w[k] = c) <=> (\A k \in i .. j : v[k] = c)
    <2>1. ASSUME \A k \in (m + i) .. (m + j) : w[k] = c, NEW k \in i .. j PROVE v[k] = c
      <3>1. m + k \in (m + i) .. (m + j) /\ k \in 1 .. n
        BY <1>1
      <3>2. QED
        BY <1>4, <2>1, <3>1
    <2>2. ASSUME \A k \in i .. j : v[k] = c, NEW k \in (m + i) .. (m + j) PROVE w[k] = c
      <3>  DEFINE l == k - m
      <3>1. l \in i .. j /\ l \in 1 .. n /\ m + l = k
        BY <1>1
      <3>  HIDE DEF l
      <3>2. w[m + l] = v[l] /\ v[l] = c
        BY <1>4, <2>2, <3>1
      <3>3. QED
        BY <3>1, <3>2
    <2>3. QED
      BY <2>1, <2>2
  <1>6. ASSUME NEW j \in RunEnds(c, v, i) PROVE m + j \in RunEnds(c, w, m + i)
    <2>1. j \in i .. n /\ \A k \in i .. j : v[k] = c
      BY <1>3 DEF RunEnds
    <2>2. m + j \in (m + i) .. (m + n)
      BY <1>1, <2>1
    <2>3. \A k \in (m + i) .. (m + j) : w[k] = c
      BY <1>5, <2>1
    <2>4. QED
      BY <1>1, <2>2, <2>3 DEF RunEnds
  <1>7. ASSUME NEW l \in RunEnds(c, w, m + i) PROVE \E j \in RunEnds(c, v, i) : l = m + j
    <2>  DEFINE j == l - m
    <2>1. l \in (m + i) .. (m + n) /\ \A k \in (m + i) .. l : w[k] = c
      BY <1>1 DEF RunEnds
    <2>2. j \in i .. n /\ m + j = l
      BY <1>1, <2>1
    <2>  HIDE DEF j
    <2>3. \A k \in i .. j : v[k] = c
      BY <1>5, <2>1, <2>2
    <2>4. j \in RunEnds(c, v, i)
      BY <1>3, <2>2, <2>3 DEF RunEnds
    <2>5. QED
      BY <2>2, <2>4
  <1>8. \A l : l \in RunEnds(c, w, m + i) <=> \E j \in RunEnds(c, v, i) : l = m + j
    BY <1>6, <1>7
  <1>9. QED
    BY <1>8 DEF w, m, Moved

LEMMA RunEndsFinite ==
    ASSUME NEW c, NEW t \in Seq(Bytes), NEW i \in 1 .. Len(t)
    PROVE  /\ RunEnds(c, t, i) \in SUBSET (i .. Len(t))
           /\ IsFiniteSet(RunEnds(c, t, i)) /\ Cardinality(RunEnds(c, t, i)) \in Nat
           /\ Cardinality(RunEnds(c, t, i)) >= IndicatorLength => RunEnds(c, t, i) # {}
  <1>1. Len(t) \in Nat /\ i \in Int
    BY LenProperties
  <1>2. RunEnds(c, t, i) \in SUBSET (i .. Len(t))
    BY DEF RunEnds
  <1>3. IsFiniteSet(i .. Len(t))
    BY <1>1, FS_Interval
  <1>4. IsFiniteSet(RunEnds(c, t, i))
    BY <1>2, <1>3, FS_Subset
  <1>5. Cardinality(RunEnds(c, t, i)) \in Nat
    BY <1>4, FS_CardinalityType
  <1>6. Cardinality(RunEnds(c, t, i)) >= IndicatorLength => RunEnds(c, t, i) # {}
    <2>1. RunEnds(c, t, i) = {} => Cardinality(RunEnds(c, t, i)) = 0
      BY FS_EmptySet
    <2>2. IndicatorLength \in Nat \ {0}
      BY StringExtractorAssumption
    <2>3. QED
      BY <2>1, <2>2
  <1>7. QED
    BY <1>2, <1>4, <1>5, <1>6

LEMMA MaxShift ==
    ASSUME NEW m \in Nat, NEW n \in Nat, NEW S \in SUBSET (1 .. n), S # {},
           NEW S1, \A l : l \in S1 <=> \E j \in S : l = m + j
    PROVE  Max(S1) = m + Max(S)
  <1>1. Max(S) \in S /\ \A j \in S : j <= Max(S)
    BY MaxOf
  <1>2. S1 \in SUBSET (1 .. (m + n)) /\ S1 # {}
    <2>1. \A l \in S1 : l \in 1 .. (m + n)
      OBVIOUS
    <2>2. PICK j \in S : TRUE
      OBVIOUS
    <2>3. m + j \in S1
      BY <2>2
    <2>4. QED
      BY <2>1, <2>3
  <1>3. Max(S1) \in S1 /\ \A l \in S1 : l <= Max(S1)
    <2>1. m + n \in Nat
      OBVIOUS
    <2>2. QED
      BY <1>2, <2>1, MaxOf
  <1>  DEFINE a == Max(S)
              b == Max(S1)
  <1>  HIDE DEF a, b
  <1>4. a \in S /\ (\A j \in S : j <= a) /\ b \in S1 /\ (\A l \in S1 : l <= b)
    BY <1>1, <1>3 DEF a, b
  <1>5. PICK j \in S : b = m + j
    BY <1>4
  <1>6. m + a \in S1 /\ m + a <= b /\ j <= a
    BY <1>4, <1>5
  <1>7. b = m + a
    BY <1>4, <1>5, <1>6
  <1>8. QED
    BY <1>7 DEF a, b

\* Of a text that is part of another the same is read there.
LEMMA SamePart ==
    ASSUME NEW t \in Seq(Bytes), NEW w \in Seq(Bytes), NEW d \in Nat, NEW a \in 1 .. Len(t),
           NEW b \in a .. Len(t), d + Len(t) <= Len(w), \A k \in 1 .. Len(t) : w[d + k] = t[k]
    PROVE  SubSeq(w, d + a, d + b) = SubSeq(t, a, b)
  <1>  DEFINE n == Len(t)
              z == Len(w)
              x == SubSeq(w, d + a, d + b)
              y == SubSeq(t, a, b)
              l == b - a + 1
  <1>1. n \in Nat /\ z \in Nat /\ d + n <= z
    BY LenProperties
  <1>2. \A k \in 1 .. n : t[k] \in Bytes /\ w[d + k] = t[k]
    BY ElementOfSeq
  <1>3. y \in Seq(Bytes) /\ Len(y) = l /\ \A k \in 1 .. l : y[k] = t[a + k - 1]
    <2>1. a \in Int /\ b \in Int /\ a <= b /\ \A k \in a .. b : t[k] \in Bytes
      BY <1>1, <1>2
    <2>2. QED
      BY <2>1, SubSeqProperties
  <1>4. x \in Seq(Bytes) /\ Len(x) = l /\ \A k \in 1 .. l : x[k] = w[d + a + k - 1]
    <2>1. \A k \in (d + a) .. (d + b) : k \in 1 .. z
      BY <1>1
    <2>2. \A k \in 1 .. z : w[k] \in Bytes
      BY ElementOfSeq
    <2>3. d + a \in Int /\ d + b \in Int /\ d + a <= d + b /\ \A k \in (d + a) .. (d + b) : w[k] \in Bytes
      BY <1>1, <2>1, <2>2
    <2>4. /\ x \in Seq(Bytes)
          /\ Len(x) = (d + b) - (d + a) + 1
          /\ \A k \in 1 .. ((d + b) - (d + a) + 1) : x[k] = w[(d + a) + k - 1]
      BY <2>3, SubSeqProperties
    <2>5. (d + b) - (d + a) + 1 = l /\ \A k \in 1 .. l : (d + a) + k - 1 = d + a + k - 1
      BY <1>1
    <2>  HIDE DEF x, l
    <2>6. QED
      BY <2>4, <2>5
  <1>5. l \in Nat
    BY <1>1
  <1>6. ASSUME NEW k \in 1 .. l PROVE x[k] = y[k]
    <2>  DEFINE q == a + k - 1
    <2>1. q \in 1 .. n /\ d + a + k - 1 = d + q
      BY <1>1
    <2>  HIDE DEF q
    <2>2. w[d + q] = t[q]
      BY <1>2, <2>1
    <2>3. x[k] = w[d + a + k - 1] /\ y[k] = t[q]
      BY <1>3, <1>4 DEF q
    <2>4. QED
      BY <2>1, <2>2, <2>3
  <1>  HIDE DEF x, y, l
  <1>7. x = y
    <2>1. DOMAIN x = 1 .. l /\ DOMAIN y = 1 .. l
      BY <1>3, <1>4, LenProperties
    <2>2. x = [k \in DOMAIN x |-> x[k]] /\ y = [k \in DOMAIN y |-> y[k]]
      BY <1>3, <1>4, LenProperties
    <2>3. QED
      BY <1>6, <2>1, <2>2
  <1>8. QED
    BY <1>7 DEF x, y

LEMMA RunAtFront ==
    ASSUME NEW c, NEW u \in Seq(Bytes), NEW v \in Seq(Bytes), Apart(c, u, v), NEW i \in 1 .. Len(u)
    PROVE  RunAt(c, u \o v, i) = RunAt(c, u, i)
  <1>  DEFINE w == u \o v
              E == RunEnds(c, u, i)
              m == Len(u)
  <1>1. m \in Nat /\ Len(v) \in Nat /\ w \in Seq(Bytes) /\ Len(w) = m + Len(v)
    BY LenProperties, ConcatProperties
  <1>2. \A k \in 1 .. m : w[k] = u[k]
    <2>1. \A k \in 1 .. (m + Len(v)) : w[k] = IF k <= m THEN u[k] ELSE v[k - m]
      BY ConcatProperties
    <2>2. QED
      BY <1>1, <2>1
  <1>3. RunEnds(c, w, i) = E
    BY RunEndsFront
  <1>4. /\ E \in SUBSET (i .. m) /\ (Cardinality(E) >= IndicatorLength => E # {})
    BY RunEndsFinite
  <1>5. i # 1 => w[i - 1] = u[i - 1]
    BY <1>1, <1>2
  <1>6. Cardinality(E) >= IndicatorLength => SubSeq(w, i, Max(E)) = SubSeq(u, i, Max(E))
    <2>1. SUFFICES ASSUME E # {} PROVE SubSeq(w, i, Max(E)) = SubSeq(u, i, Max(E))
      BY <1>4
    <2>2. E \in SUBSET (1 .. m)
      BY <1>1, <1>4
    <2>3. Max(E) \in E
      BY <1>1, <2>1, <2>2, MaxOf
    <2>  DEFINE b == Max(E)
                d == 0
    <2>4. b \in i .. m /\ d \in Nat /\ d + Len(u) <= Len(w)
      BY <1>1, <1>4, <2>3
    <2>5. \A k \in 1 .. Len(u) : w[d + k] = u[k]
      BY <1>1, <1>2
    <2>  HIDE DEF b, d, w, E
    <2>6. SubSeq(w, d + i, d + b) = SubSeq(u, i, b)
      BY <1>1, <2>4, <2>5, SamePart
    <2>7. d + i = i /\ d + b = b
      BY <1>1, <2>4 DEF d
    <2>8. QED
      BY <2>6, <2>7 DEF b
  <1>  HIDE DEF w, E, m
  <1>7. RunAt(c, w, i) = RunAt(c, u, i)
    BY <1>3, <1>5, <1>6 DEF RunAt, E
  <1>8. QED
    BY <1>7 DEF w

LEMMA RunAtBack ==
    ASSUME NEW c, NEW u \in Seq(Bytes), NEW v \in Seq(Bytes), Apart(c, u, v), NEW i \in 1 .. Len(v)
    PROVE  RunAt(c, u \o v, Len(u) + i) = RunAt(c, v, i)
  <1>0. Moved(RunEnds(c, u \o v, Len(u) + i), RunEnds(c, v, i), Len(u))
    BY RunEndsBack
  <1>  DEFINE w == u \o v
              m == Len(u)
              n == Len(v)
              E == RunEnds(c, v, i)
              D == RunEnds(c, w, m + i)
  <1>1. m \in Nat /\ n \in Nat /\ w \in Seq(Bytes) /\ Len(w) = m + n /\ i \in 1 .. n
    BY LenProperties, ConcatProperties
  <1>2. \A k \in 1 .. (m + n) : w[k] = IF k <= m THEN u[k] ELSE v[k - m]
    BY ConcatProperties
  <1>3. \A l : l \in D <=> \E j \in E : l = m + j
    BY <1>0 DEF Moved
  <1>4. /\ E \in SUBSET (i .. n) /\ IsFiniteSet(E) /\ (Cardinality(E) >= IndicatorLength => E # {})
    BY RunEndsFinite
  <1>5. u # <<>> <=> m # 0
    BY <1>1, EmptySeq
  <1>6. m # 0 => u[m] # c \/ v[1] # c
    BY <1>1, <1>5, EmptySeq DEF Apart
  <1>7. E # {} => v[i] = c
    BY <1>1, <1>4 DEF RunEnds
  <1>  HIDE DEF w, E, D, m, n
  <1>8. \A k \in 1 .. n : w[m + k] = v[k]
    <2>1. TAKE k \in 1 .. n
    <2>  DEFINE l == m + k
    <2>2. l \in 1 .. (m + n) /\ ~(l <= m) /\ l - m = k
      BY <1>1
    <2>  HIDE DEF l
    <2>3. w[l] = v[k]
      BY <1>2, <2>2
    <2>4. QED
      BY <2>3 DEF l
  <1>9. Cardinality(D) = Cardinality(E)
    <2>  DEFINE f == [j \in E |-> m + j]
    <2>1. \A x, y \in E : f[x] = f[y] => x = y
      BY <1>1, <1>4
    <2>2. D = {f[j] : j \in E}
      BY <1>3
    <2>3. DOMAIN f = E
      OBVIOUS
    <2>  HIDE DEF f
    <2>4. IsFiniteSet(E)
      BY <1>4
    <2>5. Cardinality({f[j] : j \in E}) = Cardinality(E)
      BY <2>1, <2>3, <2>4, SameSize
    <2>6. QED
      BY <2>2, <2>5
  <1>10. Cardinality(E) >= IndicatorLength =>
            ((m + i = 1 \/ w[m + i - 1] # c) <=> (i = 1 \/ v[i - 1] # c))
    <2>1. SUFFICES ASSUME E # {} PROVE (m + i = 1 \/ w[m + i - 1] # c) <=> (i = 1 \/ v[i - 1] # c)
      BY <1>4
    <2>2. CASE i = 1
      <3>1. m + i - 1 = m
        BY <1>1, <2>2
      <3>2. v[1] = c
        BY <1>7, <2>1, <2>2
      <3>3. m # 0 => w[m] = u[m]
        <4>1. m # 0 => m \in 1 .. (m + n) /\ m <= m
          BY <1>1
        <4>2. QED
          BY <1>2, <4>1
      <3>4. m = 0 => m + i = 1
        BY <1>1, <2>2
      <3>5. QED
        BY <1>6, <2>2, <3>1, <3>2, <3>3, <3>4
    <2>3. CASE i # 1
      <3>  DEFINE k == i - 1
      <3>1. k \in 1 .. n /\ m + i - 1 = m + k /\ m + i # 1
        BY <1>1, <2>3
      <3>  HIDE DEF k
      <3>2. w[m + k] = v[k]
        BY <1>8, <3>1
      <3>3. w[m + i - 1] = v[i - 1]
        BY <3>1, <3>2 DEF k
      <3>4. QED
        BY <2>3, <3>1, <3>3
    <2>4. QED
      BY <2>2, <2>3
  <1>11. Cardinality(E) >= IndicatorLength => SubSeq(w, m + i, Max(D)) = SubSeq(v, i, Max(E))
    <2>1. SUFFICES ASSUME E # {} PROVE SubSeq(w, m + i, Max(D)) = SubSeq(v, i, Max(E))
      BY <1>4
    <2>2. E \in SUBSET (1 .. n)
      BY <1>1, <1>4
    <2>3. Max(D) = m + Max(E)
      BY <1>1, <1>3, <2>1, <2>2, MaxShift
    <2>4. Max(E) \in E
      BY <1>1, <2>1, <2>2, MaxOf
    <2>  DEFINE b == Max(E)
    <2>5. b \in i .. Len(v) /\ i \in 1 .. Len(v)
      BY <1>1, <1>4, <2>4 DEF n
    <2>9. m + Len(v) <= Len(w)
      BY <1>1 DEF n
    <2>6. \A k \in 1 .. Len(v) : w[m + k] = v[k]
      BY <1>8 DEF n
    <2>  HIDE DEF b
    <2>7. SubSeq(w, m + i, m + b) = SubSeq(v, i, b)
      BY <1>1, <2>5, <2>6, <2>9, SamePart
    <2>8. QED
      BY <2>3, <2>7 DEF b
  <1>12. RunAt(c, w, m + i) = RunAt(c, v, i)
    <2>0. PICK z : z = m + i
      OBVIOUS
    <2>1. RunAt(c, v, i) = IF Cardinality(E) >= IndicatorLength /\ (i = 1 \/ v[i - 1] # c)
                           THEN <<SubSeq(v, i, Max(E))>> ELSE <<>>
      BY DEF RunAt, E
    <2>2. RunAt(c, w, z) = IF Cardinality(D) >= IndicatorLength /\ (z = 1 \/ w[z - 1] # c)
                           THEN <<SubSeq(w, z, Max(D))>> ELSE <<>>
      <3>1. D = RunEnds(c, w, z)
        BY <2>0 DEF D
      <3>2. QED
        BY <3>1 DEF RunAt
    <2>3. Cardinality(E) >= IndicatorLength => ((z = 1 \/ w[z - 1] # c) <=> (i = 1 \/ v[i - 1] # c))
      <3>1. z - 1 = m + i - 1
        BY <1>1, <2>0
      <3>2. w[z - 1] = w[m + i - 1]
        BY <3>1
      <3>3. QED
        BY <1>1, <1>10, <2>0, <3>2
    <2>4. Cardinality(E) >= IndicatorLength => SubSeq(w, z, Max(D)) = SubSeq(v, i, Max(E))
      BY <1>11, <2>0
    <2>5. RunAt(c, w, z) = RunAt(c, v, i)
      <3>1. CASE Cardinality(E) >= IndicatorLength
        <4>1. SubSeq(w, z, Max(D)) = SubSeq(v, i, Max(E))
          BY <2>4, <3>1
        <4>2. (z = 1 \/ w[z - 1] # c) <=> (i = 1 \/ v[i - 1] # c)
          BY <2>3, <3>1
        <4>3. CASE i = 1 \/ v[i - 1] # c
          <5>1. RunAt(c, v, i) = <<SubSeq(v, i, Max(E))>>
            BY <2>1, <3>1, <4>3
          <5>2. RunAt(c, w, z) = <<SubSeq(w, z, Max(D))>>
            BY <1>9, <2>2, <3>1, <4>2, <4>3
          <5>3. QED
            BY <4>1, <5>1, <5>2
        <4>4. CASE ~(i = 1 \/ v[i - 1] # c)
          <5>1. RunAt(c, v, i) = <<>>
            BY <2>1, <4>4
          <5>2. RunAt(c, w, z) = <<>>
            BY <2>2, <4>2, <4>4
          <5>3. QED
            BY <5>1, <5>2
        <4>5. QED
          BY <4>3, <4>4
      <3>2. CASE ~(Cardinality(E) >= IndicatorLength)
        BY <1>9, <2>1, <2>2, <3>2
      <3>3. QED
        BY <3>1, <3>2
    <2>6. QED
      BY <2>0, <2>5
  <1>13. QED
    BY <1>12 DEF w, m

LEMMA SingleToSet == ToSet(<<>>) = {} /\ \A e : ToSet(<<e>>) = {e}
  <1>1. ASSUME NEW e PROVE ToSet(<<e>>) = {e}
    <2>1. <<e>> \in Seq({e}) /\ Len(<<e>>) = 1 /\ <<e>>[1] = e
      OBVIOUS
    <2>2. DOMAIN <<e>> = 1 .. 1
      BY <2>1, LenProperties
    <2>3. \A i : i \in DOMAIN <<e>> <=> i = 1
      BY <2>2
    <2>4. QED
      BY <2>1, <2>3, Zenon DEF ToSet
  <1>2. QED
    BY <1>1 DEF ToSet

StretchesOf(S, t, i) == \A e \in S : \E b \in i .. Len(t) : e = SubSeq(t, i, b)

LEMMA RunAtType ==
    ASSUME NEW c, NEW t \in Seq(Bytes), NEW i \in 1 .. Len(t)
    PROVE  /\ RunAt(c, t, i) \in Seq(Seq(Bytes))
           /\ StretchesOf(ToSet(RunAt(c, t, i)), t, i)
  <1>  DEFINE E == RunEnds(c, t, i)
              b == Max(E)
              e == SubSeq(t, i, b)
  <1>1. Len(t) \in Nat /\ i \in 1 .. Len(t) /\ \A k \in 1 .. Len(t) : t[k] \in Bytes
    BY LenProperties, ElementOfSeq
  <1>2. E \in SUBSET (i .. Len(t)) /\ (Cardinality(E) >= IndicatorLength => E # {})
    BY RunEndsFinite
  <1>3. Cardinality(E) >= IndicatorLength => b \in i .. Len(t)
    <2>1. SUFFICES ASSUME E # {} PROVE Max(E) \in i .. Len(t)
      BY <1>2
    <2>2. E \in SUBSET (1 .. Len(t))
      BY <1>1, <1>2
    <2>3. Max(E) \in E
      BY <1>1, <2>1, <2>2, MaxOf
    <2>4. QED
      BY <1>2, <2>3
  <1>4. RunAt(c, t, i) = <<>> \/ (b \in i .. Len(t) /\ RunAt(c, t, i) = <<e>>)
    BY <1>3 DEF RunAt
  <1>5. b \in i .. Len(t) => e \in Seq(Bytes)
    <2>1. b \in i .. Len(t) => i \in Int /\ b \in Int /\ \A k \in i .. b : t[k] \in Bytes
      BY <1>1
    <2>2. QED
      BY <2>1, SubSeqProperties
  <1>6. ToSet(<<>>) = {} /\ ToSet(<<e>>) = {e}
    BY SingleToSet
  <1>7. <<>> \in Seq(Seq(Bytes)) /\ (e \in Seq(Bytes) => <<e>> \in Seq(Seq(Bytes)))
    OBVIOUS
  <1>8. CASE RunAt(c, t, i) = <<>>
    BY <1>6, <1>7, <1>8 DEF StretchesOf
  <1>9. CASE b \in i .. Len(t) /\ RunAt(c, t, i) = <<e>>
    <2>1. RunAt(c, t, i) \in Seq(Seq(Bytes))
      BY <1>5, <1>7, <1>9
    <2>2. \A d \in ToSet(RunAt(c, t, i)) : d = SubSeq(t, i, b)
      BY <1>6, <1>9
    <2>  HIDE DEF b, e
    <2>3. QED
      BY <1>9, <2>1, <2>2 DEF StretchesOf
  <1>10. QED
    BY <1>4, <1>8, <1>9

LEMMA RunsOfType ==
    ASSUME NEW c, NEW t \in Seq(Bytes)
    PROVE  /\ RunsOf(c, t) \in Seq(Seq(Seq(Bytes))) /\ Len(RunsOf(c, t)) = Len(t)
           /\ DOMAIN RunsOf(c, t) = 1 .. Len(t)
           /\ \A i \in 1 .. Len(t) : RunsOf(c, t)[i] = RunAt(c, t, i)
  <1>  DEFINE n == Len(t)
              Y == Seq(Seq(Bytes))
  <1>1. n \in Nat /\ DOMAIN t = 1 .. n
    BY LenProperties
  <1>2. \A i \in 1 .. n : RunAt(c, t, i) \in Y
    BY RunAtType
  <1>  HIDE DEF n, Y
  <1>3. RunsOf(c, t) \in [1 .. n -> Y]
    BY <1>1, <1>2 DEF RunsOf
  <1>4. RunsOf(c, t) \in Seq(Y) /\ Len(RunsOf(c, t)) = n
    BY <1>1, <1>3
  <1>5. \A i \in 1 .. n : RunsOf(c, t)[i] = RunAt(c, t, i)
    BY <1>1 DEF RunsOf
  <1>6. QED
    BY <1>3, <1>4, <1>5 DEF n, Y

LEMMA RunsConcat ==
    ASSUME NEW c, NEW u \in Seq(Bytes), NEW v \in Seq(Bytes), Apart(c, u, v)
    PROVE  RunsOf(c, u \o v) = RunsOf(c, u) \o RunsOf(c, v)
  <1>  DEFINE w == u \o v
              m == Len(u)
              n == Len(v)
              x == RunsOf(c, u)
              y == RunsOf(c, v)
              z == RunsOf(c, w)
              Y == Seq(Seq(Bytes))
  <1>1. m \in Nat /\ n \in Nat /\ w \in Seq(Bytes) /\ Len(w) = m + n
    BY LenProperties, ConcatProperties
  <1>2. x \in Seq(Y) /\ Len(x) = m /\ \A i \in 1 .. m : x[i] = RunAt(c, u, i)
    BY RunsOfType
  <1>3. y \in Seq(Y) /\ Len(y) = n /\ \A i \in 1 .. n : y[i] = RunAt(c, v, i)
    BY RunsOfType
  <1>4. z \in Seq(Y) /\ DOMAIN z = 1 .. (m + n) /\ \A i \in 1 .. (m + n) : z[i] = RunAt(c, w, i)
    <2>  HIDE DEF w
    <2>1. z \in Seq(Y) /\ DOMAIN z = 1 .. Len(w) /\ \A i \in 1 .. Len(w) : z[i] = RunAt(c, w, i)
      BY <1>1, RunsOfType
    <2>2. QED
      BY <1>1, <2>1
  <1>5. \A i \in 1 .. m : RunAt(c, w, i) = RunAt(c, u, i)
    BY RunAtFront
  <1>6. \A i \in 1 .. n : RunAt(c, w, m + i) = RunAt(c, v, i)
    BY RunAtBack
  <1>  HIDE DEF w, m, n, x, y, z, Y
  <1>7. /\ x \o y \in Seq(Y) /\ Len(x \o y) = m + n
        /\ \A i \in 1 .. (m + n) : (x \o y)[i] = IF i <= m THEN x[i] ELSE y[i - m]
    BY <1>2, <1>3, ConcatProperties
  <1>8. ASSUME NEW i \in 1 .. (m + n) PROVE z[i] = (x \o y)[i]
    <2>1. CASE i <= m
      BY <1>1, <1>2, <1>4, <1>5, <1>7, <2>1
    <2>2. CASE ~(i <= m)
      <3>  DEFINE k == i - m
      <3>1. k \in 1 .. n /\ m + k = i
        BY <1>1, <2>2
      <3>2. (x \o y)[i] = y[k]
        BY <1>7, <2>2
      <3>  HIDE DEF k
      <3>3. RunAt(c, w, m + k) = RunAt(c, v, k) /\ y[k] = RunAt(c, v, k)
        BY <1>3, <1>6, <3>1
      <3>4. QED
        BY <1>4, <3>1, <3>2, <3>3
    <2>3. QED
      BY <2>1, <2>2
  <1>9. DOMAIN (x \o y) = 1 .. (m + n)
    BY <1>7, LenProperties
  <1>10. z = x \o y
    <2>1. z = [i \in DOMAIN z |-> z[i]] /\ x \o y = [i \in DOMAIN (x \o y) |-> (x \o y)[i]]
      BY <1>4, <1>7, LenProperties
    <2>2. QED
      BY <1>4, <1>8, <1>9, <2>1
  <1>11. QED
    BY <1>10 DEF w, x, y, z

LEMMA FindAllConcat ==
    ASSUME NEW c, NEW u \in Seq(Bytes), NEW v \in Seq(Bytes), Apart(c, u, v)
    PROVE  FindAll(c, u \o v) = FindAll(c, u) \o FindAll(c, v)
  <1>1. RunsOf(c, u) \in Seq(Seq(Seq(Bytes))) /\ RunsOf(c, v) \in Seq(Seq(Seq(Bytes)))
    BY RunsOfType
  <1>2. FlattenSeq(RunsOf(c, u) \o RunsOf(c, v)) = FlattenSeq(RunsOf(c, u)) \o FlattenSeq(RunsOf(c, v))
    BY <1>1, FlattenConcat
  <1>3. QED
    BY <1>2, RunsConcat, FindAllIs

LEMMA FindAllType ==
    ASSUME NEW c, NEW t \in Seq(Bytes)
    PROVE  FindAll(c, t) \in Seq(Seq(Bytes))
  <1>1. RunsOf(c, t) \in Seq(Seq(Seq(Bytes)))
    BY RunsOfType
  <1>2. QED
    BY <1>1, FlattenType, FindAllIs

\* What is found stands in the text.
LEMMA FoundThere ==
    ASSUME NEW c, NEW t \in Seq(Bytes), NEW e \in ToSet(FindAll(c, t))
    PROVE  \E i \in 1 .. Len(t) : \E b \in i .. Len(t) : e = SubSeq(t, i, b)
  <1>1. RunsOf(c, t) \in Seq(Seq(Seq(Bytes))) /\ DOMAIN RunsOf(c, t) = 1 .. Len(t)
    BY RunsOfType
  <1>2. e \in ToSet(FlattenSeq(RunsOf(c, t)))
    BY FindAllIs
  <1>3. \E i \in DOMAIN RunsOf(c, t) : e \in ToSet(RunsOf(c, t)[i])
    BY <1>1, <1>2, FlattenRange
  <1>4. PICK i \in 1 .. Len(t) : e \in ToSet(RunsOf(c, t)[i])
    BY <1>1, <1>3
  <1>5. e \in ToSet(RunAt(c, t, i))
    <2>1. RunsOf(c, t)[i] = RunAt(c, t, i)
      BY <1>4, RunsOfType
    <2>2. QED
      BY <1>4, <2>1
  <1>6. StretchesOf(ToSet(RunAt(c, t, i)), t, i)
    BY RunAtType
  <1>7. QED
    BY <1>5, <1>6 DEF StretchesOf

\* Nothing is found where no run is long enough.
LEMMA NothingToFind ==
    ASSUME NEW c, NEW t \in Seq(Bytes),
           \A i \in 1 .. Len(t) : ~(Cardinality(RunEnds(c, t, i)) >= IndicatorLength)
    PROVE  FindAll(c, t) = <<>>
  <1>1. RunsOf(c, t) \in Seq(Seq(Seq(Bytes))) /\ DOMAIN RunsOf(c, t) = 1 .. Len(t)
    BY RunsOfType
  <1>2. \A i \in 1 .. Len(t) : RunsOf(c, t)[i] = <<>>
    <2>1. \A i \in 1 .. Len(t) : RunAt(c, t, i) = <<>>
      BY DEF RunAt
    <2>2. QED
      BY <2>1, RunsOfType
  <1>3. ToSet(<<>>) = {}
    BY DEF ToSet
  <1>4. \A x : x \notin ToSet(FlattenSeq(RunsOf(c, t)))
    <2>1. TAKE x
    <2>2. x \in ToSet(FlattenSeq(RunsOf(c, t))) <=> \E i \in DOMAIN RunsOf(c, t) : x \in ToSet(RunsOf(c, t)[i])
      BY <1>1, FlattenRange
    <2>3. QED
      BY <1>1, <1>2, <1>3, <2>2
  <1>  DEFINE found == FindAll(c, t)
  <1>5. found \in Seq(Seq(Bytes)) /\ \A x : x \notin ToSet(found)
    BY <1>4, FindAllType, FindAllIs
  <1>  HIDE DEF found
  <1>6. SUFFICES ASSUME found # <<>> PROVE FALSE
    BY DEF found
  <1>7. Len(found) \in Nat \ {0} /\ DOMAIN found = 1 .. Len(found)
    BY <1>5, <1>6, EmptySeq, LenProperties
  <1>8. found[1] \in ToSet(found)
    BY <1>7 DEF ToSet
  <1>9. QED
    BY <1>5, <1>8

LEMMA FindAllShort ==
    ASSUME NEW c, NEW t \in Seq(Bytes), Len(t) < IndicatorLength
    PROVE  FindAll(c, t) = <<>>
  <1>1. ASSUME NEW i \in 1 .. Len(t) PROVE ~(Cardinality(RunEnds(c, t, i)) >= IndicatorLength)
    <2>1. Len(t) \in Nat /\ IndicatorLength \in Nat
      BY LenProperties, StringExtractorAssumption
    <2>2. RunEnds(c, t, i) \in SUBSET (1 .. Len(t)) /\ Cardinality(RunEnds(c, t, i)) \in Nat
      BY <2>1, RunEndsFinite
    <2>3. IsFiniteSet(1 .. Len(t)) /\ Cardinality(1 .. Len(t)) = Len(t)
      <3>1. PICK n \in Nat : n = Len(t)
        BY <2>1
      <3>2. IsFiniteSet(1 .. n) /\ Cardinality(1 .. n) = IF 1 > n THEN 0 ELSE n - 1 + 1
        BY FS_Interval
      <3>3. QED
        BY <3>1, <3>2
    <2>4. Cardinality(RunEnds(c, t, i)) <= Cardinality(1 .. Len(t))
      <3>1. PICK S, T : S = RunEnds(c, t, i) /\ T = 1 .. Len(t)
        OBVIOUS
      <3>2. IsFiniteSet(T) /\ S \in SUBSET T
        BY <2>2, <2>3, <3>1
      <3>3. Cardinality(S) <= Cardinality(T)
        BY <3>2, FS_Subset
      <3>4. QED
        BY <3>1, <3>3
    <2>5. QED
      BY <2>1, <2>2, <2>3, <2>4
  <1>2. QED
    BY <1>1, NothingToFind

LEMMA FindAllOther ==
    ASSUME NEW c, NEW x \in Bytes, x # c
    PROVE  FindAll(c, <<x>>) = <<>>
  <1>  DEFINE t == <<x>>
  <1>1. t \in Seq(Bytes) /\ Len(t) = 1 /\ t[1] = x
    OBVIOUS
  <1>  HIDE DEF t
  <1>2. ASSUME NEW i \in 1 .. Len(t) PROVE ~(Cardinality(RunEnds(c, t, i)) >= IndicatorLength)
    <2>1. i = 1 /\ t[i] # c
      BY <1>1
    <2>2. RunEnds(c, t, i) = {}
      BY <1>1, <2>1 DEF RunEnds
    <2>3. Cardinality(RunEnds(c, t, i)) = 0 /\ IndicatorLength \in Nat \ {0}
      BY <2>2, FS_EmptySet, StringExtractorAssumption
    <2>4. QED
      BY <2>3
  <1>3. FindAll(c, t) = <<>>
    BY <1>1, <1>2, NothingToFind
  <1>4. QED
    BY <1>3 DEF t

-----------------------------------------------------------------------------

(* Extraction: the pass over the data. *)

Scans == [run : Seq(Bytes), found : Seq(Seq(Bytes))]

\* The state of the pass after each byte.
Scanning(run, data) ==
    /\ run[0] = [run |-> <<>>, found |-> <<>>]
    /\ \A k \in 0 .. (Len(data) - 1) : run[k + 1] = ScanByte(run[k], data[k + 1])

LEMMA ScanByteType ==
    ASSUME NEW s \in Scans, NEW byte \in Bytes
    PROVE  Flush(s) \in Seq(Seq(Bytes)) /\ ScanByte(s, byte) \in Scans
  <1>1. s.run \in Seq(Bytes) /\ s.found \in Seq(Seq(Bytes)) /\ <<>> \in Seq(Bytes)
    BY EmptySeq DEF Scans
  <1>2. Flush(s) \in Seq(Seq(Bytes))
    BY <1>1, AppendProperties DEF Flush
  <1>3. [run |-> <<>>, found |-> Flush(s)] \in Scans
    BY <1>1, <1>2 DEF Scans
  <1>4. Append(s.run, byte) \in Seq(Bytes)
    BY <1>1, AppendProperties
  <1>5. [s EXCEPT !.run = Append(@, byte)] \in Scans
    BY <1>4 DEF Scans
  <1>6. QED
    BY <1>2, <1>3, <1>5 DEF ScanByte

LEMMA ScanRuns ==
    ASSUME NEW data \in Seq(Bytes)
    PROVE  \E run : Scanning(run, data) /\ run[Len(data)] = Scan(data)
  <1>  DEFINE n == Len(data)
              start == [run |-> <<>>, found |-> <<>>]
              pick == [t \in SUBSET (1 .. n) |-> Max(t)]
              step == [p \in (1 .. n) \X Scans |-> ScanByte(p[2], data[p[1]])]
              IsScan(f) ==
                  f = [t \in SUBSET (DOMAIN data) |->
                          IF t = {} THEN start ELSE ScanByte(f[t \ {Max(t)}], data[Max(t)])]
  <1>1. /\ n \in Nat /\ DOMAIN data = 1 .. n
        /\ \A k \in 1 .. n : data[k] \in Bytes
    OBVIOUS
  <1>2. step \in [(1 .. n) \X Scans -> Scans]
    <2>1. ASSUME NEW p \in (1 .. n) \X Scans PROVE ScanByte(p[2], data[p[1]]) \in Scans
      <3>1. p[1] \in 1 .. n /\ p[2] \in Scans
        BY <2>1
      <3>2. data[p[1]] \in Bytes
        BY <1>1, <3>1
      <3>3. QED
        BY <3>1, <3>2, ScanByteType
    <2>2. QED
      BY <2>1
  <1>3. \A t \in SUBSET (1 .. n) : t # {} => pick[t] \in t
    BY <1>1, MaxOf
  <1>4. \E fold \in [SUBSET (1 .. n) -> Scans] : IsFold(fold, 1 .. n, pick, start, step)
    <2>1. IsFiniteSet(1 .. n)
      <3>  HIDE DEF n
      <3>1. 1 \in Int /\ n \in Int
        BY <1>1
      <3>2. QED
        BY <3>1, FS_Interval
    <2>2. start \in Scans
      BY EmptySeq DEF Scans
    <2>  HIDE DEF pick, step, start
    <2>3. QED
      BY <1>2, <1>3, <2>1, <2>2, FoldExists
  <1>5. PICK fold \in [SUBSET (1 .. n) -> Scans] : IsFold(fold, 1 .. n, pick, start, step)
    BY <1>4
  <1>6. IsScan(fold)
    <2>1. ASSUME NEW t \in SUBSET (1 .. n), t # {}
          PROVE  fold[t] = ScanByte(fold[t \ {Max(t)}], data[Max(t)])
      <3>1. Max(t) \in 1 .. n /\ t \ {Max(t)} \in SUBSET (1 .. n)
        BY <1>1, <2>1, MaxOf
      <3>2. fold[t \ {Max(t)}] \in Scans
        BY <3>1
      <3>3. fold[t] = step[<<Max(t), fold[t \ {Max(t)}]>>]
        BY <1>5, <2>1 DEF IsFold
      <3>4. QED
        BY <3>1, <3>2, <3>3
    <2>2. fold[{}] = start
      BY <1>5 DEF IsFold
    <2>3. QED
      BY <1>1, <2>1, <2>2
  <1>  DEFINE it == CHOOSE f : IsScan(f)
  <1>7. IsScan(it)
    BY <1>6
  <1>8. Scan(data) = it[DOMAIN data]
    BY DEF Scan, FoldLeft, MapThenFoldSet
  <1>  HIDE DEF it
  <1>9. \A t \in SUBSET (1 .. n) : it[t] = IF t = {} THEN start ELSE ScanByte(it[t \ {Max(t)}], data[Max(t)])
    BY <1>1, <1>7
  <1>  DEFINE run == [k \in 0 .. n |-> it[1 .. k]]
  <1>10. run[0] = start
    <2>1. 1 .. 0 = {} /\ {} \in SUBSET (1 .. n) /\ 0 \in 0 .. n
      BY <1>1
    <2>  HIDE DEF start
    <2>2. it[{}] = start
      BY <1>9, <2>1
    <2>3. QED
      BY <2>1, <2>2
  <1>11. ASSUME NEW k \in 0 .. (n - 1) PROVE run[k + 1] = ScanByte(run[k], data[k + 1])
    <2>  HIDE DEF start
    <2>1. it[1 .. (k + 1)] = ScanByte(it[1 .. k], data[k + 1])
      BY <1>1, <1>9, UpTo
    <2>2. run[k + 1] = it[1 .. (k + 1)] /\ run[k] = it[1 .. k]
      BY <1>1
    <2>3. QED
      BY <2>1, <2>2
  <1>12. run[n] = Scan(data)
    BY <1>1, <1>8
  <1>13. Scanning(run, data)
    <2>  HIDE DEF run
    <2>1. QED
      BY <1>10, <1>11 DEF Scanning
  <1>14. QED
    BY <1>12, <1>13

\* The two laws of the pass.
LEMMA ScanNone == Scan(<<>>) = [run |-> <<>>, found |-> <<>>]
  <1>1. PICK run : Scanning(run, <<>>) /\ run[Len(<<>>)] = Scan(<<>>)
    <2>1. <<>> \in Seq(Bytes)
      BY EmptySeq
    <2>2. QED
      BY <2>1, ScanRuns
  <1>2. run[0] = [run |-> <<>>, found |-> <<>>] /\ Len(<<>>) = 0
    BY <1>1 DEF Scanning
  <1>3. QED
    BY <1>1, <1>2

LEMMA ScanAppend ==
    ASSUME NEW data \in Seq(Bytes), NEW byte \in Bytes
    PROVE  Scan(Append(data, byte)) = ScanByte(Scan(data), byte)
  <1>  DEFINE more == Append(data, byte)
              n == Len(data)
  <1>1. /\ more \in Seq(Bytes) /\ n \in Nat /\ Len(more) = n + 1
        /\ \A k \in 1 .. n : more[k] = data[k]
        /\ more[n + 1] = byte
    BY AppendProperties, LenProperties
  <1>  HIDE DEF more, n
  <1>2. PICK run : Scanning(run, data) /\ run[n] = Scan(data)
    BY ScanRuns DEF n
  <1>3. PICK next : Scanning(next, more) /\ next[n + 1] = Scan(more)
    BY <1>1, ScanRuns
  <1>4. /\ run[0] = next[0]
        /\ \A k \in Nat : k < n => /\ run[k + 1] = ScanByte(run[k], data[k + 1])
                                 /\ next[k + 1] = ScanByte(next[k], data[k + 1])
        /\ next[n + 1] = ScanByte(next[n], byte)
    BY <1>1, <1>2, <1>3 DEF Scanning, n
  <1>  DEFINE S == {k \in Nat : k <= n => run[k] = next[k]}
  <1>5. 0 \in S
    BY <1>4
  <1>6. \A k \in Nat : k \in S => k + 1 \in S
    BY <1>1, <1>4
  <1>  HIDE DEF S
  <1>7. \A k \in Nat : k \in S
    BY <1>5, <1>6, AllNaturals
  <1>8. run[n] = next[n]
    BY <1>1, <1>7 DEF S
  <1>9. QED
    BY <1>2, <1>3, <1>4, <1>8 DEF more

-----------------------------------------------------------------------------

(* Extraction: the extracted strings hold the indicators of the data. *)

Founds(c, strings) == [i \in DOMAIN strings |-> FindAll(c, strings[i])]

LEMMA FoundsType ==
    ASSUME NEW c, NEW strings \in Seq(Seq(Bytes))
    PROVE  /\ Founds(c, strings) \in Seq(Seq(Seq(Bytes)))
           /\ DOMAIN Founds(c, strings) = 1 .. Len(strings) /\ Len(Founds(c, strings)) = Len(strings)
           /\ \A i \in 1 .. Len(strings) : Founds(c, strings)[i] = FindAll(c, strings[i])
  <1>  DEFINE n == Len(strings)
              Y == Seq(Seq(Bytes))
  <1>1. n \in Nat /\ DOMAIN strings = 1 .. n /\ \A i \in 1 .. n : strings[i] \in Seq(Bytes)
    BY LenProperties, ElementOfSeq
  <1>2. \A i \in 1 .. n : FindAll(c, strings[i]) \in Y
    BY <1>1, FindAllType
  <1>  HIDE DEF n, Y
  <1>3. Founds(c, strings) \in [1 .. n -> Y] /\ \A i \in 1 .. n : Founds(c, strings)[i] = FindAll(c, strings[i])
    BY <1>1, <1>2 DEF Founds
  <1>4. Founds(c, strings) \in Seq(Y) /\ Len(Founds(c, strings)) = n
    BY <1>1, <1>3
  <1>5. QED
    BY <1>3, <1>4 DEF n, Y

LEMMA FoundsAppend ==
    ASSUME NEW c, NEW strings \in Seq(Seq(Bytes)), NEW e \in Seq(Bytes)
    PROVE  Founds(c, Append(strings, e)) = Append(Founds(c, strings), FindAll(c, e))
  <1>  DEFINE n == Len(strings)
              more == Append(strings, e)
              x == Founds(c, more)
              y == Append(Founds(c, strings), FindAll(c, e))
              Y == Seq(Seq(Bytes))
  <1>1. /\ n \in Nat /\ more \in Seq(Seq(Bytes)) /\ Len(more) = n + 1
        /\ more[n + 1] = e /\ \A i \in 1 .. n : more[i] = strings[i]
    BY AppendProperties, LenProperties
  <1>2. x \in Seq(Y) /\ Len(x) = n + 1 /\ \A i \in 1 .. (n + 1) : x[i] = FindAll(c, more[i])
    <2>  HIDE DEF more
    <2>1. x \in Seq(Y) /\ Len(x) = Len(more) /\ \A i \in 1 .. Len(more) : x[i] = FindAll(c, more[i])
      BY <1>1, FoundsType
    <2>2. QED
      BY <1>1, <2>1
  <1>3. /\ Founds(c, strings) \in Seq(Y) /\ Len(Founds(c, strings)) = n
        /\ \A i \in 1 .. n : Founds(c, strings)[i] = FindAll(c, strings[i])
    BY FoundsType
  <1>4. FindAll(c, e) \in Y
    BY FindAllType
  <1>5. /\ y \in Seq(Y) /\ Len(y) = n + 1 /\ y[n + 1] = FindAll(c, e)
        /\ \A i \in 1 .. n : y[i] = FindAll(c, strings[i])
    <2>  DEFINE f == Founds(c, strings)
                a == FindAll(c, e)
    <2>1. f \in Seq(Y) /\ Len(f) = n /\ a \in Y /\ \A i \in 1 .. n : f[i] = FindAll(c, strings[i])
      BY <1>3, <1>4
    <2>  HIDE DEF f, a, Y
    <2>2. /\ Append(f, a) \in Seq(Y) /\ Len(Append(f, a)) = n + 1 /\ Append(f, a)[n + 1] = a
          /\ \A i \in 1 .. n : Append(f, a)[i] = f[i]
      BY <2>1, AppendProperties
    <2>3. QED
      BY <2>1, <2>2 DEF f, a
  <1>  HIDE DEF x, y, more, n, Y
  <1>6. ASSUME NEW i \in 1 .. (n + 1) PROVE x[i] = y[i]
    <2>1. i \in 1 .. n \/ i = n + 1
      BY <1>1
    <2>2. QED
      BY <1>1, <1>2, <1>5, <2>1
  <1>7. x = y
    <2>1. DOMAIN x = 1 .. (n + 1) /\ DOMAIN y = 1 .. (n + 1)
      BY <1>2, <1>5, LenProperties
    <2>2. x = [k \in DOMAIN x |-> x[k]] /\ y = [k \in DOMAIN y |-> y[k]]
      BY <1>2, <1>5, LenProperties
    <2>3. QED
      BY <1>6, <2>1, <2>2
  <1>8. QED
    BY <1>7 DEF x, y, more

\* What is kept of a run are its indicators: one too short to be kept has none.
LEMMA FlushFinds ==
    ASSUME NEW c, NEW s \in Scans, MIN_STRING_LENGTH <= IndicatorLength
    PROVE  FlattenSeq(Founds(c, Flush(s))) = FlattenSeq(Founds(c, s.found)) \o FindAll(c, s.run)
  <1>  DEFINE f == Founds(c, s.found)
              a == FindAll(c, s.run)
  <1>1. s.run \in Seq(Bytes) /\ s.found \in Seq(Seq(Bytes)) /\ Len(s.run) \in Nat
    BY LenProperties DEF Scans
  <1>2. f \in Seq(Seq(Seq(Bytes))) /\ a \in Seq(Seq(Bytes))
    BY <1>1, FoundsType, FindAllType
  <1>3. CASE Len(s.run) >= MIN_STRING_LENGTH
    <2>1. Flush(s) = Append(s.found, s.run)
      BY <1>3 DEF Flush
    <2>2. Founds(c, Flush(s)) = Append(f, a)
      BY <1>1, <2>1, FoundsAppend
    <2>  HIDE DEF f, a
    <2>3. FlattenSeq(Append(f, a)) = FlattenSeq(f) \o a
      BY <1>2, FlattenAppend
    <2>4. QED
      BY <2>2, <2>3 DEF f, a
  <1>4. CASE ~(Len(s.run) >= MIN_STRING_LENGTH)
    <2>1. Flush(s) = s.found
      BY <1>4 DEF Flush
    <2>2. Len(s.run) < IndicatorLength
      BY <1>1, <1>4, StringExtractorAssumption
    <2>3. a = <<>>
      BY <1>1, <2>2, FindAllShort
    <2>4. FlattenSeq(f) \in Seq(Seq(Bytes))
      BY <1>2, FlattenType
    <2>5. FlattenSeq(f) \o <<>> = FlattenSeq(f)
      BY <2>4, ConcatEmptySeq
    <2>6. QED
      BY <2>1, <2>3, <2>5
  <1>5. QED
    BY <1>3, <1>4

\* What lies behind the pass: its indicators are those of the strings found so far.
Passed(c, s, data) ==
    \E q \in Seq(Bytes) :
        /\ data = q \o s.run
        /\ q # <<>> => q[Len(q)] = "nul"
        /\ FlattenSeq(Founds(c, s.found)) = FindAll(c, q)

LEMMA PassedNone ==
    ASSUME NEW c PROVE Passed(c, [run |-> <<>>, found |-> <<>>], <<>>)
  <1>1. <<>> \in Seq(Bytes) /\ Len(<<>>) = 0 /\ <<>> \o <<>> = <<>>
    OBVIOUS
  <1>2. FindAll(c, <<>>) = <<>>
    <2>1. \A i \in 1 .. Len(<<>>) : ~(Cardinality(RunEnds(c, <<>>, i)) >= IndicatorLength)
      BY <1>1
    <2>2. QED
      BY <1>1, <2>1, NothingToFind
  <1>3. Founds(c, <<>>) = <<>>
    BY DEF Founds
  <1>4. QED
    BY <1>1, <1>2, <1>3, FlattenNone DEF Passed

\* At the end of a run, or of the data.
LEMMA RunEnded ==
    ASSUME NEW c \in {"u", "k"}, NEW s \in Scans, NEW data \in Seq(Bytes), Passed(c, s, data),
           MIN_STRING_LENGTH <= IndicatorLength
    PROVE  FlattenSeq(Founds(c, Flush(s))) = FindAll(c, data)
  <1>1. PICK q \in Seq(Bytes) : /\ data = q \o s.run
                                /\ q # <<>> => q[Len(q)] = "nul"
                                /\ FlattenSeq(Founds(c, s.found)) = FindAll(c, q)
    BY DEF Passed
  <1>2. s.run \in Seq(Bytes)
    BY DEF Scans
  <1>3. Apart(c, q, s.run)
    BY <1>1 DEF Apart
  <1>4. FindAll(c, q \o s.run) = FindAll(c, q) \o FindAll(c, s.run)
    BY <1>2, <1>3, FindAllConcat
  <1>5. QED
    BY <1>1, <1>4, FlushFinds

LEMMA PassedByte ==
    ASSUME NEW c \in {"u", "k"}, NEW s \in Scans, NEW data \in Seq(Bytes), Passed(c, s, data),
           MIN_STRING_LENGTH <= IndicatorLength, NEW byte \in Bytes
    PROVE  Passed(c, ScanByte(s, byte), Append(data, byte))
  <1>1. s.run \in Seq(Bytes) /\ s.found \in Seq(Seq(Bytes))
    BY DEF Scans
  <1>2. CASE byte # "nul"
    <2>1. PICK q \in Seq(Bytes) : /\ data = q \o s.run
                                  /\ q # <<>> => q[Len(q)] = "nul"
                                  /\ FlattenSeq(Founds(c, s.found)) = FindAll(c, q)
      BY DEF Passed
    <2>  DEFINE s1 == ScanByte(s, byte)
    <2>2. s1.run = Append(s.run, byte) /\ s1.found = s.found
      <3>1. s1 = [s EXCEPT !.run = Append(s.run, byte)]
        BY <1>2 DEF ScanByte
      <3>2. s = [run |-> s.run, found |-> s.found]
        BY DEF Scans
      <3>3. QED
        BY <3>1, <3>2
    <2>3. Append(q \o s.run, byte) = q \o Append(s.run, byte)
      <3>1. PICK r \in Seq(Bytes) : r = s.run
        BY <1>1
      <3>2. Append(q \o r, byte) = q \o Append(r, byte)
        <4>1. <<byte>> \in Seq(Bytes) /\ q \o r \in Seq(Bytes)
          BY ConcatProperties
        <4>2. Append(q \o r, byte) = (q \o r) \o <<byte>> /\ Append(r, byte) = r \o <<byte>>
          BY <4>1, AppendIsConcat
        <4>3. (q \o r) \o <<byte>> = q \o (r \o <<byte>>)
          BY <4>1, ConcatAssociative
        <4>4. QED
          BY <4>2, <4>3
      <3>3. QED
        BY <3>1, <3>2
    <2>  HIDE DEF s1
    <2>4. Append(data, byte) = q \o s1.run
      BY <2>1, <2>2, <2>3
    <2>5. QED
      BY <2>1, <2>2, <2>4 DEF Passed, s1
  <1>3. CASE byte = "nul"
    <2>  DEFINE s1 == ScanByte(s, byte)
                q == Append(data, byte)
    <2>1. s1.run = <<>> /\ s1.found = Flush(s)
      BY <1>3 DEF ScanByte
    <2>2. /\ q \in Seq(Bytes) /\ q = data \o <<byte>> /\ q[Len(q)] = "nul" /\ q \o <<>> = q
      BY <1>3
    <2>3. <<byte>> \in Seq(Bytes) /\ <<byte>>[1] = byte
      OBVIOUS
    <2>4. Apart(c, data, <<byte>>)
      BY <1>3, <2>3 DEF Apart
    <2>5. FindAll(c, data \o <<byte>>) = FindAll(c, data) \o FindAll(c, <<byte>>)
      BY <2>3, <2>4, FindAllConcat
    <2>6. FindAll(c, <<byte>>) = <<>>
      BY <1>3, FindAllOther
    <2>7. FindAll(c, data) \o <<>> = FindAll(c, data)
      <3>1. FindAll(c, data) \in Seq(Seq(Bytes))
        BY FindAllType
      <3>2. QED
        BY <3>1, ConcatEmptySeq
    <2>8. FlattenSeq(Founds(c, Flush(s))) = FindAll(c, data)
      BY RunEnded
    <2>  HIDE DEF s1, q
    <2>9. FlattenSeq(Founds(c, s1.found)) = FindAll(c, q)
      BY <2>1, <2>2, <2>5, <2>6, <2>7, <2>8
    <2>10. q = q \o s1.run
      BY <2>1, <2>2
    <2>11. Passed(c, s1, q)
      BY <2>2, <2>9, <2>10 DEF Passed
    <2>12. QED
      BY <2>11 DEF s1, q
  <1>4. QED
    BY <1>2, <1>3

\* The indicators of the extracted strings are those of the data.
LEMMA ExtractedIndicators ==
    ASSUME NEW c \in {"u", "k"}, NEW data \in Seq(Bytes), MIN_STRING_LENGTH <= IndicatorLength
    PROVE  FilterIocs(ExtractStrings(data))[c] = FindAll(c, data)
  <1>  DEFINE S == {t \in Seq(Bytes) : Scan(t) \in Scans /\ Passed(c, Scan(t), t)}
  <1>1. <<>> \in S
    <2>1. <<>> \in Seq(Bytes) /\ [run |-> <<>>, found |-> <<>>] \in Scans
      BY EmptySeq DEF Scans
    <2>2. QED
      BY <2>1, ScanNone, PassedNone
  <1>2. ASSUME NEW t \in Seq(Bytes), NEW x \in Bytes, t \in S
        PROVE  Append(t, x) \in S
    <2>1. Append(t, x) \in Seq(Bytes) /\ Scan(Append(t, x)) = ScanByte(Scan(t), x)
      BY ScanAppend, AppendProperties
    <2>2. Scan(t) \in Scans /\ Passed(c, Scan(t), t)
      BY <1>2
    <2>3. ScanByte(Scan(t), x) \in Scans
      BY <2>2, ScanByteType
    <2>4. Passed(c, ScanByte(Scan(t), x), Append(t, x))
      BY <2>2, PassedByte
    <2>5. QED
      BY <2>1, <2>3, <2>4
  <1>  HIDE DEF S
  <1>3. \A t \in Seq(Bytes) : t \in S
    BY <1>1, <1>2, GrowsToAll
  <1>4. Scan(data) \in Scans /\ Passed(c, Scan(data), data)
    BY <1>3 DEF S
  <1>5. FlattenSeq(Founds(c, Flush(Scan(data)))) = FindAll(c, data)
    BY <1>4, RunEnded
  <1>6. FilterIocs(ExtractStrings(data))[c] = FlattenSeq(Founds(c, ExtractStrings(data)))
    BY DEF FilterIocs, Founds
  <1>7. QED
    BY <1>5, <1>6 DEF ExtractStrings

\* Indicators that were found fire the rule made of them.
LEMMA RuleFires ==
    ASSUME NEW data \in Seq(Bytes), NEW rule \in Seq(Seq(Bytes)),
           \A e \in ToSet(rule) : \E c \in {"u", "k"} : e \in ToSet(FindAll(c, data))
    PROVE  Fires(rule, data) <=> rule # <<>>
  <1>1. DOMAIN rule = 1 .. Len(rule) /\ (rule # <<>> => Len(rule) \in Nat \ {0})
    BY LenProperties, EmptySeq
  <1>2. DOMAIN data = 1 .. Len(data) /\ Len(data) \in Nat
    BY LenProperties
  <1>3. ASSUME Fires(rule, data) PROVE rule # <<>>
    <2>1. PICK i \in DOMAIN rule : TRUE
      BY <1>3 DEF Fires
    <2>2. QED
      BY <2>1
  <1>4. ASSUME rule # <<>> PROVE Fires(rule, data)
    <2>1. 1 \in DOMAIN rule /\ rule[1] \in ToSet(rule)
      <3>1. 1 \in DOMAIN rule
        BY <1>1, <1>4
      <3>2. QED
        BY <3>1, Zenon DEF ToSet
    <2>2. PICK c \in {"u", "k"} : rule[1] \in ToSet(FindAll(c, data))
      BY <2>1
    <2>3. PICK i \in 1 .. Len(data) : \E b \in i .. Len(data) : rule[1] = SubSeq(data, i, b)
      BY <2>2, FoundThere
    <2>4. PICK b \in i .. Len(data) : rule[1] = SubSeq(data, i, b)
      BY <2>3
    <2>5. Len(SubSeq(data, i, b)) = b - i + 1
      <3>1. i \in Int /\ b \in Int /\ i <= b /\ \A k \in i .. b : k \in 1 .. Len(data)
        BY <1>2
      <3>2. \A k \in i .. b : data[k] \in Bytes
        BY <3>1, ElementOfSeq
      <3>3. QED
        BY <3>1, <3>2, SubSeqProperties
    <2>6. i + Len(rule[1]) - 1 = b
      BY <1>2, <2>4, <2>5
    <2>7. i \in DOMAIN data /\ SubSeq(data, i, i + Len(rule[1]) - 1) = rule[1]
      BY <1>2, <2>4, <2>6
    <2>8. QED
      BY <2>1, <2>7 DEF Fires
  <1>5. QED
    BY <1>3, <1>4

LEMMA EveryIndicatorFound ==
    ASSUME NEW data \in Seq(Bytes)
    PROVE  FindsIndicators(data)
  <1>  DEFINE indicators == FilterIocs(ExtractStrings(data))
  <1>1. SUFFICES ASSUME MIN_STRING_LENGTH <= IndicatorLength
                 PROVE  /\ \A kind \in {"u", "k"} : indicators[kind] = FindAll(kind, data)
                        /\ \A known \in SUBSET {<<"u", "u">>, <<"k", "k">>} :
                              CrossReferenceIocs(indicators, known) =
                                  {ioc \in known : \E kind \in {"u", "k"} : ioc \in ToSet(FindAll(kind, data))}
                        /\ Fires(GenerateYaraRule(indicators), data) <=>
                              \E kind \in {"u", "k"} : FindAll(kind, data) # <<>>
    BY DEF FindsIndicators
  <1>2. \A kind \in {"u", "k"} : indicators[kind] = FindAll(kind, data)
    BY <1>1, ExtractedIndicators
  <1>  HIDE DEF indicators
  <1>  DEFINE U == FindAll("u", data)
              Q == FindAll("k", data)
              rule == U \o Q
  <1>3. indicators["u"] = U /\ indicators["k"] = Q /\ U \in Seq(Seq(Bytes)) /\ Q \in Seq(Seq(Bytes))
    BY <1>2, FindAllType
  <1>4. ASSUME NEW known \in SUBSET {<<"u", "u">>, <<"k", "k">>}
        PROVE  CrossReferenceIocs(indicators, known) =
                   {ioc \in known : \E kind \in {"u", "k"} : ioc \in ToSet(FindAll(kind, data))}
    <2>1. CrossReferenceIocs(indicators, known) = (ToSet(U) \cup ToSet(Q)) \cap known
      BY <1>3 DEF CrossReferenceIocs
    <2>2. \A ioc : (\E kind \in {"u", "k"} : ioc \in ToSet(FindAll(kind, data)))
                       <=> ioc \in ToSet(U) \/ ioc \in ToSet(Q)
      OBVIOUS
    <2>  HIDE DEF U, Q
    <2>3. QED
      BY <2>1, <2>2
  <1>5. GenerateYaraRule(indicators) = rule
    BY <1>3 DEF GenerateYaraRule
  <1>6. rule \in Seq(Seq(Bytes))
    BY <1>3, ConcatProperties
  <1>7. \A e \in ToSet(rule) : \E c \in {"u", "k"} : e \in ToSet(FindAll(c, data))
    <2>1. \A e : e \in ToSet(U \o Q) <=> e \in ToSet(U) \/ e \in ToSet(Q)
      BY <1>3, ConcatToSet
    <2>2. QED
      BY <2>1
  <1>8. Fires(rule, data) <=> rule # <<>>
    <2>  HIDE DEF rule
    <2>1. QED
      BY <1>6, <1>7, RuleFires
  <1>9. rule # <<>> <=> U # <<>> \/ Q # <<>>
    <2>  HIDE DEF U, Q
    <2>1. QED
      BY <1>3, ConcatEqualIffEmpty
  <1>10. Fires(GenerateYaraRule(indicators), data) <=> \E kind \in {"u", "k"} : FindAll(kind, data) # <<>>
    BY <1>5, <1>8, <1>9
  <1>11. QED
    BY <1>2, <1>4, <1>10

(* Whatever binary is analysed, if no indicator is shorter than a kept string: *)
(* the indicators of the extracted strings are those of the data, each as      *)
(* often and in the order in which it occurs, the known ones are matched, and  *)
(* the rule made of them fires on the data unless there are none               *)
(* (app/forensics/string_extractor.py).                                        *)
THEOREM EveryIndicatorReported == Spec => []IndicatorsFound
  <1>  DEFINE BytesTyped == job = "binary" => input \in Seq(Bytes)
  <1>1. Init => BytesTyped
    BY EmptySeq DEF Init
  <1>2. BytesTyped /\ [Next]_vars => BytesTyped'
    <2>  SUFFICES ASSUME BytesTyped, [Next]_vars, job' = "binary" PROVE input' \in Seq(Bytes)
      OBVIOUS
    <2>1. job = "binary" /\ input \in Seq(Bytes)
      BY DEF Next, Logs, Grow, vars
    <2>2. CASE Grow
      <3>1. PICK piece \in Pieces : input' = Append(input, piece)
        BY <2>2 DEF Grow
      <3>2. Pieces = Bytes
        BY <2>1 DEF Pieces, Bytes
      <3>3. QED
        BY <2>1, <3>1, <3>2, AppendProperties
    <2>3. CASE UNCHANGED input
      BY <2>1, <2>3
    <2>4. QED
      BY <2>2, <2>3 DEF Next, Logs, vars
  <1>3. BytesTyped => IndicatorsFound
    BY EveryIndicatorFound DEF IndicatorsFound
  <1>4. QED
    BY <1>1, <1>2, <1>3, PTL DEF Spec

-----------------------------------------------------------------------------

(* Scan: lists of findings. *)

Parsed == UNION {Nodes(0 .. k) : k \in Nat}

Severities == {"CRITICAL", "HIGH", "MEDIUM", "LOW"}
Findings == [rule_id : Rules, severity : Severities, line : Nat, position : Nat]

\* The findings report where the nodes of the tree in N break a rule, each once.
Sound(tree, findings, N) ==
    \A n \in 1 .. Len(findings) :
        /\ findings[n].line \in N /\ findings[n].rule_id \in Rules
        /\ findings[n].position \in Positions(tree[findings[n].line])
        /\ Meets(tree[findings[n].line], findings[n].rule_id, findings[n].position)
        /\ findings[n].severity = RuleSeverity[findings[n].rule_id]

\* A finding of rule r at position k of the node j.
Names(f, j, r, k) == f.line = j /\ f.rule_id = r /\ f.position = k

Complete(tree, findings, N) ==
    \A j \in N, r \in Rules : \A k \in Positions(tree[j]) : Meets(tree[j], r, k) =>
        \E n \in 1 .. Len(findings) : Names(findings[n], j, r, k)

Single(findings) ==
    \A n, m \in 1 .. Len(findings) :
        /\ findings[n].line = findings[m].line /\ findings[n].rule_id = findings[m].rule_id
        /\ findings[n].position = findings[m].position
        => n = m

Reports(tree, findings, N) ==
    /\ findings \in Seq(Findings)
    /\ Sound(tree, findings, N) /\ Complete(tree, findings, N) /\ Single(findings)

LEMMA ReportsNone == \A tree : Reports(tree, <<>>, {})
  <1>1. <<>> \in Seq(Findings) /\ Len(<<>>) = 0
    BY EmptySeq
  <1>2. QED
    BY <1>1 DEF Reports, Sound, Complete, Single

LEMMA ReportsConcat ==
    ASSUME NEW tree, NEW f, NEW g, NEW N, NEW M, Reports(tree, f, N), Reports(tree, g, M),
           \A j \in N : j \notin M
    PROVE  Reports(tree, f \o g, N \cup M)
  <1>  DEFINE a == Len(f)
              b == Len(g)
              h == f \o g
  <1>1. f \in Seq(Findings) /\ g \in Seq(Findings)
    BY DEF Reports
  <1>2. /\ a \in Nat /\ b \in Nat /\ h \in Seq(Findings) /\ Len(h) = a + b
        /\ \A n \in 1 .. (a + b) : h[n] = IF n <= a THEN f[n] ELSE g[n - a]
    BY <1>1, LenProperties, ConcatProperties
  <1>3. /\ \A n \in 1 .. a : /\ f[n].line \in N /\ f[n].rule_id \in Rules
                             /\ f[n].position \in Positions(tree[f[n].line])
                             /\ Meets(tree[f[n].line], f[n].rule_id, f[n].position)
                             /\ f[n].severity = RuleSeverity[f[n].rule_id]
        /\ \A n \in 1 .. b : /\ g[n].line \in M /\ g[n].rule_id \in Rules
                             /\ g[n].position \in Positions(tree[g[n].line])
                             /\ Meets(tree[g[n].line], g[n].rule_id, g[n].position)
                             /\ g[n].severity = RuleSeverity[g[n].rule_id]
    BY DEF Reports, Sound
  <1>4. /\ \A j \in N, r \in Rules : \A k \in Positions(tree[j]) : Meets(tree[j], r, k) =>
              \E n \in 1 .. a : Names(f[n], j, r, k)
        /\ \A j \in M, r \in Rules : \A k \in Positions(tree[j]) : Meets(tree[j], r, k) =>
              \E n \in 1 .. b : Names(g[n], j, r, k)
    BY DEF Reports, Complete
  <1>5. /\ \A n, m \in 1 .. a :
              f[n].line = f[m].line /\ f[n].rule_id = f[m].rule_id /\ f[n].position = f[m].position
                  => n = m
        /\ \A n, m \in 1 .. b :
              g[n].line = g[m].line /\ g[n].rule_id = g[m].rule_id /\ g[n].position = g[m].position
                  => n = m
    BY DEF Reports, Single
  <1>  HIDE DEF a, b, h
  <1>6. \A n \in 1 .. a : n \in 1 .. (a + b) /\ h[n] = f[n]
    BY <1>2
  <1>7. ASSUME NEW n \in 1 .. b PROVE n + a \in 1 .. (a + b) /\ h[n + a] = g[n]
    <2>  DEFINE k == n + a
    <2>1. k \in 1 .. (a + b) /\ ~(k <= a) /\ k - a = n
      BY <1>2
    <2>  HIDE DEF k
    <2>2. h[k] = g[n]
      BY <1>2, <2>1
    <2>3. QED
      BY <2>1, <2>2 DEF k
  <1>8. ASSUME NEW n \in 1 .. (a + b)
        PROVE  (n \in 1 .. a /\ h[n] = f[n]) \/ (n - a \in 1 .. b /\ h[n] = g[n - a])
    BY <1>2
  <1>9. Sound(tree, h, N \cup M)
    <2>1. ASSUME NEW n \in 1 .. (a + b)
          PROVE  /\ h[n].line \in N \cup M /\ h[n].rule_id \in Rules
                 /\ h[n].position \in Positions(tree[h[n].line])
                 /\ Meets(tree[h[n].line], h[n].rule_id, h[n].position)
                 /\ h[n].severity = RuleSeverity[h[n].rule_id]
      <3>1. CASE n \in 1 .. a /\ h[n] = f[n]
        BY <1>3, <3>1
      <3>2. CASE n - a \in 1 .. b /\ h[n] = g[n - a]
        <4>1. PICK k \in 1 .. b : h[n] = g[k]
          BY <3>2
        <4>2. QED
          BY <1>3, <4>1
      <3>3. QED
        BY <1>8, <3>1, <3>2
    <2>2. QED
      BY <1>2, <2>1 DEF Sound
  <1>10. Complete(tree, h, N \cup M)
    <2>1. ASSUME NEW j \in N \cup M, NEW r \in Rules, NEW k \in Positions(tree[j]), Meets(tree[j], r, k)
          PROVE  \E n \in 1 .. (a + b) : Names(h[n], j, r, k)
      <3>1. CASE j \in N
        <4>1. PICK n \in 1 .. a : Names(f[n], j, r, k)
          BY <1>4, <2>1, <3>1
        <4>2. QED
          BY <1>6, <4>1
      <3>2. CASE j \in M
        <4>1. PICK n \in 1 .. b : Names(g[n], j, r, k)
          BY <1>4, <2>1, <3>2
        <4>2. n + a \in 1 .. (a + b) /\ h[n + a] = g[n]
          BY <1>7
        <4>3. QED
          BY <4>1, <4>2
      <3>3. QED
        BY <3>1, <3>2
    <2>2. QED
      BY <1>2, <2>1 DEF Complete
  <1>11. Single(h)
    <2>1. ASSUME NEW n \in 1 .. (a + b), NEW m \in 1 .. (a + b),
                 h[n].line = h[m].line, h[n].rule_id = h[m].rule_id, h[n].position = h[m].position
          PROVE  n = m
      <3>1. (n \in 1 .. a /\ h[n] = f[n]) \/ (n - a \in 1 .. b /\ h[n] = g[n - a])
        BY <1>8
      <3>2. (m \in 1 .. a /\ h[m] = f[m]) \/ (m - a \in 1 .. b /\ h[m] = g[m - a])
        BY <1>8
      <3>3. CASE (n \in 1 .. a /\ h[n] = f[n]) /\ (m \in 1 .. a /\ h[m] = f[m])
        BY <1>5, <2>1, <3>3
      <3>4. CASE (n - a \in 1 .. b /\ h[n] = g[n - a]) /\ (m - a \in 1 .. b /\ h[m] = g[m - a])
        <4>1. PICK k \in 1 .. b, l \in 1 .. b : k = n - a /\ l = m - a /\ h[n] = g[k] /\ h[m] = g[l]
          BY <3>4
        <4>2. k = l
          BY <1>5, <2>1, <4>1
        <4>3. QED
          BY <1>2, <4>1, <4>2
      <3>5. CASE (n \in 1 .. a /\ h[n] = f[n]) /\ (m - a \in 1 .. b /\ h[m] = g[m - a])
        <4>1. PICK l \in 1 .. b : h[m] = g[l]
          BY <3>5
        <4>2. h[n].line \in N /\ h[m].line \in M
          BY <1>3, <3>5, <4>1
        <4>3. QED
          BY <2>1, <4>2
      <3>6. CASE (n - a \in 1 .. b /\ h[n] = g[n - a]) /\ (m \in 1 .. a /\ h[m] = f[m])
        <4>1. PICK l \in 1 .. b : h[n] = g[l]
          BY <3>6
        <4>2. h[n].line \in M /\ h[m].line \in N
          BY <1>3, <3>6, <4>1
        <4>3. QED
          BY <2>1, <4>2
      <3>7. QED
        BY <3>1, <3>2, <3>3, <3>4, <3>5, <3>6
    <2>2. QED
      BY <1>2, <2>1 DEF Single
  <1>12. Reports(tree, h, N \cup M)
    BY <1>2, <1>9, <1>10, <1>11 DEF Reports
  <1>13. QED
    BY <1>12 DEF h

\* The nodes of the first k parts.
UpToPart(N, k) == UNION {N[i] : i \in 1 .. k}

LEMMA ReportsFlatten ==
    ASSUME NEW tree, NEW s \in Seq(Seq(Findings)), NEW N,
           \A i \in 1 .. Len(s) : Reports(tree, s[i], N[i]),
           \A i, k \in 1 .. Len(s) : i # k => \A j \in N[i] : j \notin N[k]
    PROVE  Reports(tree, FlattenSeq(s), UpToPart(N, Len(s)))
  <1>  DEFINE n == Len(s)
              V == Seq(Findings)
  <1>1. n \in Nat /\ (s # <<>> => n >= 1) /\ (s = <<>> => n = 0)
    BY LenProperties, EmptySeq
  <1>2. CASE s = <<>>
    <2>1. UpToPart(N, n) = {}
      BY <1>1, <1>2 DEF UpToPart
    <2>2. QED
      BY <1>2, <2>1, FlattenNone, ReportsNone
  <1>3. CASE s # <<>>
    <2>1. \E f \in [1 .. Len(s) -> V] :
              /\ \A i \in 1 .. Len(s) : f[i] = IF i = 1 THEN s[i] ELSE f[i - 1] \o s[i]
              /\ FlattenSeq(s) = f[Len(s)]
      BY <1>3, FlatOf
    <2>2. PICK f \in [1 .. n -> V] :
              /\ \A i \in 1 .. n : f[i] = IF i = 1 THEN s[i] ELSE f[i - 1] \o s[i]
              /\ FlattenSeq(s) = f[n]
      BY <2>1
    <2>3. /\ \A i \in 1 .. n : Reports(tree, s[i], N[i])
          /\ \A i, k \in 1 .. n : i # k => \A j \in N[i] : j \notin N[k]
      OBVIOUS
    <2>  HIDE DEF n, V
    <2>  DEFINE S == {m \in Nat : m + 1 <= n => Reports(tree, f[m + 1], UpToPart(N, m + 1))}
    <2>4. 0 \in S
      <3>1. UpToPart(N, 1) = N[1]
        <4>1. \A i : i \in 1 .. 1 <=> i = 1
          OBVIOUS
        <4>2. \A j : j \in UpToPart(N, 1) <=> \E i \in 1 .. 1 : j \in N[i]
          BY DEF UpToPart
        <4>3. \A j : j \in UpToPart(N, 1) <=> j \in N[1]
          BY <4>1, <4>2
        <4>4. QED
          BY <4>3, Zenon
      <3>2. 1 \in 1 .. n /\ f[1] = s[1]
        <4>1. 1 \in 1 .. n
          BY <1>1, <1>3
        <4>2. QED
          BY <2>2, <4>1
      <3>3. Reports(tree, f[1], UpToPart(N, 1))
        BY <2>3, <3>1, <3>2
      <3>4. 0 \in Nat /\ 0 + 1 = 1
        OBVIOUS
      <3>5. Reports(tree, f[0 + 1], UpToPart(N, 0 + 1))
        BY <3>3, <3>4
      <3>6. QED
        BY <3>4, <3>5
    <2>5. ASSUME NEW m \in Nat, m \in S PROVE m + 1 \in S
      <3>  DEFINE k == m + 1
                  l == k + 1
      <3>1. SUFFICES ASSUME l <= n PROVE Reports(tree, f[l], UpToPart(N, l))
        BY <2>5
      <3>2. /\ k \in 1 .. n /\ l \in 1 .. n /\ l # 1 /\ l - 1 = k
            /\ \A i \in 1 .. k : i \in 1 .. n /\ i # l
            /\ \A i : i \in 1 .. l <=> i \in 1 .. k \/ i = l
        BY <1>1, <3>1
      <3>3. Reports(tree, f[k], UpToPart(N, k))
        BY <2>5, <3>2
      <3>  HIDE DEF k, l
      <3>4. f[l] = f[k] \o s[l]
        BY <2>2, <3>2
      <3>5. UpToPart(N, l) = UpToPart(N, k) \cup N[l]
        <4>1. \A j : j \in UpToPart(N, l) <=> j \in UpToPart(N, k) \/ j \in N[l]
          BY <3>2, Zenon DEF UpToPart
        <4>2. QED
          BY <4>1, Zenon
      <3>6. \A j \in UpToPart(N, k) : j \notin N[l]
        BY <2>3, <3>2 DEF UpToPart
      <3>7. Reports(tree, s[l], N[l])
        BY <2>3, <3>2
      <3>8. Reports(tree, f[k] \o s[l], UpToPart(N, k) \cup N[l])
        BY <3>3, <3>6, <3>7, ReportsConcat
      <3>9. QED
        BY <3>4, <3>5, <3>8
    <2>  HIDE DEF S
    <2>6. \A m \in Nat : m \in S
      BY <2>4, <2>5, AllNaturals
    <2>  DEFINE m == n - 1
    <2>7. m \in Nat /\ m + 1 = n
      BY <1>1, <1>3
    <2>  HIDE DEF m
    <2>8. m + 1 <= n => Reports(tree, f[m + 1], UpToPart(N, m + 1))
      BY <2>6, <2>7 DEF S
    <2>9. Reports(tree, f[n], UpToPart(N, n))
      BY <1>1, <2>7, <2>8
    <2>10. QED
      BY <2>2, <2>9 DEF n
  <1>4. QED
    BY <1>2, <1>3

-----------------------------------------------------------------------------

(* Scan: the nodes above a node, and those below. *)

IsTree(tree) ==
    tree \in Seq(Parsed) /\ \A i \in 1 .. Len(tree) : tree[i].parent \in 0 .. (i - 1)

IsAbove(above, tree) ==
    /\ above \in [0 .. Len(tree) -> SUBSET (0 .. Len(tree))] /\ above[0] = {}
    /\ \A j \in 1 .. Len(tree) : above[j] = {tree[j].parent} \cup above[tree[j].parent]

LEMMA AboveExists ==
    ASSUME NEW tree, IsTree(tree)
    PROVE  \E above : IsAbove(above, tree)
  <1>  DEFINE n == Len(tree)
              V == SUBSET (0 .. n)
              par == [j \in 0 .. n |-> tree[j].parent]
              step == [a \in (0 .. n) \X [0 .. n -> V] |->
                          IF a[1] = n THEN {}
                          ELSE {par[n - a[1]]} \cup a[2][n - par[n - a[1]]]]
  <1>1. n \in Nat /\ \A j \in 1 .. n : tree[j].parent \in 0 .. (j - 1)
    BY LenProperties DEF IsTree
  <1>2. \A j \in 1 .. n : par[j] = tree[j].parent /\ par[j] \in 0 .. (j - 1)
    BY <1>1
  <1>  HIDE DEF n, par
  <1>3. ASSUME NEW i \in 0 .. n, i # n
        PROVE  /\ n - i \in 1 .. n /\ par[n - i] \in 0 .. n
               /\ n - par[n - i] \in (i + 1) .. n /\ n - par[n - i] \in 0 .. n
    <2>  DEFINE j == n - i
                q == par[j]
    <2>1. j \in 1 .. n
      BY <1>1, <1>3
    <2>2. q \in 0 .. (j - 1)
      BY <1>2, <2>1
    <2>  HIDE DEF q
    <2>3. q \in 0 .. n /\ n - q \in (i + 1) .. n /\ n - q \in 0 .. n
      BY <1>1, <2>1, <2>2
    <2>4. QED
      BY <2>1, <2>3 DEF q
  <1>4. step \in [(0 .. n) \X [0 .. n -> V] -> V]
    <2>1. ASSUME NEW i \in 0 .. n, NEW g \in [0 .. n -> V], i # n
          PROVE  {par[n - i]} \cup g[n - par[n - i]] \in V
      <3>1. g[n - par[n - i]] \in V /\ par[n - i] \in 0 .. n
        BY <1>3, <2>1
      <3>2. QED
        BY <3>1
    <2>2. {} \in V
      OBVIOUS
    <2>  HIDE DEF V
    <2>3. \A a \in (0 .. n) \X [0 .. n -> V] : a[1] \in 0 .. n /\ a[2] \in [0 .. n -> V]
      OBVIOUS
    <2>4. QED
      BY <2>1, <2>2, <2>3
  <1>5. ASSUME NEW i \in 0 .. n, NEW g \in [0 .. n -> V], NEW h \in [0 .. n -> V],
               \A k \in (i + 1) .. n : g[k] = h[k]
        PROVE  step[<<i, g>>] = step[<<i, h>>]
    <2>  HIDE DEF V
    <2>1. i # n => g[n - par[n - i]] = h[n - par[n - i]]
      BY <1>3, <1>5
    <2>2. QED
      BY <2>1
  <1>6. \E f : Recurs(f, step, n, V)
    <2>1. LooksAhead(step, n, V)
      <3>  HIDE DEF step, V
      <3>1. QED
        BY <1>4, <1>5 DEF LooksAhead
    <2>2. {} \in V
      OBVIOUS
    <2>  HIDE DEF step, V
    <2>3. QED
      BY <1>1, <2>1, <2>2, BackwardExists
  <1>7. PICK f \in [0 .. n -> V] : \A i \in 0 .. n : f[i] = step[<<i, f>>]
    <2>  HIDE DEF step, V
    <2>1. QED
      BY <1>6, Zenon DEF Recurs
  <1>8. \A i \in 0 .. n : f[i] = IF i = n THEN {} ELSE {par[n - i]} \cup f[n - par[n - i]]
    <2>  HIDE DEF V
    <2>1. QED
      BY <1>7
  <1>  DEFINE above == [j \in 0 .. n |-> f[n - j]]
  <1>9. \A j \in 0 .. n : n - j \in 0 .. n /\ above[j] = f[n - j]
    BY <1>1
  <1>10. above \in [0 .. n -> V]
    <2>  HIDE DEF V
    <2>1. \A j \in 0 .. n : f[n - j] \in V
      BY <1>7, <1>9
    <2>2. QED
      BY <2>1
  <1>  HIDE DEF above, V
  <1>11. above[0] = {}
    <2>1. 0 \in 0 .. n /\ n - 0 = n /\ n \in 0 .. n
      BY <1>1
    <2>2. above[0] = f[n]
      BY <1>9, <2>1
    <2>3. QED
      BY <1>8, <2>1, <2>2
  <1>12. ASSUME NEW j \in 1 .. n PROVE above[j] = {tree[j].parent} \cup above[tree[j].parent]
    <2>  DEFINE i == n - j
                q == tree[j].parent
    <2>1. j \in 0 .. n /\ i \in 0 .. n /\ i # n /\ n - i = j /\ above[j] = f[i]
      BY <1>1, <1>9
    <2>2. q = par[j] /\ q \in 0 .. n
      BY <1>1, <1>2
    <2>3. above[q] = f[n - q]
      BY <1>9, <2>2
    <2>  HIDE DEF i, q
    <2>4. f[i] = {par[n - i]} \cup f[n - par[n - i]]
      BY <1>8, <2>1
    <2>5. f[i] = {q} \cup f[n - q]
      BY <2>1, <2>2, <2>4
    <2>6. above[j] = {q} \cup above[q]
      BY <2>1, <2>3, <2>5
    <2>7. QED
      BY <2>6 DEF q
  <1>13. IsAbove(above, tree)
    BY <1>10, <1>11, <1>12 DEF IsAbove, V, n
  <1>14. QED
    BY <1>13

\* What holds of a node if it holds of its parent, holds of every node.
LEMMA FromAbove ==
    ASSUME NEW tree, IsTree(tree), NEW S,
           \A j \in 1 .. Len(tree) : (tree[j].parent = 0 \/ tree[j].parent \in S) => j \in S
    PROVE  \A j \in 1 .. Len(tree) : j \in S
  <1>  DEFINE n == Len(tree)
              B == {j \in 1 .. n : j \notin S}
  <1>1. n \in Nat /\ \A j \in 1 .. n : tree[j].parent \in 0 .. (j - 1)
    BY LenProperties DEF IsTree
  <1>2. \A j \in 1 .. n : (tree[j].parent = 0 \/ tree[j].parent \in S) => j \in S
    OBVIOUS
  <1>  HIDE DEF n
  <1>3. SUFFICES ASSUME B # {} PROVE FALSE
    BY DEF n
  <1>4. B \in SUBSET Nat
    BY <1>1
  <1>5. PICK j \in B : \A k \in B : j <= k
    BY <1>3, <1>4, LeastOf
  <1>6. j \in 1 .. n /\ j \notin S /\ tree[j].parent \in 0 .. (j - 1)
    BY <1>1, <1>5
  <1>7. tree[j].parent = 0 \/ tree[j].parent \in S
    <2>1. tree[j].parent = 0 \/ tree[j].parent \in 1 .. n
      BY <1>1, <1>6
    <2>2. tree[j].parent \in B => j <= tree[j].parent
      BY <1>5
    <2>3. tree[j].parent \notin B
      BY <1>6, <2>2
    <2>4. QED
      BY <2>1, <2>3
  <1>8. QED
    BY <1>2, <1>6, <1>7

LEMMA AboveIsBefore ==
    ASSUME NEW tree, IsTree(tree), NEW above, IsAbove(above, tree)
    PROVE  \A j \in 0 .. Len(tree) : \A a \in above[j] : a \in 0 .. (j - 1)
  <1>  DEFINE n == Len(tree)
              S == {j \in 1 .. n : \A a \in above[j] : a \in 0 .. (j - 1)}
  <1>1. n \in Nat /\ \A j \in 1 .. n : tree[j].parent \in 0 .. (j - 1)
    BY LenProperties DEF IsTree
  <1>2. above[0] = {} /\ \A j \in 1 .. n : above[j] = {tree[j].parent} \cup above[tree[j].parent]
    BY DEF IsAbove
  <1>3. ASSUME NEW j \in 1 .. Len(tree), tree[j].parent = 0 \/ tree[j].parent \in S PROVE j \in S
    <2>1. ASSUME NEW a \in above[j] PROVE a \in 0 .. (j - 1)
      <3>1. a = tree[j].parent \/ a \in above[tree[j].parent]
        BY <1>2
      <3>2. tree[j].parent \in 0 .. (j - 1)
        BY <1>1
      <3>3. CASE a \in above[tree[j].parent]
        <4>1. tree[j].parent # 0
          BY <1>2, <3>3
        <4>2. a \in 0 .. (tree[j].parent - 1)
          BY <1>3, <3>3, <4>1
        <4>3. QED
          BY <1>1, <3>2, <4>2
      <3>4. QED
        BY <3>1, <3>2, <3>3
    <2>2. QED
      BY <2>1
  <1>4. \A j \in 1 .. Len(tree) : j \in S
    <2>  HIDE DEF S
    <2>1. QED
      BY <1>3, FromAbove
  <1>5. ASSUME NEW j \in 0 .. Len(tree), NEW a \in above[j] PROVE a \in 0 .. (j - 1)
    <2>1. j # 0
      BY <1>2
    <2>2. j \in 1 .. Len(tree)
      BY <1>1, <2>1
    <2>3. QED
      BY <1>4, <2>2
  <1>6. QED
    BY <1>5

\* Every node is below the module, which no node is number 0 of.
LEMMA AllBelowModule ==
    ASSUME NEW tree, IsTree(tree), NEW above, IsAbove(above, tree)
    PROVE  \A j \in 1 .. Len(tree) : 0 \in above[j]
  <1>  DEFINE S == {j \in 1 .. Len(tree) : 0 \in above[j]}
  <1>1. ASSUME NEW j \in 1 .. Len(tree), tree[j].parent = 0 \/ tree[j].parent \in S PROVE j \in S
    BY <1>1 DEF IsAbove
  <1>2. \A j \in 1 .. Len(tree) : j \in S
    <2>  HIDE DEF S
    <2>1. QED
      BY <1>1, FromAbove
  <1>3. QED
    BY <1>2

\* A node and all below it.
Below(above, n, i) == {j \in 1 .. n : i \in above[j]}
Subtree(above, n, c) == {c} \cup Below(above, n, c)

LEMMA SubtreeBelow ==
    ASSUME NEW tree, IsTree(tree), NEW above, IsAbove(above, tree),
           NEW c \in 1 .. Len(tree), NEW j \in Subtree(above, Len(tree), c)
    PROVE  j \in Below(above, Len(tree), tree[c].parent)
  <1>  DEFINE i == tree[c].parent
              S == {k \in 1 .. Len(tree) : k = c \/ c \in above[k] => i \in above[k]}
  <1>1. ASSUME NEW k \in 1 .. Len(tree), tree[k].parent = 0 \/ tree[k].parent \in S PROVE k \in S
    <2>1. above[0] = {} /\ above[k] = {tree[k].parent} \cup above[tree[k].parent]
      BY DEF IsAbove
    <2>2. CASE k = c
      BY <2>1, <2>2
    <2>3. CASE c \in above[k]
      <3>1. c = tree[k].parent \/ c \in above[tree[k].parent]
        BY <2>1, <2>3
      <3>2. tree[k].parent # 0
        BY <2>1, <3>1
      <3>3. i \in above[tree[k].parent]
        BY <1>1, <3>1, <3>2
      <3>4. QED
        BY <2>1, <3>3
    <2>4. QED
      BY <2>2, <2>3
  <1>2. \A k \in 1 .. Len(tree) : k \in S
    <2>  HIDE DEF S
    <2>1. QED
      BY <1>1, FromAbove
  <1>3. j \in 1 .. Len(tree) /\ (j = c \/ c \in above[j])
    BY DEF Subtree, Below
  <1>4. QED
    BY <1>2, <1>3 DEF Below

\* What is below a node is a child of it or below one.
LEMMA BelowChild ==
    ASSUME NEW tree, IsTree(tree), NEW above, IsAbove(above, tree),
           NEW i \in 0 .. Len(tree), NEW j \in Below(above, Len(tree), i)
    PROVE  \E c \in Children(tree, i) : c \in 1 .. Len(tree) /\ j \in Subtree(above, Len(tree), c)
  <1>  DEFINE n == Len(tree)
              Through(k) == \E c \in Children(tree, i) : c \in 1 .. n /\ (k = c \/ c \in above[k])
              S == {k \in 1 .. Len(tree) : i \in above[k] => Through(k)}
  <1>1. DOMAIN tree = 1 .. Len(tree)
    BY LenProperties DEF IsTree
  <1>2. ASSUME NEW k \in 1 .. Len(tree), tree[k].parent = 0 \/ tree[k].parent \in S PROVE k \in S
    <2>1. above[0] = {} /\ above[k] = {tree[k].parent} \cup above[tree[k].parent]
      BY DEF IsAbove
    <2>2. SUFFICES ASSUME i \in above[k] PROVE Through(k)
      OBVIOUS
    <2>3. CASE i = tree[k].parent
      BY <1>1, <2>3 DEF Children
    <2>4. CASE i # tree[k].parent
      <3>1. i \in above[tree[k].parent] /\ tree[k].parent # 0
        BY <2>1, <2>2, <2>4
      <3>2. Through(tree[k].parent)
        BY <1>2, <3>1
      <3>3. PICK c \in Children(tree, i) : c \in 1 .. n /\ (tree[k].parent = c \/ c \in above[tree[k].parent])
        BY <3>2
      <3>4. c \in above[k]
        BY <2>1, <3>3
      <3>5. QED
        BY <3>3, <3>4
    <2>5. QED
      BY <2>3, <2>4
  <1>3. \A k \in 1 .. Len(tree) : k \in S
    <2>  HIDE DEF S
    <2>1. QED
      BY <1>2, FromAbove
  <1>4. j \in 1 .. Len(tree) /\ i \in above[j]
    BY DEF Below
  <1>5. PICK c \in Children(tree, i) : c \in 1 .. n /\ (j = c \/ c \in above[j])
    BY <1>3, <1>4
  <1>6. j \in Subtree(above, n, c)
    BY <1>4, <1>5 DEF Subtree, Below
  <1>7. QED
    BY <1>5, <1>6

\* No node is below two children of a node.
LEMMA SubtreesApart ==
    ASSUME NEW tree, IsTree(tree), NEW above, IsAbove(above, tree),
           NEW c \in 1 .. Len(tree), NEW d \in 1 .. Len(tree), c # d,
           tree[c].parent = tree[d].parent,
           NEW j \in Subtree(above, Len(tree), c)
    PROVE  j \notin Subtree(above, Len(tree), d)
  <1>  DEFINE n == Len(tree)
              Under(k, e) == k = e \/ e \in above[k]
              S == {k \in 1 .. Len(tree) : ~(Under(k, c) /\ Under(k, d))}
  <1>1. n \in Nat /\ \A k \in 1 .. n : tree[k].parent \in 0 .. (k - 1)
    BY LenProperties DEF IsTree
  <1>2. above[0] = {} /\ \A k \in 1 .. n : above[k] = {tree[k].parent} \cup above[tree[k].parent]
    BY DEF IsAbove
  <1>3. \A k \in 0 .. n : \A a \in above[k] : a \in 0 .. (k - 1)
    BY AboveIsBefore
  <1>4. ASSUME NEW a \in 1 .. n, NEW b \in 1 .. n, tree[a].parent = tree[b].parent
        PROVE  b \notin above[a]
    <2>  DEFINE q == tree[a].parent
    <2>1. q \in 0 .. n /\ q \in 0 .. (b - 1)
      BY <1>1, <1>4
    <2>2. above[a] = {q} \cup above[q]
      BY <1>2
    <2>3. b # q
      BY <1>1, <2>1
    <2>  HIDE DEF q
    <2>4. b \notin above[q]
      <3>1. b \in above[q] => b \in 0 .. (q - 1)
        BY <1>3, <2>1
      <3>2. QED
        BY <1>1, <2>1, <3>1
    <2>5. QED
      BY <2>2, <2>3, <2>4
  <1>5. ASSUME NEW k \in 1 .. Len(tree), tree[k].parent = 0 \/ tree[k].parent \in S PROVE k \in S
    <2>1. SUFFICES ASSUME Under(k, c), Under(k, d) PROVE FALSE
      OBVIOUS
    <2>2. k # c
      BY <1>4, <2>1
    <2>3. k # d
      BY <1>4, <2>1
    <2>4. c \in above[k] /\ d \in above[k]
      BY <2>1, <2>2, <2>3
    <2>5. Under(tree[k].parent, c) /\ Under(tree[k].parent, d)
      BY <1>2, <2>4
    <2>6. tree[k].parent # 0
      <3>1. c # 0 /\ c \notin above[0]
        BY <1>2
      <3>2. QED
        BY <2>5, <3>1
    <2>7. QED
      BY <1>5, <2>5, <2>6
  <1>6. \A k \in 1 .. Len(tree) : k \in S
    <2>  HIDE DEF S
    <2>1. QED
      BY <1>5, FromAbove
  <1>7. j \in 1 .. Len(tree) /\ Under(j, c)
    BY DEF Subtree, Below
  <1>8. ~Under(j, d)
    BY <1>6, <1>7
  <1>9. QED
    BY <1>8 DEF Subtree, Below

-----------------------------------------------------------------------------

(* Scan: what a node and all below it meet. *)

LEMMA KnownRules ==
    /\ Rules = {"unsafe_eval_exec", "weak_hash_algorithm", "debug_mode_enabled",
                "hardcoded_secret", "bare_except"}
    /\ \A r \in Rules : RuleSeverity[r] \in Severities
  BY DEF Rules, RuleSeverity, Severities

\* The keywords and targets that the nodes of a source have.
Texts == {"x=1", "debug=True", "x", "password", "secret"}

LEMMA NodeTyped ==
    ASSUME NEW node \in Parsed
    PROVE  /\ node.class = "Call" => node.keywords \in Seq(Texts)
           /\ node.class = "Assign" => node.targets \in Seq(Texts)
  <1>1. PICK p : node \in Nodes(0 .. p)
    BY DEF Parsed
  <1>2. \/ /\ node.class = "Call"
           /\ node.keywords \in {<<>>, <<"x=1", "debug=True">>, <<"debug=True", "debug=True">>}
        \/ node.class = "Assign" /\ node.targets \in {<<"x">>, <<"password", "x", "secret">>}
        \/ node.class \in {"ExceptHandler", "other"}
    BY <1>1 DEF Nodes
  <1>3. <<>> \in Seq(Texts)
    BY EmptySeq
  <1>4. /\ "x=1" \in Texts /\ "debug=True" \in Texts /\ "x" \in Texts
        /\ "password" \in Texts /\ "secret" \in Texts
    BY DEF Texts
  <1>5. /\ <<"x=1", "debug=True">> \in Seq(Texts) /\ <<"debug=True", "debug=True">> \in Seq(Texts)
        /\ <<"x">> \in Seq(Texts) /\ <<"password", "x", "secret">> \in Seq(Texts)
    BY <1>4
  <1>6. QED
    BY <1>2, <1>3, <1>5

\* One check at every place of a list.
Along(rule, s) == [k \in DOMAIN s |-> <<rule, k>>]

LEMMA ChecksAlong ==
    ASSUME NEW rule \in Rules, NEW s \in Seq(Texts)
    PROVE  /\ Along(rule, s) \in Seq(Rules \X Nat) /\ Len(Along(rule, s)) = Len(s) /\ Len(s) \in Nat
           /\ DOMAIN s = 1 .. Len(s)
           /\ \A k \in 1 .. Len(s) : Along(rule, s)[k] = <<rule, k>>
  <1>1. Len(s) \in Nat /\ DOMAIN s = 1 .. Len(s)
    BY LenProperties
  <1>2. Along(rule, s) \in [1 .. Len(s) -> Rules \X Nat]
    BY <1>1 DEF Along
  <1>3. \A k \in 1 .. Len(s) : Along(rule, s)[k] = <<rule, k>>
    BY <1>1 DEF Along
  <1>4. QED
    BY <1>1, <1>2, <1>3

\* The checks are of rules, at positions of the node, no two alike, and all there are.
Thorough(all, node) ==
    /\ all \in Seq(Rules \X Nat)
    /\ \A j \in 1 .. Len(all) : all[j][2] \in Positions(node)
    /\ \A i, j \in 1 .. Len(all) : all[i] = all[j] => i = j
    /\ \A r \in Rules : \A k \in Positions(node) : Meets(node, r, k) =>
           \E j \in 1 .. Len(all) : all[j] = <<r, k>>

LEMMA ChecksOfCall ==
    ASSUME NEW node \in Parsed, node.class = "Call"
    PROVE  Thorough(Checks(node), node)
  <1>  DEFINE two == <<<<"unsafe_eval_exec", 1>>, <<"weak_hash_algorithm", 1>>>>
              s == node.keywords
              rest == Along("debug_mode_enabled", s)
              m == Len(s)
              all == Checks(node)
  <1>1. "unsafe_eval_exec" \in Rules /\ "weak_hash_algorithm" \in Rules /\ "debug_mode_enabled" \in Rules
    BY KnownRules
  <1>2. /\ rest \in Seq(Rules \X Nat) /\ Len(rest) = m /\ m \in Nat /\ DOMAIN s = 1 .. m
        /\ \A k \in 1 .. m : rest[k] = <<"debug_mode_enabled", k>>
    BY <1>1, NodeTyped, ChecksAlong
  <1>3. two \in Seq(Rules \X Nat) /\ Len(two) = 2 /\ two[1] = <<"unsafe_eval_exec", 1>>
        /\ two[2] = <<"weak_hash_algorithm", 1>>
    BY <1>1
  <1>4. all = two \o rest
    BY DEF Checks, Along
  <1>5. Positions(node) = {1} \cup (1 .. m)
    BY <1>2 DEF Positions
  <1>6. \A r \in Rules : \A k \in Positions(node) : Meets(node, r, k) =>
           \/ r = "unsafe_eval_exec" /\ k = 1
           \/ r = "weak_hash_algorithm" /\ k = 1
           \/ r = "debug_mode_enabled" /\ k \in 1 .. m
    <2>  SUFFICES ASSUME NEW r \in Rules, NEW k \in Positions(node), Meets(node, r, k)
                  PROVE  \/ r = "unsafe_eval_exec" /\ k = 1
                         \/ r = "weak_hash_algorithm" /\ k = 1
                         \/ r = "debug_mode_enabled" /\ k \in 1 .. m
      OBVIOUS
    <2>  HIDE DEF m
    <2>1. QED
      BY <1>2, KnownRules DEF Meets
  <1>  HIDE DEF two, rest, m, s, all
  <1>7. /\ all \in Seq(Rules \X Nat) /\ Len(all) = 2 + m
        /\ \A j \in 1 .. (2 + m) : all[j] = IF j <= 2 THEN two[j] ELSE rest[j - 2]
    <2>  DEFINE T == Rules \X Nat
    <2>1. two \in Seq(T) /\ rest \in Seq(T)
      BY <1>2, <1>3
    <2>  HIDE DEF T
    <2>2. /\ two \o rest \in Seq(T) /\ Len(two \o rest) = Len(two) + Len(rest)
          /\ \A j \in 1 .. Len(two) + Len(rest) :
                 (two \o rest)[j] = IF j <= Len(two) THEN two[j] ELSE rest[j - Len(two)]
      BY <2>1, ConcatProperties
    <2>3. Len(two) = 2 /\ Len(rest) = m
      BY <1>2, <1>3
    <2>4. QED
      BY <1>4, <2>2, <2>3 DEF T
  <1>8. all[1] = <<"unsafe_eval_exec", 1>> /\ all[2] = <<"weak_hash_algorithm", 1>>
    <2>1. 1 \in 1 .. (2 + m) /\ 2 \in 1 .. (2 + m)
      BY <1>2
    <2>2. QED
      BY <1>3, <1>7, <2>1
  <1>9. ASSUME NEW j \in 1 .. (2 + m), j # 1, j # 2
        PROVE  j - 2 \in 1 .. m /\ all[j] = <<"debug_mode_enabled", j - 2>>
    <2>1. j - 2 \in 1 .. m /\ ~(j <= 2)
      BY <1>2, <1>9
    <2>2. QED
      BY <1>2, <1>7, <2>1
  <1>10. ASSUME NEW k \in 1 .. m PROVE \E j \in 1 .. (2 + m) : all[j] = <<"debug_mode_enabled", k>>
    <2>1. k + 2 \in 1 .. (2 + m) /\ k + 2 # 1 /\ k + 2 # 2 /\ (k + 2) - 2 = k
      BY <1>2
    <2>2. all[k + 2] = <<"debug_mode_enabled", (k + 2) - 2>>
      BY <1>9, <2>1
    <2>3. QED
      BY <2>1, <2>2
  <1>11. ASSUME NEW j \in 1 .. (2 + m) PROVE all[j][2] \in Positions(node)
    BY <1>5, <1>8, <1>9
  <1>12. ASSUME NEW i \in 1 .. (2 + m), NEW j \in 1 .. (2 + m), all[i] = all[j] PROVE i = j
    <2>1. CASE i # 1 /\ i # 2 /\ j # 1 /\ j # 2
      <3>1. i - 2 = j - 2
        BY <1>9, <1>12, <2>1
      <3>2. QED
        BY <1>2, <3>1
    <2>2. CASE i = 1 \/ i = 2
      BY <1>8, <1>9, <1>12, <2>2
    <2>3. CASE j = 1 \/ j = 2
      BY <1>8, <1>9, <1>12, <2>3
    <2>4. QED
      BY <2>1, <2>2, <2>3
  <1>13. ASSUME NEW r \in Rules, NEW k \in Positions(node), Meets(node, r, k)
         PROVE  \E j \in 1 .. (2 + m) : all[j] = <<r, k>>
    <2>1. CASE r = "debug_mode_enabled" /\ k \in 1 .. m
      BY <1>10, <2>1
    <2>2. CASE ~(r = "debug_mode_enabled" /\ k \in 1 .. m)
      <3>1. k = 1 /\ r \in {"unsafe_eval_exec", "weak_hash_algorithm"}
        BY <1>6, <1>13, <2>2
      <3>2. 1 \in 1 .. (2 + m) /\ 2 \in 1 .. (2 + m)
        BY <1>2
      <3>3. QED
        BY <1>8, <3>1, <3>2
    <2>3. QED
      BY <2>1, <2>2
  <1>14. Thorough(all, node)
    BY <1>7, <1>11, <1>12, <1>13 DEF Thorough
  <1>15. QED
    BY <1>14 DEF all

LEMMA ChecksOfAssign ==
    ASSUME NEW node \in Parsed, node.class = "Assign"
    PROVE  Thorough(Checks(node), node)
  <1>  DEFINE s == node.targets
              m == Len(s)
              all == Checks(node)
  <1>1. all = Along("hardcoded_secret", s)
    BY DEF Checks, Along
  <1>2. /\ all \in Seq(Rules \X Nat) /\ Len(all) = m /\ m \in Nat /\ DOMAIN s = 1 .. m
        /\ \A k \in 1 .. m : all[k] = <<"hardcoded_secret", k>>
    <2>1. "hardcoded_secret" \in Rules
      BY KnownRules
    <2>2. QED
      BY <1>1, <2>1, NodeTyped, ChecksAlong
  <1>3. Positions(node) = {1} \cup (1 .. m)
    BY <1>2 DEF Positions
  <1>4. ASSUME NEW r \in Rules, NEW k \in Positions(node), Meets(node, r, k)
        PROVE  r = "hardcoded_secret" /\ k \in 1 .. m
    <2>  HIDE DEF m
    <2>1. QED
      BY <1>2, <1>4, KnownRules DEF Meets
  <1>  HIDE DEF m, s, all
  <1>5. Thorough(all, node)
    BY <1>2, <1>3, <1>4 DEF Thorough
  <1>6. QED
    BY <1>5 DEF all

LEMMA ChecksOfOthers ==
    ASSUME NEW node \in Parsed, node.class \notin {"Call", "Assign"}
    PROVE  Thorough(Checks(node), node)
  <1>1. Positions(node) = {1}
    BY DEF Positions
  <1>2. ASSUME NEW r \in Rules, NEW k \in Positions(node), Meets(node, r, k)
        PROVE  r = "bare_except" /\ k = 1 /\ node.class = "ExceptHandler"
    BY <1>2, KnownRules DEF Meets
  <1>3. CASE node.class = "ExceptHandler"
    <2>  DEFINE all == <<<<"bare_except", 1>>>>
    <2>1. Checks(node) = all
      BY <1>3 DEF Checks
    <2>2. all \in Seq(Rules \X Nat) /\ Len(all) = 1 /\ all[1] = <<"bare_except", 1>>
      BY KnownRules
    <2>  HIDE DEF all
    <2>3. \A j : j \in 1 .. Len(all) <=> j = 1
      BY <2>2
    <2>4. Thorough(all, node)
      BY <1>1, <1>2, <2>2, <2>3 DEF Thorough
    <2>5. QED
      BY <2>1, <2>4
  <1>4. CASE node.class # "ExceptHandler"
    <2>1. Checks(node) = <<>>
      BY <1>4 DEF Checks
    <2>2. <<>> \in Seq(Rules \X Nat) /\ \A j \in 1 .. Len(<<>>) : FALSE
      BY EmptySeq
    <2>3. Thorough(<<>>, node)
      BY <1>2, <1>4, <2>2 DEF Thorough
    <2>4. QED
      BY <2>1, <2>3
  <1>5. QED
    BY <1>3, <1>4

LEMMA OwnReports ==
    ASSUME NEW tree, NEW i \in Nat, tree[i] \in Parsed
    PROVE  Reports(tree, Own(tree, i), {i})
  <1>  DEFINE X == Rules \X Nat
              node == tree[i]
              all == Checks(node)
              W == {c \in ToSet(all) : Meets(node, c[1], c[2])}
              kept == Filter(all, W)
              n == Len(kept)
              own == Own(tree, i)
  <1>1. Thorough(all, node)
    BY ChecksOfCall, ChecksOfAssign, ChecksOfOthers
  <1>2. own = [k \in DOMAIN kept |->
                  [rule_id |-> kept[k][1], severity |-> RuleSeverity[kept[k][1]], line |-> i,
                   position |-> kept[k][2]]]
    BY DEF Own
  <1>  HIDE DEF own, all
  <1>3. all \in Seq(X) /\ Len(all) \in Nat /\ DOMAIN all = 1 .. Len(all)
    BY <1>1, LenProperties DEF Thorough
  <1>4. kept \in Seq(X) /\ n \in Nat /\ DOMAIN kept = 1 .. n
    <2>  HIDE DEF X, W
    <2>1. kept \in Seq(X)
      BY <1>3, FilterType
    <2>  HIDE DEF kept
    <2>2. QED
      BY <2>1, LenProperties
  <1>5. PICK at : Places(at, kept, all, W)
    <2>  HIDE DEF X, W
    <2>1. QED
      BY <1>3, FilterPlaces
  <1>6. \A j \in 1 .. Len(all) : all[j] \in W <=> Meets(node, all[j][1], all[j][2])
    <2>1. \A j \in 1 .. Len(all) : all[j] \in ToSet(all)
      BY <1>3 DEF ToSet
    <2>2. QED
      BY <2>1
  <1>  HIDE DEF W, kept, n
  <1>7. /\ at \in [1 .. n -> 1 .. Len(all)]
        /\ \A k, l \in 1 .. n : at[k] = at[l] => k = l
        /\ \A j \in 1 .. Len(all) : all[j] \in W => \E k \in 1 .. n : at[k] = j
        /\ \A k \in 1 .. n : kept[k] = all[at[k]] /\ all[at[k]] \in W
    BY <1>5 DEF Places, n
  <1>8. \A k \in 1 .. n : kept[k] \in X
    BY <1>4
  <1>9. ASSUME NEW k \in 1 .. n
        PROVE  /\ kept[k][1] \in Rules /\ kept[k][2] \in Nat /\ kept[k] = <<kept[k][1], kept[k][2]>>
               /\ kept[k][2] \in Positions(node) /\ Meets(node, kept[k][1], kept[k][2])
    <2>1. at[k] \in 1 .. Len(all) /\ kept[k] = all[at[k]] /\ all[at[k]] \in W
      BY <1>7
    <2>2. kept[k][1] \in Rules /\ kept[k][2] \in Nat /\ kept[k] = <<kept[k][1], kept[k][2]>>
      BY <1>8
    <2>3. kept[k][2] \in Positions(node)
      BY <1>1, <2>1 DEF Thorough
    <2>4. Meets(node, kept[k][1], kept[k][2])
      BY <1>6, <2>1
    <2>5. QED
      BY <2>2, <2>3, <2>4
  <1>  HIDE DEF node, X
  <1>10. \A k \in 1 .. n : /\ own[k].rule_id = kept[k][1] /\ own[k].severity = RuleSeverity[kept[k][1]]
                           /\ own[k].line = i /\ own[k].position = kept[k][2]
    BY <1>2, <1>4
  <1>11. own \in Seq(Findings) /\ Len(own) = n
    <2>1. \A k \in 1 .. n :
              [rule_id |-> kept[k][1], severity |-> RuleSeverity[kept[k][1]], line |-> i,
               position |-> kept[k][2]] \in Findings
      BY <1>9, KnownRules DEF Findings
    <2>2. own \in [1 .. n -> Findings]
      BY <1>2, <1>4, <2>1
    <2>3. QED
      BY <1>4, <2>2
  <1>12. Sound(tree, own, {i})
    BY <1>9, <1>10, <1>11 DEF Sound, node
  <1>13. Complete(tree, own, {i})
    <2>1. ASSUME NEW r \in Rules, NEW p \in Positions(node), Meets(node, r, p)
          PROVE  \E k \in 1 .. n : Names(own[k], i, r, p)
      <3>1. PICK j \in 1 .. Len(all) : all[j] = <<r, p>>
        BY <1>1, <2>1 DEF Thorough
      <3>2. all[j] \in W
        BY <1>6, <2>1, <3>1
      <3>3. PICK k \in 1 .. n : at[k] = j
        BY <1>7, <3>2
      <3>4. kept[k] = <<r, p>>
        BY <1>7, <3>1, <3>3
      <3>5. Names(own[k], i, r, p)
        BY <1>10, <3>4 DEF Names
      <3>6. QED
        BY <3>5
    <2>2. QED
      BY <1>11, <2>1 DEF Complete, node
  <1>14. Single(own)
    <2>1. ASSUME NEW k \in 1 .. n, NEW l \in 1 .. n, own[k].rule_id = own[l].rule_id,
                 own[k].position = own[l].position
          PROVE  k = l
      <3>1. kept[k] = kept[l]
        BY <1>9, <1>10, <2>1
      <3>2. all[at[k]] = all[at[l]] /\ at[k] \in 1 .. Len(all) /\ at[l] \in 1 .. Len(all)
        BY <1>7, <3>1
      <3>3. at[k] = at[l]
        BY <1>1, <3>2 DEF Thorough
      <3>4. QED
        BY <1>7, <3>3
    <2>2. QED
      BY <1>11, <2>1 DEF Single
  <1>15. QED
    BY <1>11, <1>12, <1>13, <1>14 DEF Reports, own

\* What the walk finds below a node, from what it finds below its children.
Branch(tree, i, g, c) == IF c \in Children(tree, i) THEN Own(tree, c) \o g[c] ELSE <<>>
Parts(tree, i, g) == [c \in DOMAIN tree |-> Branch(tree, i, g, c)]

Walks(below, tree) ==
    /\ below \in [0 .. Len(tree) -> Seq(Findings)]
    /\ \A i \in 0 .. Len(tree) : below[i] = FlattenSeq(Parts(tree, i, below))

LEMMA PartsType ==
    ASSUME NEW tree, IsTree(tree), NEW i, NEW g \in [0 .. Len(tree) -> Seq(Findings)]
    PROVE  /\ Parts(tree, i, g) \in Seq(Seq(Findings)) /\ Len(Parts(tree, i, g)) = Len(tree)
           /\ \A c \in 1 .. Len(tree) : Parts(tree, i, g)[c] = Branch(tree, i, g, c)
           /\ FlattenSeq(Parts(tree, i, g)) \in Seq(Findings)
  <1>  DEFINE n == Len(tree)
              V == Seq(Findings)
  <1>1. n \in Nat /\ DOMAIN tree = 1 .. n
    BY LenProperties DEF IsTree
  <1>2. ASSUME NEW c \in 1 .. n PROVE Branch(tree, i, g, c) \in V
    <2>1. c \in Nat /\ g[c] \in V
      BY <1>1
    <2>2. Own(tree, c) \in V
      <3>1. tree[c] \in Parsed
        BY <1>1 DEF IsTree
      <3>2. QED
        BY <2>1, <3>1, OwnReports DEF Reports
    <2>3. Own(tree, c) \o g[c] \in V
      BY <2>1, <2>2, ConcatProperties
    <2>4. <<>> \in V
      BY EmptySeq
    <2>  HIDE DEF V
    <2>5. QED
      BY <2>3, <2>4 DEF Branch
  <1>  HIDE DEF n, V
  <1>3. /\ Parts(tree, i, g) \in [1 .. n -> V]
        /\ \A c \in 1 .. n : Parts(tree, i, g)[c] = Branch(tree, i, g, c)
    BY <1>1, <1>2 DEF Parts
  <1>4. Parts(tree, i, g) \in Seq(V) /\ Len(Parts(tree, i, g)) = n
    BY <1>1, <1>3
  <1>5. FlattenSeq(Parts(tree, i, g)) \in V
    BY <1>4, FlattenType DEF V
  <1>6. QED
    BY <1>3, <1>4, <1>5 DEF n, V

LEMMA ScanWalks ==
    ASSUME NEW tree, IsTree(tree)
    PROVE  \E below : Walks(below, tree) /\ ScanFile(tree) = below[0]
  <1>  DEFINE n == Len(tree)
              V == Seq(Findings)
              IsScan(f) == f = [i \in 0 .. Len(tree) |->
                                  FlattenSeq([c \in DOMAIN tree |->
                                      IF c \in Children(tree, i) THEN Own(tree, c) \o f[c] ELSE <<>>])]
              step == [a \in (0 .. n) \X [0 .. n -> V] |-> FlattenSeq(Parts(tree, a[1], a[2]))]
  <1>1. /\ n \in Nat /\ DOMAIN tree = 1 .. n /\ \A j \in 1 .. n : tree[j].parent \in 0 .. (j - 1)
        /\ <<>> \in V
    BY LenProperties, EmptySeq DEF IsTree
  <1>2. \A i, g : g \in [0 .. n -> V] => FlattenSeq(Parts(tree, i, g)) \in V
    BY PartsType
  <1>3. ASSUME NEW i \in 0 .. n, NEW g \in [0 .. n -> V], NEW h \in [0 .. n -> V],
               \A k \in (i + 1) .. n : g[k] = h[k]
        PROVE  step[<<i, g>>] = step[<<i, h>>]
    <2>  HIDE DEF V
    <2>1. ASSUME NEW c \in 1 .. n PROVE Branch(tree, i, g, c) = Branch(tree, i, h, c)
      <3>1. CASE c \in Children(tree, i)
        <4>1. tree[c].parent = i
          BY <3>1 DEF Children
        <4>2. c \in (i + 1) .. n
          BY <1>1, <4>1
        <4>3. g[c] = h[c]
          BY <1>3, <4>2
        <4>4. QED
          BY <4>3 DEF Branch
      <3>2. CASE c \notin Children(tree, i)
        BY <3>2 DEF Branch
      <3>3. QED
        BY <3>1, <3>2
    <2>2. Parts(tree, i, g) = Parts(tree, i, h)
      BY <1>1, <2>1 DEF Parts
    <2>3. step[<<i, g>>] = FlattenSeq(Parts(tree, i, g)) /\ step[<<i, h>>] = FlattenSeq(Parts(tree, i, h))
      OBVIOUS
    <2>4. QED
      BY <2>2, <2>3
  <1>4. step \in [(0 .. n) \X [0 .. n -> V] -> V]
    <2>  HIDE DEF V, n
    <2>1. \A a \in (0 .. n) \X [0 .. n -> V] : a[2] \in [0 .. n -> V]
      OBVIOUS
    <2>2. QED
      BY <1>2, <2>1
  <1>5. \E f : Recurs(f, step, n, V)
    <2>1. LooksAhead(step, n, V)
      <3>  HIDE DEF step, V
      <3>1. QED
        BY <1>3, <1>4 DEF LooksAhead
    <2>  HIDE DEF step, V
    <2>2. QED
      BY <1>1, <2>1, BackwardExists
  <1>6. PICK f \in [0 .. n -> V] : \A i \in 0 .. n : f[i] = step[<<i, f>>]
    <2>  HIDE DEF step, V
    <2>1. QED
      BY <1>5, Zenon DEF Recurs
  <1>7. \A i \in 0 .. n : f[i] = FlattenSeq(Parts(tree, i, f))
    <2>  HIDE DEF V, n
    <2>1. QED
      BY <1>6
  <1>8. \E g : IsScan(g)
    <2>1. f = [i \in 0 .. n |-> FlattenSeq(Parts(tree, i, f))]
      <3>  HIDE DEF V, n
      <3>1. QED
        BY <1>6, <1>7
    <2>2. IsScan(f)
      BY <2>1 DEF Parts, Branch
    <2>  HIDE DEF IsScan
    <2>3. QED
      BY <2>2
  <1>  DEFINE below == CHOOSE g : IsScan(g)
  <1>9. IsScan(below)
    BY <1>8
  <1>10. ScanFile(tree) = below[0]
    BY DEF ScanFile
  <1>  HIDE DEF below
  <1>11. /\ DOMAIN below = 0 .. n /\ below = [i \in 0 .. n |-> below[i]]
         /\ \A i \in 0 .. n : below[i] = FlattenSeq(Parts(tree, i, below))
    <2>1. below = [i \in 0 .. n |-> FlattenSeq(Parts(tree, i, below))]
      BY <1>9 DEF Parts, Branch
    <2>  HIDE DEF n
    <2>2. QED
      BY <2>1
  <1>  HIDE DEF n, V, step
  <1>12. \A i \in 0 .. n : below[i] = f[i]
    <2>  DEFINE S == {m \in Nat : \A i \in 0 .. n : i + m >= n => below[i] = f[i]}
    <2>1. ASSUME NEW i \in 0 .. n, \A c \in (i + 1) .. n : below[c] = f[c] PROVE below[i] = f[i]
      <3>1. ASSUME NEW c \in 1 .. n PROVE Branch(tree, i, below, c) = Branch(tree, i, f, c)
        <4>1. CASE c \in Children(tree, i)
          <5>1. tree[c].parent = i
            BY <4>1 DEF Children
          <5>2. c \in (i + 1) .. n
            BY <1>1, <5>1
          <5>3. below[c] = f[c]
            BY <2>1, <5>2
          <5>4. QED
            BY <5>3 DEF Branch
        <4>2. CASE c \notin Children(tree, i)
          BY <4>2 DEF Branch
        <4>3. QED
          BY <4>1, <4>2
      <3>2. Parts(tree, i, below) = Parts(tree, i, f)
        BY <1>1, <3>1 DEF Parts
      <3>3. QED
        BY <1>7, <1>11, <3>2
    <2>2. 0 \in S
      <3>1. ASSUME NEW i \in 0 .. n, i + 0 >= n PROVE below[i] = f[i]
        <4>1. \A c \in (i + 1) .. n : FALSE
          BY <1>1, <3>1
        <4>2. QED
          BY <2>1, <4>1
      <3>2. QED
        BY <3>1
    <2>3. ASSUME NEW m \in Nat, m \in S PROVE m + 1 \in S
      <3>1. ASSUME NEW i \in 0 .. n, i + (m + 1) >= n PROVE below[i] = f[i]
        <4>1. \A c \in (i + 1) .. n : c \in 0 .. n /\ c + m >= n
          BY <1>1, <3>1
        <4>2. \A c \in (i + 1) .. n : below[c] = f[c]
          BY <2>3, <4>1
        <4>3. QED
          BY <2>1, <4>2
      <3>2. QED
        BY <3>1
    <2>  HIDE DEF S
    <2>4. n \in S
      BY <1>1, <2>2, <2>3, AllNaturals
    <2>5. \A i \in 0 .. n : i + n >= n
      BY <1>1
    <2>6. QED
      BY <2>4, <2>5 DEF S
  <1>13. below \in [0 .. n -> V]
    <2>1. \A i \in 0 .. n : below[i] \in V
      BY <1>6, <1>12
    <2>2. QED
      BY <1>11, <2>1
  <1>14. Walks(below, tree)
    BY <1>11, <1>13 DEF Walks, n, V
  <1>15. QED
    BY <1>10, <1>14

LEMMA WalkStep ==
    ASSUME NEW tree, IsTree(tree), NEW above, IsAbove(above, tree), NEW below, Walks(below, tree),
           NEW i \in 0 .. Len(tree),
           \A c \in (i + 1) .. Len(tree) : Reports(tree, below[c], Below(above, Len(tree), c))
    PROVE  Reports(tree, below[i], Below(above, Len(tree), i))
  <1>  DEFINE n == Len(tree)
              s == Parts(tree, i, below)
              N == [c \in 1 .. n |-> IF c \in Children(tree, i) THEN Subtree(above, n, c) ELSE {}]
  <1>1. n \in Nat /\ DOMAIN tree = 1 .. n /\ \A j \in 1 .. n : tree[j].parent \in 0 .. (j - 1)
    BY LenProperties DEF IsTree
  <1>2. /\ s \in Seq(Seq(Findings)) /\ Len(s) = n /\ \A c \in 1 .. n : s[c] = Branch(tree, i, below, c)
        /\ below[i] = FlattenSeq(s)
    BY PartsType DEF Walks
  <1>3. \A c \in Children(tree, i) : c \in 1 .. n /\ c \in (i + 1) .. n /\ tree[c].parent = i
    <2>1. TAKE c \in Children(tree, i)
    <2>2. c \in 1 .. n /\ tree[c].parent = i
      BY <1>1 DEF Children
    <2>3. QED
      BY <1>1, <2>2
  <1>4. \A c \in 1 .. n : N[c] = IF c \in Children(tree, i) THEN Subtree(above, n, c) ELSE {}
    OBVIOUS
  <1>5. \A c \in (i + 1) .. n : Reports(tree, below[c], Below(above, n, c))
    OBVIOUS
  <1>6. \A c \in 1 .. n : c \notin Below(above, n, c)
    <2>1. TAKE c \in 1 .. n
    <2>2. \A a \in above[c] : a \in 0 .. (c - 1)
      BY <1>1, AboveIsBefore
    <2>3. c \notin above[c]
      BY <2>2
    <2>4. QED
      BY <2>3 DEF Below
  <1>7. \A c, d \in 1 .. n : c # d /\ tree[c].parent = tree[d].parent =>
            \A j \in Subtree(above, n, c) : j \notin Subtree(above, n, d)
    BY SubtreesApart
  <1>8. \A c \in 1 .. n : \A j \in Subtree(above, n, c) : j \in Below(above, n, tree[c].parent)
    BY SubtreeBelow
  <1>9. \A j \in Below(above, n, i) : \E c \in Children(tree, i) : c \in 1 .. n /\ j \in Subtree(above, n, c)
    BY BelowChild
  <1>  HIDE DEF n, s, N
  <1>10. ASSUME NEW c \in 1 .. n PROVE Reports(tree, s[c], N[c])
    <2>1. CASE c \in Children(tree, i)
      <3>1. Reports(tree, Own(tree, c), {c})
        <4>1. c \in Nat /\ tree[c] \in Parsed
          BY <1>1 DEF IsTree
        <4>2. QED
          BY <4>1, OwnReports
      <3>2. Reports(tree, below[c], Below(above, n, c))
        BY <1>3, <1>5, <2>1
      <3>3. \A j \in {c} : j \notin Below(above, n, c)
        BY <1>6
      <3>4. Reports(tree, Own(tree, c) \o below[c], {c} \cup Below(above, n, c))
        BY <3>1, <3>2, <3>3, ReportsConcat
      <3>5. s[c] = Own(tree, c) \o below[c]
        BY <1>2, <2>1 DEF Branch
      <3>6. N[c] = {c} \cup Below(above, n, c)
        BY <1>4, <2>1 DEF Subtree
      <3>7. QED
        BY <3>4, <3>5, <3>6
    <2>2. CASE c \notin Children(tree, i)
      <3>1. s[c] = <<>> /\ N[c] = {}
        BY <1>2, <1>4, <2>2 DEF Branch
      <3>2. QED
        BY <3>1, ReportsNone
    <2>3. QED
      BY <2>1, <2>2
  <1>11. ASSUME NEW c \in 1 .. n, NEW d \in 1 .. n, c # d, NEW j \in N[c]
         PROVE  j \notin N[d]
    <2>1. c \in Children(tree, i) /\ j \in Subtree(above, n, c)
      BY <1>4
    <2>2. CASE d \in Children(tree, i)
      <3>1. tree[c].parent = tree[d].parent
        BY <1>3, <2>1, <2>2
      <3>2. j \notin Subtree(above, n, d)
        BY <1>7, <1>11, <2>1, <3>1
      <3>3. QED
        BY <1>4, <2>2, <3>2
    <2>3. CASE d \notin Children(tree, i)
      BY <1>4, <2>3
    <2>4. QED
      BY <2>2, <2>3
  <1>12. Reports(tree, FlattenSeq(s), UpToPart(N, Len(s)))
    BY <1>2, <1>10, <1>11, ReportsFlatten
  <1>13. UpToPart(N, n) = Below(above, n, i)
    <2>1. \A j : j \in UpToPart(N, n) <=> \E c \in 1 .. n : j \in N[c]
      BY DEF UpToPart
    <2>2. ASSUME NEW c \in 1 .. n, NEW j \in N[c] PROVE j \in Below(above, n, i)
      <3>1. c \in Children(tree, i) /\ j \in Subtree(above, n, c)
        BY <1>4
      <3>2. QED
        BY <1>3, <1>8, <3>1
    <2>3. ASSUME NEW j \in Below(above, n, i) PROVE \E c \in 1 .. n : j \in N[c]
      <3>1. PICK c \in Children(tree, i) : c \in 1 .. n /\ j \in Subtree(above, n, c)
        BY <1>9
      <3>2. j \in N[c]
        BY <1>4, <3>1
      <3>3. QED
        BY <3>1, <3>2
    <2>4. QED
      BY <2>1, <2>2, <2>3
  <1>14. QED
    BY <1>2, <1>12, <1>13 DEF n

LEMMA ScanReports ==
    ASSUME NEW tree, IsTree(tree)
    PROVE  Reports(tree, ScanFile(tree), 1 .. Len(tree))
  <1>  DEFINE n == Len(tree)
  <1>1. n \in Nat
    BY LenProperties DEF IsTree
  <1>2. PICK above : IsAbove(above, tree)
    BY AboveExists
  <1>3. PICK below : Walks(below, tree) /\ ScanFile(tree) = below[0]
    BY ScanWalks
  <1>4. \A i \in 0 .. n :
            (\A c \in (i + 1) .. n : Reports(tree, below[c], Below(above, n, c)))
                => Reports(tree, below[i], Below(above, n, i))
    BY <1>2, <1>3, WalkStep
  <1>5. \A j \in 1 .. n : 0 \in above[j]
    BY <1>2, AllBelowModule
  <1>  HIDE DEF n
  <1>  DEFINE Done(i) == Reports(tree, below[i], Below(above, n, i))
              S == {m \in Nat : \A i \in 0 .. n : i + m >= n => Done(i)}
  <1>6. 0 \in S
    <2>1. ASSUME NEW i \in 0 .. n, i + 0 >= n PROVE Done(i)
      <3>1. \A c \in (i + 1) .. n : FALSE
        BY <1>1, <2>1
      <3>2. QED
        BY <1>4, <3>1
    <2>  HIDE DEF Done
    <2>2. QED
      BY <2>1
  <1>7. ASSUME NEW m \in Nat, m \in S PROVE m + 1 \in S
    <2>1. ASSUME NEW i \in 0 .. n, i + (m + 1) >= n PROVE Done(i)
      <3>1. \A c \in (i + 1) .. n : c \in 0 .. n /\ c + m >= n
        BY <1>1, <2>1
      <3>2. \A c \in (i + 1) .. n : Done(c)
        <4>  HIDE DEF Done
        <4>1. QED
          BY <1>7, <3>1
      <3>3. QED
        BY <1>4, <3>2
    <2>  HIDE DEF Done
    <2>2. QED
      BY <2>1
  <1>  HIDE DEF S, Done
  <1>8. n \in S
    BY <1>1, <1>6, <1>7, AllNaturals
  <1>9. Done(0)
    <2>1. 0 \in 0 .. n /\ 0 + n >= n
      BY <1>1
    <2>2. QED
      BY <1>8, <2>1 DEF S
  <1>10. Below(above, n, 0) = 1 .. n
    BY <1>5 DEF Below
  <1>11. Reports(tree, below[0], 1 .. n)
    BY <1>9, <1>10 DEF Done
  <1>12. QED
    BY <1>3, <1>11 DEF n

\* The findings and what is expected, as nodes, rules and positions.
LEMMA ScanExpected ==
    ASSUME NEW tree, IsTree(tree)
    PROVE  /\ Reported(ScanFile(tree)) = Breaches(tree)
           /\ Len(ScanFile(tree)) = Cardinality(Breaches(tree))
  <1>  DEFINE findings == ScanFile(tree)
              l == Len(findings)
              expected == Breaches(tree)
              place(n) == <<findings[n].line, <<findings[n].rule_id, findings[n].position>>>>
              pairs == {place(n) : n \in 1 .. l}
              f == [n \in 1 .. l |-> place(n)]
  <1>1. Reports(tree, findings, 1 .. Len(tree))
    BY ScanReports
  <1>2. DOMAIN tree = 1 .. Len(tree)
    BY LenProperties DEF IsTree
  <1>3. \A e : e \in expected <=> \E j \in 1 .. Len(tree), r \in Rules :
               \E k \in Positions(tree[j]) : e = <<j, <<r, k>>>> /\ Meets(tree[j], r, k)
    <2>1. ASSUME NEW e, NEW j
          PROVE  e \in {j} \X {c \in Rules \X Positions(tree[j]) : Meets(tree[j], c[1], c[2])} <=>
                     \E r \in Rules, k \in Positions(tree[j]) :
                        e = <<j, <<r, k>>>> /\ Meets(tree[j], r, k)
      OBVIOUS
    <2>2. QED
      BY <1>2, <2>1 DEF Breaches
  <1>  HIDE DEF findings, expected
  <1>4. DOMAIN findings = 1 .. l /\ l \in Nat
    BY <1>1, LenProperties DEF Reports
  <1>  HIDE DEF l
  <1>5. \A n \in 1 .. l : /\ findings[n].line \in 1 .. Len(tree) /\ findings[n].rule_id \in Rules
                          /\ findings[n].position \in Positions(tree[findings[n].line])
                          /\ Meets(tree[findings[n].line], findings[n].rule_id, findings[n].position)
    BY <1>1 DEF Reports, Sound, l
  <1>6. \A j \in 1 .. Len(tree), r \in Rules : \A k \in Positions(tree[j]) : Meets(tree[j], r, k) =>
            \E n \in 1 .. l : Names(findings[n], j, r, k)
    BY <1>1 DEF Reports, Complete, l
  <1>7. \A n, m \in 1 .. l :
            /\ findings[n].line = findings[m].line
            /\ findings[n].rule_id = findings[m].rule_id
            /\ findings[n].position = findings[m].position
            => n = m
    BY <1>1 DEF Reports, Single, l
  <1>8. pairs = expected
    <2>1. ASSUME NEW n \in 1 .. l PROVE place(n) \in expected
      BY <1>3, <1>5
    <2>2. ASSUME NEW e \in expected
          PROVE  \E n \in 1 .. l : e = place(n)
      <3>1. PICK j \in 1 .. Len(tree), r \in Rules :
               \E k \in Positions(tree[j]) : e = <<j, <<r, k>>>> /\ Meets(tree[j], r, k)
        BY <1>3
      <3>2. PICK k \in Positions(tree[j]) : e = <<j, <<r, k>>>> /\ Meets(tree[j], r, k)
        BY <3>1
      <3>3. PICK n \in 1 .. l : Names(findings[n], j, r, k)
        BY <1>6, <3>2
      <3>4. QED
        BY <3>2, <3>3 DEF Names
    <2>3. QED
      BY <2>1, <2>2
  <1>9. l = Cardinality(pairs)
    <2>1. IsFiniteSet(1 .. l) /\ Cardinality(1 .. l) = IF 1 > l THEN 0 ELSE l - 1 + 1
      BY <1>4, FS_Interval
    <2>2. Cardinality(1 .. l) = l
      BY <1>4, <2>1
    <2>3. ASSUME NEW n \in 1 .. l, NEW m \in 1 .. l, f[n] = f[m] PROVE n = m
      BY <1>7, <2>3
    <2>4. pairs = {f[n] : n \in 1 .. l} /\ DOMAIN f = 1 .. l
      OBVIOUS
    <2>  HIDE DEF f, pairs
    <2>5. Cardinality({f[n] : n \in 1 .. l}) = Cardinality(1 .. l)
      <3>1. PICK D : D = 1 .. l
        OBVIOUS
      <3>2. IsFiniteSet(D) /\ DOMAIN f = D /\ \A n, m \in D : f[n] = f[m] => n = m
        BY <2>1, <2>3, <2>4, <3>1
      <3>3. Cardinality({f[n] : n \in D}) = Cardinality(D)
        BY <3>2, SameSize
      <3>4. QED
        BY <3>1, <3>3
    <2>6. QED
      BY <2>2, <2>4, <2>5
  <1>10. Reported(findings) = pairs
    BY <1>4 DEF Reported
  <1>  HIDE DEF pairs
  <1>11. Reported(findings) = expected /\ Len(findings) = Cardinality(expected)
    BY <1>8, <1>9, <1>10 DEF l
  <1>12. QED
    BY <1>11 DEF findings, expected

-----------------------------------------------------------------------------

(* Scan: the report of a list of findings. *)

\* The rules declared after each finding.
Declaring(run, findings) ==
    /\ run[0] = <<>>
    /\ \A k \in 0 .. (Len(findings) - 1) : run[k + 1] = DeclareRule(run[k], findings[k + 1])

LEMMA DeclareRuleType ==
    ASSUME NEW rules \in Seq(Rules), NEW f \in Findings
    PROVE  DeclareRule(rules, f) \in Seq(Rules)
  <1>1. f.rule_id \in Rules
    BY DEF Findings
  <1>2. QED
    BY <1>1, AppendProperties DEF DeclareRule

LEMMA DeclareRuns ==
    ASSUME NEW findings \in Seq(Findings)
    PROVE  \E run : Declaring(run, findings) /\ run[Len(findings)] = BuildRuleMetadata(findings)
  <1>  DEFINE n == Len(findings)
              V == Seq(Rules)
              pick == [t \in SUBSET (1 .. n) |-> Max(t)]
              step == [p \in (1 .. n) \X V |-> DeclareRule(p[2], findings[p[1]])]
              IsDeclared(f) ==
                  f = [t \in SUBSET (DOMAIN findings) |->
                          IF t = {} THEN <<>> ELSE DeclareRule(f[t \ {Max(t)}], findings[Max(t)])]
  <1>1. /\ n \in Nat /\ DOMAIN findings = 1 .. n
        /\ \A k \in 1 .. n : findings[k] \in Findings
    OBVIOUS
  <1>2. step \in [(1 .. n) \X V -> V]
    <2>1. ASSUME NEW p \in (1 .. n) \X V PROVE DeclareRule(p[2], findings[p[1]]) \in V
      <3>1. p[1] \in 1 .. n /\ p[2] \in V
        BY <2>1
      <3>2. findings[p[1]] \in Findings
        BY <1>1, <3>1
      <3>3. QED
        BY <3>1, <3>2, DeclareRuleType
    <2>2. QED
      BY <2>1
  <1>3. \A t \in SUBSET (1 .. n) : t # {} => pick[t] \in t
    BY <1>1, MaxOf
  <1>4. \E fold \in [SUBSET (1 .. n) -> V] : IsFold(fold, 1 .. n, pick, <<>>, step)
    <2>1. IsFiniteSet(1 .. n)
      <3>  HIDE DEF n
      <3>1. 1 \in Int /\ n \in Int
        BY <1>1
      <3>2. QED
        BY <3>1, FS_Interval
    <2>2. <<>> \in V
      BY EmptySeq
    <2>  HIDE DEF pick, step, V
    <2>3. QED
      BY <1>2, <1>3, <2>1, <2>2, FoldExists
  <1>5. PICK fold \in [SUBSET (1 .. n) -> V] : IsFold(fold, 1 .. n, pick, <<>>, step)
    BY <1>4
  <1>6. IsDeclared(fold)
    <2>1. ASSUME NEW t \in SUBSET (1 .. n), t # {}
          PROVE  fold[t] = DeclareRule(fold[t \ {Max(t)}], findings[Max(t)])
      <3>1. Max(t) \in 1 .. n /\ t \ {Max(t)} \in SUBSET (1 .. n)
        BY <1>1, <2>1, MaxOf
      <3>2. fold[t \ {Max(t)}] \in V
        BY <3>1
      <3>3. fold[t] = step[<<Max(t), fold[t \ {Max(t)}]>>]
        BY <1>5, <2>1 DEF IsFold
      <3>4. QED
        BY <3>1, <3>2, <3>3
    <2>2. fold[{}] = <<>>
      BY <1>5 DEF IsFold
    <2>3. QED
      BY <1>1, <2>1, <2>2
  <1>  DEFINE it == CHOOSE f : IsDeclared(f)
  <1>7. IsDeclared(it)
    BY <1>6
  <1>8. BuildRuleMetadata(findings) = it[DOMAIN findings]
    BY DEF BuildRuleMetadata, FoldLeft, MapThenFoldSet
  <1>  HIDE DEF it
  <1>9. \A t \in SUBSET (1 .. n) :
            it[t] = IF t = {} THEN <<>> ELSE DeclareRule(it[t \ {Max(t)}], findings[Max(t)])
    BY <1>1, <1>7
  <1>  DEFINE run == [k \in 0 .. n |-> it[1 .. k]]
  <1>10. run[0] = <<>>
    <2>1. 1 .. 0 = {} /\ {} \in SUBSET (1 .. n) /\ 0 \in 0 .. n
      BY <1>1
    <2>2. it[{}] = <<>>
      BY <1>9, <2>1
    <2>3. QED
      BY <2>1, <2>2
  <1>11. ASSUME NEW k \in 0 .. (n - 1) PROVE run[k + 1] = DeclareRule(run[k], findings[k + 1])
    <2>1. it[1 .. (k + 1)] = DeclareRule(it[1 .. k], findings[k + 1])
      BY <1>1, <1>9, UpTo
    <2>2. run[k + 1] = it[1 .. (k + 1)] /\ run[k] = it[1 .. k]
      BY <1>1
    <2>3. QED
      BY <2>1, <2>2
  <1>12. run[n] = BuildRuleMetadata(findings)
    BY <1>1, <1>8
  <1>13. Declaring(run, findings)
    <2>  HIDE DEF run
    <2>1. QED
      BY <1>10, <1>11 DEF Declaring
  <1>14. QED
    BY <1>12, <1>13

\* The two laws of the rules' declaration.
LEMMA DeclareNone == BuildRuleMetadata(<<>>) = <<>>
  <1>1. PICK run : Declaring(run, <<>>) /\ run[Len(<<>>)] = BuildRuleMetadata(<<>>)
    <2>1. <<>> \in Seq(Findings)
      BY EmptySeq
    <2>2. QED
      BY <2>1, DeclareRuns
  <1>2. run[0] = <<>> /\ Len(<<>>) = 0
    BY <1>1 DEF Declaring
  <1>3. QED
    BY <1>1, <1>2

LEMMA DeclareAppend ==
    ASSUME NEW findings \in Seq(Findings), NEW x \in Findings
    PROVE  BuildRuleMetadata(Append(findings, x)) = DeclareRule(BuildRuleMetadata(findings), x)
  <1>  DEFINE more == Append(findings, x)
              n == Len(findings)
  <1>1. /\ more \in Seq(Findings) /\ n \in Nat /\ Len(more) = n + 1
        /\ \A k \in 1 .. n : more[k] = findings[k]
        /\ more[n + 1] = x
    BY AppendProperties, LenProperties
  <1>  HIDE DEF more, n
  <1>2. PICK run : Declaring(run, findings) /\ run[n] = BuildRuleMetadata(findings)
    BY DeclareRuns DEF n
  <1>3. PICK next : Declaring(next, more) /\ next[n + 1] = BuildRuleMetadata(more)
    BY <1>1, DeclareRuns
  <1>4. /\ run[0] = next[0]
        /\ \A k \in Nat : k < n => /\ run[k + 1] = DeclareRule(run[k], findings[k + 1])
                                 /\ next[k + 1] = DeclareRule(next[k], findings[k + 1])
        /\ next[n + 1] = DeclareRule(next[n], x)
    BY <1>1, <1>2, <1>3 DEF Declaring, n
  <1>  DEFINE S == {k \in Nat : k <= n => run[k] = next[k]}
  <1>5. 0 \in S
    BY <1>4
  <1>6. \A k \in Nat : k \in S => k + 1 \in S
    BY <1>1, <1>4
  <1>  HIDE DEF S
  <1>7. \A k \in Nat : k \in S
    BY <1>5, <1>6, AllNaturals
  <1>8. run[n] = next[n]
    BY <1>1, <1>7 DEF S
  <1>9. QED
    BY <1>2, <1>3, <1>4, <1>8 DEF more

Distinct(s) == \A k, l \in 1 .. Len(s) : s[k] = s[l] => k = l

LEMMA DistinctLength ==
    ASSUME NEW X, NEW s \in Seq(X), Distinct(s)
    PROVE  Len(s) = Cardinality(ToSet(s))
  <1>  DEFINE n == Len(s)
  <1>1. n \in Nat /\ DOMAIN s = 1 .. n
    BY LenProperties
  <1>2. \A k, l \in 1 .. n : s[k] = s[l] => k = l
    BY DEF Distinct
  <1>  HIDE DEF n
  <1>3. IsFiniteSet(1 .. n) /\ Cardinality(1 .. n) = IF 1 > n THEN 0 ELSE n - 1 + 1
    BY <1>1, FS_Interval
  <1>4. Cardinality(1 .. n) = n
    BY <1>1, <1>3
  <1>5. PICK D : D = 1 .. n
    OBVIOUS
  <1>6. IsFiniteSet(D) /\ DOMAIN s = D /\ \A k, l \in D : s[k] = s[l] => k = l
    BY <1>1, <1>2, <1>3, <1>5
  <1>7. Cardinality({s[k] : k \in D}) = Cardinality(D)
    BY <1>6, SameSize
  <1>8. ToSet(s) = {s[k] : k \in D}
    BY <1>6 DEF ToSet
  <1>9. QED
    BY <1>4, <1>5, <1>7, <1>8 DEF n

LEMMA DistinctAppend ==
    ASSUME NEW X, NEW s \in Seq(X), Distinct(s), NEW x \in X, x \notin ToSet(s)
    PROVE  Distinct(Append(s, x))
  <1>  DEFINE n == Len(s)
              more == Append(s, x)
  <1>1. /\ n \in Nat /\ DOMAIN s = 1 .. n /\ Len(more) = n + 1
        /\ more[n + 1] = x /\ \A k \in 1 .. n : more[k] = s[k]
    BY LenProperties, AppendProperties
  <1>2. \A k, l \in 1 .. n : s[k] = s[l] => k = l
    BY DEF Distinct
  <1>3. \A k \in 1 .. n : s[k] # x
    BY <1>1 DEF ToSet
  <1>  HIDE DEF n, more
  <1>4. ASSUME NEW k \in 1 .. (n + 1), NEW l \in 1 .. (n + 1), more[k] = more[l] PROVE k = l
    <2>1. (k \in 1 .. n \/ k = n + 1) /\ (l \in 1 .. n \/ l = n + 1)
      BY <1>1
    <2>2. CASE k \in 1 .. n /\ l \in 1 .. n
      BY <1>1, <1>2, <1>4, <2>2
    <2>3. CASE k \in 1 .. n /\ l = n + 1
      BY <1>1, <1>3, <1>4, <2>3
    <2>4. CASE k = n + 1 /\ l \in 1 .. n
      BY <1>1, <1>3, <1>4, <2>4
    <2>5. CASE k = n + 1 /\ l = n + 1
      BY <2>5
    <2>6. QED
      BY <2>1, <2>2, <2>3, <2>4, <2>5
  <1>5. Distinct(more)
    BY <1>1, <1>4 DEF Distinct
  <1>6. QED
    BY <1>5 DEF more

LEMMA RulesDeclared ==
    ASSUME NEW findings \in Seq(Findings)
    PROVE  /\ BuildRuleMetadata(findings) \in Seq(Rules) /\ Distinct(BuildRuleMetadata(findings))
           /\ ToSet(BuildRuleMetadata(findings)) = {f.rule_id : f \in ToSet(findings)}
  <1>  DEFINE Declared(s) ==
                  /\ BuildRuleMetadata(s) \in Seq(Rules) /\ Distinct(BuildRuleMetadata(s))
                  /\ \A r : r \in ToSet(BuildRuleMetadata(s)) <=> \E f \in ToSet(s) : r = f.rule_id
              S == {s \in Seq(Findings) : Declared(s)}
  <1>1. <<>> \in S
    <2>1. /\ <<>> \in Seq(Findings) /\ <<>> \in Seq(Rules) /\ Len(<<>>) = 0 /\ ToSet(<<>>) = {}
      BY EmptySeq DEF ToSet
    <2>2. Distinct(<<>>)
      BY <2>1 DEF Distinct
    <2>3. Declared(<<>>)
      BY <2>1, <2>2, DeclareNone
    <2>4. QED
      BY <2>1, <2>3
  <1>2. ASSUME NEW s \in Seq(Findings), NEW x \in Findings, s \in S
        PROVE  Append(s, x) \in S
    <2>  DEFINE rules == BuildRuleMetadata(s)
                more == Append(s, x)
    <2>1. /\ rules \in Seq(Rules) /\ Distinct(rules)
          /\ \A r : r \in ToSet(rules) <=> \E f \in ToSet(s) : r = f.rule_id
      BY <1>2
    <2>2. more \in Seq(Findings) /\ BuildRuleMetadata(more) = DeclareRule(rules, x)
      BY AppendProperties, DeclareAppend
    <2>3. ToSet(more) = ToSet(s) \cup {x}
      BY AppendedToSet
    <2>4. x.rule_id \in Rules
      BY DEF Findings
    <2>  HIDE DEF rules, more
    <2>5. DOMAIN rules = 1 .. Len(rules)
      BY <2>1, LenProperties
    <2>6. Contains(rules, x.rule_id) <=> x.rule_id \in ToSet(rules)
      BY <2>5 DEF Contains, ToSet
    <2>7. CASE x.rule_id \in ToSet(rules)
      <3>1. BuildRuleMetadata(more) = rules
        BY <2>2, <2>6, <2>7 DEF DeclareRule
      <3>2. \A r : r \in ToSet(rules) <=> \E f \in ToSet(more) : r = f.rule_id
        BY <2>1, <2>3, <2>7
      <3>3. Declared(more)
        BY <2>1, <3>1, <3>2
      <3>4. QED
        BY <2>2, <3>3 DEF more
    <2>8. CASE x.rule_id \notin ToSet(rules)
      <3>1. BuildRuleMetadata(more) = Append(rules, x.rule_id)
        BY <2>2, <2>6, <2>8 DEF DeclareRule
      <3>2. ToSet(Append(rules, x.rule_id)) = ToSet(rules) \cup {x.rule_id}
        BY <2>1, <2>4, AppendedToSet
      <3>3. \A r : r \in ToSet(BuildRuleMetadata(more)) <=> \E f \in ToSet(more) : r = f.rule_id
        BY <2>1, <2>3, <3>1, <3>2
      <3>4. Append(rules, x.rule_id) \in Seq(Rules)
        BY <2>1, <2>4, AppendProperties
      <3>5. Distinct(Append(rules, x.rule_id))
        BY <2>1, <2>4, <2>8, DistinctAppend
      <3>6. Declared(more)
        BY <3>1, <3>3, <3>4, <3>5
      <3>7. QED
        BY <2>2, <3>6 DEF more
    <2>9. QED
      BY <2>7, <2>8
  <1>  HIDE DEF S
  <1>3. \A s \in Seq(Findings) : s \in S
    BY <1>1, <1>2, GrowsToAll
  <1>4. Declared(findings)
    BY <1>3 DEF S
  <1>5. QED
    BY <1>4

LEMMA PairAppended ==
    ASSUME NEW S, NEW a \in S, NEW b \in S
    PROVE  <<a>> \in Seq(S) /\ <<a, b>> = Append(<<a>>, b)
  OBVIOUS

LEMMA SarifReport ==
    ASSUME NEW findings \in Seq(Findings), NEW report, report = FindingsToSarif(findings)
    PROVE  /\ HasCriticalFindings(findings) =>
                 \E n \in DOMAIN report.results : report.results[n].level = "error"
           /\ ToSet(report.rules) = {report.results[n].ruleId : n \in DOMAIN report.results}
           /\ Len(report.rules) = Cardinality(ToSet(report.rules))
  <1>  DEFINE l == Len(findings)
              rules == BuildRuleMetadata(findings)
  <1>1. DOMAIN findings = 1 .. l
    BY LenProperties
  <1>  HIDE DEF l
  <1>2. /\ report.rules = rules /\ DOMAIN report.results = 1 .. l
        /\ \A n \in 1 .. l : /\ report.results[n].ruleId = findings[n].rule_id
                             /\ report.results[n].level = SeverityToSarifLevel[findings[n].severity]
    BY <1>1 DEF FindingsToSarif
  <1>3. ASSUME HasCriticalFindings(findings)
        PROVE  \E n \in DOMAIN report.results : report.results[n].level = "error"
    <2>1. PICK n \in 1 .. l : findings[n].severity = "CRITICAL"
      BY <1>1, <1>3 DEF HasCriticalFindings
    <2>2. SeverityToSarifLevel["CRITICAL"] = "error"
      BY DEF SeverityToSarifLevel
    <2>3. report.results[n].level = "error"
      BY <1>2, <2>1, <2>2
    <2>4. QED
      BY <1>2, <2>3
  <1>4. /\ rules \in Seq(Rules) /\ Distinct(rules)
        /\ ToSet(rules) = {f.rule_id : f \in ToSet(findings)}
    BY RulesDeclared
  <1>5. ToSet(findings) = {findings[n] : n \in 1 .. l}
    BY <1>1 DEF ToSet
  <1>  HIDE DEF rules
  <1>6. ToSet(rules) = {report.results[n].ruleId : n \in DOMAIN report.results}
    <2>1. ASSUME NEW r \in ToSet(rules) PROVE \E n \in 1 .. l : r = report.results[n].ruleId
      BY <1>2, <1>4, <1>5
    <2>2. ASSUME NEW n \in 1 .. l PROVE report.results[n].ruleId \in ToSet(rules)
      BY <1>2, <1>4, <1>5
    <2>3. QED
      BY <1>2, <2>1, <2>2
  <1>7. Len(rules) = Cardinality(ToSet(rules))
    BY <1>4, DistinctLength
  <1>8. QED
    BY <1>2, <1>3, <1>6, <1>7

LEMMA PairToSet ==
    ASSUME NEW a, NEW b
    PROVE  ToSet(<<a, b>>) = {a, b}
  <1>  DEFINE X == {a, b}
              one == <<a>>
  <1>1. a \in X /\ b \in X
    OBVIOUS
  <1>  HIDE DEF X
  <1>2. one \in Seq(X) /\ <<a, b>> = Append(one, b)
    BY <1>1, PairAppended
  <1>3. ToSet(one) = {a}
    BY SingleToSet
  <1>  HIDE DEF one
  <1>4. ToSet(Append(one, b)) = ToSet(one) \cup {b}
    BY <1>1, <1>2, AppendedToSet
  <1>5. QED
    BY <1>2, <1>3, <1>4

\* A directory of two files, of which the second is scanned.
LEMMA ScanOfTwo ==
    ASSUME NEW f, NEW g, NEW keeps, NEW findings \in Seq(Findings),
           keeps = {h \in {f, g} : ToSet(h.parts) \cap DEFAULT_EXCLUDED_PATHS = {}},
           g \in keeps, g.parses, ScanFile(g.tree) = findings,
           f \in keeps => f.parses /\ ScanFile(f.tree) = <<>>
    PROVE  ScanDirectory(<<f, g>>) = findings
  <1>  DEFINE X == {f, g}
              scanned == Filter(<<f, g>>, keeps)
  <1>1. /\ <<>> \in Seq(X) /\ <<f>> \in Seq(X) /\ <<f, g>> \in Seq(X)
        /\ <<f>> = Append(<<>>, f) /\ <<f, g>> = Append(<<f>>, g)
    OBVIOUS
  <1>2. ToSet(<<f, g>>) = X
    <2>1. ToSet(Append(<<f>>, g)) = ToSet(<<f>>) \cup {g}
      BY <1>1, AppendedToSet
    <2>2. ToSet(<<f>>) = {f}
      BY SingleToSet
    <2>3. QED
      BY <1>1, <2>1, <2>2
  <1>3. scanned = Chosen(Chosen(<<>>, f, keeps), g, keeps)
    <2>1. Filter(Append(<<>>, f), keeps) = Chosen(Filter(<<>>, keeps), f, keeps)
      BY <1>1, FilterAppend
    <2>2. Filter(Append(<<f>>, g), keeps) = Chosen(Filter(<<f>>, keeps), g, keeps)
      BY <1>1, FilterAppend
    <2>3. QED
      BY <1>1, <2>1, <2>2, FilterNone
  <1>4. ScanDirectory(<<f, g>>) =
            IF \E i \in DOMAIN scanned : ~scanned[i].parses THEN Aborted
            ELSE FlattenSeq([i \in DOMAIN scanned |-> ScanFile(scanned[i].tree)])
    <2>1. keeps = {h \in ToSet(<<f, g>>) : ToSet(h.parts) \cap DEFAULT_EXCLUDED_PATHS = {}}
      BY <1>2
    <2>2. QED
      BY <2>1 DEF ScanDirectory
  <1>5. <<>> \in Seq(Findings) /\ <<findings>> \in Seq(Seq(Findings))
    OBVIOUS
  <1>6. FlattenSeq(<<findings>>) = findings
    <2>1. FlattenSeq(Append(<<>>, findings)) = FlattenSeq(<<>>) \o findings
      <3>1. <<>> \in Seq(Seq(Findings))
        OBVIOUS
      <3>2. QED
        BY <3>1, FlattenAppend
    <2>2. <<>> \o findings = findings /\ Append(<<>>, findings) = <<findings>>
      OBVIOUS
    <2>3. QED
      BY <2>1, <2>2, FlattenNone
  <1>7. CASE f \notin keeps
    <2>1. scanned = <<g>>
      BY <1>3, <1>7 DEF Chosen
    <2>2. DOMAIN <<g>> = 1 .. 1 /\ <<g>>[1] = g
      OBVIOUS
    <2>3. \A i \in 1 .. 1 : i = 1
      OBVIOUS
    <2>4. ~\E i \in DOMAIN <<g>> : ~<<g>>[i].parses
      BY <2>2, <2>3
    <2>5. [i \in DOMAIN <<g>> |-> ScanFile(<<g>>[i].tree)] = <<findings>>
      BY <2>2, <2>3
    <2>  HIDE DEF scanned
    <2>6. QED
      BY <1>4, <1>6, <2>1, <2>4, <2>5
  <1>8. CASE f \in keeps
    <2>1. scanned = <<f, g>>
      BY <1>1, <1>3, <1>8 DEF Chosen
    <2>2. DOMAIN <<f, g>> = 1 .. 2 /\ <<f, g>>[1] = f /\ <<f, g>>[2] = g
      OBVIOUS
    <2>3. \A i \in 1 .. 2 : i = 1 \/ i = 2
      OBVIOUS
    <2>4. ~\E i \in DOMAIN <<f, g>> : ~<<f, g>>[i].parses
      BY <1>8, <2>2, <2>3
    <2>5. [i \in DOMAIN <<f, g>> |-> ScanFile(<<f, g>>[i].tree)] = <<<<>>, findings>>
      BY <1>8, <2>2, <2>3
    <2>6. FlattenSeq(<<<<>>, findings>>) = findings
      <3>1. <<<<>>>> \in Seq(Seq(Findings)) /\ Append(<<<<>>>>, findings) = <<<<>>, findings>>
        BY <1>5, PairAppended
      <3>2. FlattenSeq(Append(<<<<>>>>, findings)) = FlattenSeq(<<<<>>>>) \o findings
        BY <3>1, FlattenAppend
      <3>3. FlattenSeq(<<<<>>>>) = <<>>
        <4>1. <<>> \in Seq(Seq(Findings)) /\ Append(<<>>, <<>>) = <<<<>>>> /\ <<>> \o <<>> = <<>>
          OBVIOUS
        <4>2. FlattenSeq(Append(<<>>, <<>>)) = FlattenSeq(<<>>) \o <<>>
          BY <1>5, <4>1, FlattenAppend
        <4>3. QED
          BY <4>1, <4>2, FlattenNone
      <3>4. <<>> \o findings = findings
        OBVIOUS
      <3>5. QED
        BY <3>1, <3>2, <3>3, <3>4
    <2>  HIDE DEF scanned
    <2>7. QED
      BY <1>4, <2>1, <2>4, <2>5, <2>6
  <1>9. QED
    BY <1>7, <1>8

LEMMA EveryNodeScanned ==
    ASSUME NEW tree, IsTree(tree)
    PROVE  ReportsEveryNode(tree)
  <1>  DEFINE findings == ScanFile(tree)
              report == FindingsToSarif(findings)
              beside(dir) == [parts |-> <<dir, "a.py">>, parses |-> dir # "insecure", tree |-> <<>>]
              this == [parts |-> <<"app", "b.py">>, parses |-> TRUE, tree |-> tree]
  <1>1. findings \in Seq(Findings)
    BY ScanReports DEF Reports
  <1>2. Reported(findings) = Breaches(tree) /\ Len(findings) = Cardinality(Breaches(tree))
    BY ScanExpected
  <1>3. /\ HasCriticalFindings(findings) =>
              \E n \in DOMAIN report.results : report.results[n].level = "error"
        /\ ToSet(report.rules) = {report.results[n].ruleId : n \in DOMAIN report.results}
        /\ Len(report.rules) = Cardinality(ToSet(report.rules))
    <2>  HIDE DEF findings
    <2>1. QED
      BY <1>1, SarifReport
  <1>4. ScanFile(<<>>) = <<>>
    <2>1. <<>> \in Seq(Parsed) /\ Len(<<>>) = 0
      BY EmptySeq
    <2>2. IsTree(<<>>)
      BY <2>1 DEF IsTree
    <2>3. Reports(<<>>, ScanFile(<<>>), 1 .. 0)
      BY <2>1, <2>2, ScanReports
    <2>  DEFINE none == ScanFile(<<>>)
    <2>4. none \in Seq(Findings) /\ \A n \in 1 .. Len(none) : none[n].line \in 1 .. 0
      BY <2>3 DEF Reports, Sound
    <2>  HIDE DEF none
    <2>5. SUFFICES ASSUME none # <<>> PROVE FALSE
      BY DEF none
    <2>6. 1 \in 1 .. Len(none)
      BY <2>4, <2>5, EmptySeq
    <2>7. none[1].line \in 1 .. 0
      BY <2>4, <2>6
    <2>8. QED
      BY <2>7
  <1>5. \A a, b : ToSet(<<a, b>>) = {a, b}
    BY PairToSet
  <1>6. /\ this.parts = <<"app", "b.py">> /\ this.parses = TRUE /\ ScanFile(this.tree) = findings
        /\ ToSet(this.parts) \cap DEFAULT_EXCLUDED_PATHS = {}
    <2>1. ToSet(<<"app", "b.py">>) = {"app", "b.py"}
      BY <1>5
    <2>2. QED
      BY <2>1 DEF DEFAULT_EXCLUDED_PATHS
  <1>7. ASSUME NEW dir \in {"insecure", "app"}
        PROVE  /\ ScanFile(beside(dir).tree) = <<>>
               /\ ToSet(beside(dir).parts) \cap DEFAULT_EXCLUDED_PATHS = {} => beside(dir).parses
    <2>1. beside(dir).tree = <<>> /\ beside(dir).parts = <<dir, "a.py">> /\ beside(dir).parses = (dir # "insecure")
      OBVIOUS
    <2>2. ToSet(<<dir, "a.py">>) = {dir, "a.py"}
      BY <1>5
    <2>3. dir = "insecure" => "insecure" \in ToSet(beside(dir).parts) \cap DEFAULT_EXCLUDED_PATHS
      BY <2>1, <2>2 DEF DEFAULT_EXCLUDED_PATHS
    <2>4. QED
      BY <1>4, <2>1, <2>3
  <1>8. ASSUME NEW dir \in {"insecure", "app"}
        PROVE  ScanDirectory(<<beside(dir), this>>) = findings
    <2>  DEFINE f == beside(dir)
                keeps == {h \in {f, this} : ToSet(h.parts) \cap DEFAULT_EXCLUDED_PATHS = {}}
    <2>1. ScanFile(f.tree) = <<>> /\ (ToSet(f.parts) \cap DEFAULT_EXCLUDED_PATHS = {} => f.parses)
      BY <1>7
    <2>  HIDE DEF f, this, findings
    <2>2. this \in keeps /\ (f \in keeps => f.parses /\ ScanFile(f.tree) = <<>>)
      BY <1>6, <2>1
    <2>3. this.parses
      BY <1>6
    <2>  HIDE DEF keeps
    <2>4. keeps = {h \in {f, this} : ToSet(h.parts) \cap DEFAULT_EXCLUDED_PATHS = {}}
      BY DEF keeps
    <2>5. ScanDirectory(<<f, this>>) = findings
      BY <1>1, <1>6, <2>2, <2>3, <2>4, ScanOfTwo
    <2>6. QED
      BY <2>5 DEF f
  <1>9. \A dir \in {"insecure", "app"} :
           ScanDirectory(<<[parts |-> <<dir, "a.py">>, parses |-> dir # "insecure", tree |-> <<>>],
                           [parts |-> <<"app", "b.py">>, parses |-> TRUE, tree |-> tree]>>) = findings
    BY <1>8
  <1>  HIDE DEF beside, this
  <1>10. QED
    BY <1>2, <1>3, <1>9 DEF ReportsEveryNode

(* Whatever the nesting of a file: its findings are every rule that a node of  *)
(* its breaks, once for every keyword or target that breaks it; a critical one *)
(* is an error of the report, which                                            *)
(* declares each rule of its results once; and beside an excluded file or a    *)
(* clean one a directory has the same findings (scan_file and scan_directory   *)
(* of app/audit/security_scan.py, findings_to_sarif of app/audit/sarif.py).    *)
THEOREM EveryFindingReported == Spec => []ScanComplete
  <1>  DEFINE TreeTyped == job = "source" => IsTree(input)
  <1>1. Init => TreeTyped
    BY EmptySeq DEF Init, IsTree
  <1>2. TreeTyped /\ [Next]_vars => TreeTyped'
    <2>  SUFFICES ASSUME TreeTyped, [Next]_vars, job' = "source" PROVE IsTree(input')
      OBVIOUS
    <2>1. job = "source" /\ IsTree(input)
      BY DEF Next, Logs, Grow, vars
    <2>2. CASE Grow
      <3>1. PICK piece \in Pieces : input' = Append(input, piece)
        BY <2>2 DEF Grow
      <3>  DEFINE n == Len(input)
      <3>2. Pieces = Nodes(0 .. n)
        BY <2>1 DEF Pieces
      <3>3. input \in Seq(Parsed) /\ n \in Nat /\ \A i \in 1 .. n : input[i].parent \in 0 .. (i - 1)
        BY <2>1, LenProperties DEF IsTree
      <3>  HIDE DEF n
      <3>4. piece \in Parsed
        BY <3>1, <3>2, <3>3 DEF Parsed
      <3>5. piece.parent \in 0 .. n
        BY <3>1, <3>2 DEF Nodes
      <3>6. /\ input' \in Seq(Parsed) /\ Len(input') = n + 1 /\ input'[n + 1] = piece
            /\ \A i \in 1 .. n : input'[i] = input[i]
        BY <3>1, <3>3, <3>4, AppendProperties DEF n
      <3>7. ASSUME NEW i \in 1 .. (n + 1) PROVE input'[i].parent \in 0 .. (i - 1)
        <4>1. i \in 1 .. n \/ (i = n + 1 /\ i - 1 = n)
          BY <3>3
        <4>2. QED
          BY <3>3, <3>5, <3>6, <4>1
      <3>8. QED
        BY <3>6, <3>7 DEF IsTree
    <2>3. CASE UNCHANGED input
      BY <2>1, <2>3
    <2>4. QED
      BY <2>2, <2>3 DEF Next, Logs, vars
  <1>3. TreeTyped => ScanComplete
    BY EveryNodeScanned DEF ScanComplete
  <1>4. QED
    BY <1>1, <1>2, <1>3, PTL DEF Spec

=============================================================================
