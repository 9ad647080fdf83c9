------------------------------ MODULE LogProofs -----------------------------
(***************************************************************************)
(* Proofs about Log, for any number of writers, any capacity of the queue, *)
(* any number of days and lines and any m_split_lines.                     *)
(***************************************************************************)
EXTENDS Log, SequenceTheorems, FiniteSetTheorems, TLAPS

-----------------------------------------------------------------------------
(* The inductive invariant *)

\* The lines that have been through the first critical section of write_log().
Counted == {l \in Lines : l[2] < calls[l[1]] \/ (l[2] = calls[l[1]] /\ at[l[1]] # "count")}

\* m_count counts no line twice, so the suffix of a file is bounded.
CountBound == m_count <= Cardinality(Counted)

\* A writer in write_log() has a line.
InCall == \A w \in Writers : at[w] # "out" => calls[w] > 0

WrittenFinite == \A l \in Lines : IsFiniteSet(Written(l))

\* Without a queue nothing is queued, and what is in the buffer are lines whose
\* writers have yet to flush.
SyncInv ==
    capacity = 0 =>
        /\ m_log_queue = <<>> /\ single_log = NoLine /\ refused = {}
        /\ \A w \in Writers : at[w] # "push"
        /\ \A i \in DOMAIN buffer :
              buffer[i] = Line(buffer[i][1]) /\ at[buffer[i][1]] = "flush"

\* a may stand before b.
Before(a, b) == a[1] = b[1] => a[2] < b[2]
InOrder(s) == \A i, j \in DOMAIN s : i < j => Before(s[i], s[j])

\* With a queue that is never full the lines of a writer go through the queue and
\* the hands of the flush thread into the files, and are in order all the way.
QueueOrder ==
    capacity > 0 /\ capacity >= Cardinality(Lines) =>
        /\ \A w \in Writers : at[w] # "fputs"
        /\ InOrder(m_log_queue)
        /\ single_log # NoLine => \A j \in DOMAIN m_log_queue : Before(single_log, m_log_queue[j])
        /\ \A f \in Files : \A i \in DOMAIN Content(f) :
              /\ single_log # NoLine => Before(Content(f)[i], single_log)
              /\ \A j \in DOMAIN m_log_queue : Before(Content(f)[i], m_log_queue[j])

\* The writers whose line is counted and not yet written.
Pending == {w \in Writers : at[w] \in {"full", "fputs"}}

\* On the first day the suffix of the open file is m_count \div m_split_lines, the
\* files with a larger one have not been opened, and the open one has at most the
\* lines counted since it was opened and those that were pending then.
FirstDay ==
    day = 1 =>
        /\ m_today = 1 /\ \A w \in Writers : my_tm[w] = 1
        /\ m_fp = <<1, m_count \div SplitLines>>
        /\ capacity = 0 =>
            /\ \A f \in Files : f[1] = 1 /\ f[2] > m_count \div SplitLines => Content(f) = <<>>
            /\ Len(Content(m_fp)) + Cardinality(Pending)
                  <= (m_count % SplitLines) + Cardinality(Writers)

LogInv == /\ TypeOK /\ InCall /\ CountBound /\ WrittenFinite /\ EveryLineOnce
          /\ SyncInv /\ QueueOrder /\ WriterOrder /\ FirstDay /\ SplitBound

-----------------------------------------------------------------------------
(* Counting in sequences *)

\* The positions of a line in a sequence can be counted.
LEMMA OccType ==
    ASSUME NEW s \in Seq(Lines), NEW l
    PROVE  IsFiniteSet({i \in DOMAIN s : s[i] = l}) /\ Occurrences(l, s) \in Nat
<1>1. DOMAIN s = 1 .. Len(s) /\ Len(s) \in Nat BY LenProperties
<1>2. IsFiniteSet(1 .. Len(s)) BY <1>1, FS_Interval
<1>3. {i \in DOMAIN s : s[i] = l} \in SUBSET (1 .. Len(s)) BY <1>1
<1> QED BY <1>2, <1>3, FS_Subset, FS_CardinalityType DEF Occurrences

\* A sequence with one element more, and one without its first.
LEMMA AppendFacts ==
    ASSUME NEW s \in Seq(Lines), NEW x \in Lines
    PROVE  /\ Len(s) \in Nat /\ DOMAIN s = 1 .. Len(s) /\ Append(s, x) \in Seq(Lines)
           /\ DOMAIN Append(s, x) = 1 .. (Len(s) + 1) /\ Len(Append(s, x)) = Len(s) + 1
           /\ \A i \in 1 .. Len(s) : Append(s, x)[i] = s[i]
           /\ Append(s, x)[Len(s) + 1] = x
<1>1. Len(s) \in Nat /\ DOMAIN s = 1 .. Len(s) BY LenProperties
<1>2. /\ Append(s, x) \in Seq(Lines) /\ Len(Append(s, x)) = Len(s) + 1
      /\ \A i \in 1 .. Len(s) : Append(s, x)[i] = s[i]
      /\ Append(s, x)[Len(s) + 1] = x
  BY AppendProperties
<1>3. DOMAIN Append(s, x) = 1 .. Len(Append(s, x)) BY <1>2, LenProperties
<1> QED BY <1>1, <1>2, <1>3

\* Tail takes the first element off.
LEMMA TailFacts ==
    ASSUME NEW s \in Seq(Lines), s # <<>>
    PROVE  /\ DOMAIN s = 1 .. Len(s) /\ Len(s) \in Nat \ {0} /\ Head(s) = s[1]
           /\ DOMAIN Tail(s) = 1 .. (Len(s) - 1)
           /\ \A i \in 1 .. (Len(s) - 1) : Tail(s)[i] = s[i + 1]
           /\ Tail(s) \in Seq(Lines)
BY LenProperties, HeadTailProperties, EmptySeq

\* What an element more at the end adds to the count.
LEMMA OccAppend ==
    ASSUME NEW s \in Seq(Lines), NEW x \in Lines, NEW l
    PROVE  Occurrences(l, Append(s, x)) = Occurrences(l, s) + (IF x = l THEN 1 ELSE 0)
<1> DEFINE P == {i \in DOMAIN s : s[i] = l}
           Q == {i \in DOMAIN Append(s, x) : Append(s, x)[i] = l}
           n == Len(s) + 1
<1>1. /\ DOMAIN s = 1 .. Len(s) /\ Len(s) \in Nat
      /\ DOMAIN Append(s, x) = 1 .. n
      /\ \A i \in 1 .. Len(s) : Append(s, x)[i] = s[i]
      /\ Append(s, x)[n] = x
  BY AppendFacts
<1>2. Q = IF x = l THEN P \cup {n} ELSE P BY <1>1
<1>3. n \notin P BY <1>1
<1>4. IsFiniteSet(P) /\ Cardinality(P) \in Nat BY OccType, FS_CardinalityType
<1>5. Cardinality(P \cup {n}) = Cardinality(P) + 1 BY <1>3, <1>4, FS_AddElement
<1>6. Occurrences(l, s) = Cardinality(P) /\ Occurrences(l, Append(s, x)) = Cardinality(Q)
  BY Zenon DEF Occurrences
<1> HIDE DEF P, Q, n
<1> QED BY <1>2, <1>4, <1>5, <1>6

\* What the first element contributes to the count.
LEMMA OccTail ==
    ASSUME NEW s \in Seq(Lines), s # <<>>, NEW l
    PROVE  Occurrences(l, s) = Occurrences(l, Tail(s)) + (IF Head(s) = l THEN 1 ELSE 0)
<1> DEFINE P == {i \in DOMAIN s : s[i] = l}
           Q == {i \in DOMAIN Tail(s) : Tail(s)[i] = l}
           f == [i \in Q |-> i + 1]
<1>1. /\ DOMAIN s = 1 .. Len(s) /\ Len(s) \in Nat \ {0} /\ Head(s) = s[1]
      /\ DOMAIN Tail(s) = 1 .. (Len(s) - 1)
      /\ \A i \in 1 .. (Len(s) - 1) : Tail(s)[i] = s[i + 1]
      /\ Tail(s) \in Seq(Lines)
  BY TailFacts
<1>2. f \in Bijection(Q, P \ {1})
  <2>1. \A i \in Q : f[i] \in P \ {1} BY <1>1
  <2>2. \A i, j \in Q : f[i] = f[j] => i = j BY <1>1
  <2>3. \A k \in P \ {1} : k - 1 \in Q /\ f[k - 1] = k BY <1>1
  <2> QED BY <2>1, <2>2, <2>3 DEF Bijection, Injection, Surjection, IsInjective
<1>3. IsFiniteSet(Q) /\ IsFiniteSet(P) /\ Cardinality(P) \in Nat BY <1>1, OccType, FS_CardinalityType
<1>4. Cardinality(P \ {1}) = Cardinality(Q)
  <2>1. ExistsBijection(Q, P \ {1}) BY <1>2, Zenon DEF ExistsBijection
  <2> HIDE DEF P, Q
  <2> QED BY <1>3, <2>1, FS_Bijection
<1>5. Cardinality(P \ {1}) = IF 1 \in P THEN Cardinality(P) - 1 ELSE Cardinality(P)
  BY <1>3, FS_RemoveElement
<1>6. 1 \in P <=> Head(s) = l BY <1>1
<1>7. Occurrences(l, s) = Cardinality(P) /\ Occurrences(l, Tail(s)) = Cardinality(Q)
  BY Zenon DEF Occurrences
<1> HIDE DEF P, Q
<1> QED BY <1>3, <1>4, <1>5, <1>6, <1>7

\* An element of the sequence is counted.
LEMMA OccElement ==
    ASSUME NEW s \in Seq(Lines), NEW i \in DOMAIN s
    PROVE  Occurrences(s[i], s) >= 1
<1> DEFINE P == {j \in DOMAIN s : s[j] = s[i]}
<1>1. IsFiniteSet(P) /\ Cardinality(P) \in Nat BY OccType DEF Occurrences
<1>2. i \in P OBVIOUS
<1>3. Cardinality(P) # 0 BY <1>1, <1>2, FS_EmptySet
<1>4. Cardinality(P) >= 1 BY <1>1, <1>3
<1> QED BY <1>4 DEF Occurrences

\* One that is counted once is at one position only.
LEMMA OccOnce ==
    ASSUME NEW s \in Seq(Lines), NEW i \in DOMAIN s, NEW j \in DOMAIN s,
           s[i] = s[j], Occurrences(s[i], s) <= 1
    PROVE  i = j
<1> DEFINE P == {k \in DOMAIN s : s[k] = s[i]}
<1>1. IsFiniteSet(P) /\ Cardinality(P) \in Nat /\ Cardinality(P) <= 1 BY OccType DEF Occurrences
<1>2. IsFiniteSet(P \ {i}) /\ Cardinality(P \ {i}) = Cardinality(P) - 1 BY <1>1, FS_RemoveElement
<1>3. Cardinality(P \ {i}) \in Nat BY <1>2, FS_CardinalityType
<1>4. Cardinality(P \ {i}) = 0 BY <1>1, <1>2, <1>3
<1>5. P \ {i} = {} BY <1>2, <1>4, FS_EmptySet
<1> QED BY <1>5
-----------------------------------------------------------------------------
(* Line counts and suffixes *)

\* Quotient and remainder.
LEMMA DivMod ==
    ASSUME NEW c \in Nat, NEW s \in Nat \ {0}
    PROVE  /\ c \div s \in Nat /\ c % s \in 0 .. (s - 1)
           /\ c = s * (c \div s) + (c % s)
OBVIOUS

\* Multiples of a positive number.
LEMMA MulMono ==
    ASSUME NEW s \in Nat \ {0}, NEW d \in Int
    PROVE  /\ d >= 2 => s * d >= 2 * s
           /\ d <= -1 => s * d <= -s
           /\ d >= 0 => s * d >= d
OBVIOUS

\* What one line more does to "m_count % m_split_lines" and to the suffix.
LEMMA DivStep ==
    ASSUME NEW c \in Nat, NEW s \in Nat \ {0}
    PROVE  /\ c \div s \in Nat /\ c % s \in 0 .. (s - 1) /\ c \div s <= c
           /\ (c + 1) % s # 0 => (c + 1) \div s = c \div s /\ (c + 1) % s = (c % s) + 1
           /\ (c + 1) % s = 0 => (c + 1) \div s = (c \div s) + 1
<1>1. PICK q \in Nat, r \in 0 .. (s - 1) : q = c \div s /\ r = c % s /\ c = s * q + r
  BY DivMod
<1>2. PICK q2 \in Nat, r2 \in 0 .. (s - 1) :
          q2 = (c + 1) \div s /\ r2 = (c + 1) % s /\ c + 1 = s * q2 + r2
  <2>1. c + 1 \in Nat OBVIOUS
  <2> QED BY <2>1, DivMod
<1>3. PICK d \in Int : d = q2 - q OBVIOUS
<1>4. s * d = r + 1 - r2
  <2>1. s * d = s * q2 - s * q BY <1>3
  <2> QED BY <1>1, <1>2, <2>1
<1>5. d = 0 \/ d = 1
  BY <1>4, MulMono
<1>6. s * q >= q BY MulMono
<1>7. q <= c BY <1>1, <1>6
<1>8. CASE d = 0
  <2>1. s * d = 0 /\ q2 = q BY <1>8, <1>3
  <2>2. r2 = r + 1 BY <2>1, <1>4
  <2>3. q2 = q /\ r2 # 0 /\ r2 = r + 1 BY <2>1, <2>2
  <2> QED BY <1>1, <1>2, <1>7, <2>3
<1>9. CASE d = 1
  <2>1. s * d = s /\ q2 = q + 1 BY <1>9, <1>3
  <2>2. r2 = 0 BY <2>1, <1>4
  <2> QED BY <1>1, <1>2, <1>7, <2>1, <2>2
<1> QED BY <1>5, <1>8, <1>9

-----------------------------------------------------------------------------
(* Types, and the bound on m_count *)

\* There are finitely many lines.
LEMMA LinesFinite ==
    /\ IsFiniteSet(Lines) /\ Cardinality(Lines) = MaxLines * Cardinality(Writers)
    /\ Cardinality(Writers) \in Nat /\ Cardinality(Lines) \in Nat
<1>1. IsFiniteSet(1 .. MaxLines) /\ Cardinality(1 .. MaxLines) = MaxLines
  BY LogAssumption, FS_Interval
<1>2. Cardinality(Writers) \in Nat BY LogAssumption, FS_CardinalityType
<1>3. IsFiniteSet(Lines) /\ Cardinality(Lines) = Cardinality(Writers) * MaxLines
  BY <1>1, LogAssumption, FS_Product DEF Lines
<1> QED BY <1>2, <1>3, LogAssumption

\* The lines that are counted are finitely many.
LEMMA CountedFinite ==
    IsFiniteSet(Counted) /\ Cardinality(Counted) \in Nat /\ Cardinality(Counted) <= Cardinality(Lines)
<1>1. Counted \in SUBSET Lines BY DEF Counted
<1> QED BY <1>1, LinesFinite, FS_Subset, FS_CardinalityType

\* A suffix that m_count can reach names a file of the model.
LEMMA SuffixInFiles ==
    ASSUME NEW c \in Nat, c <= Cardinality(Lines), NEW d \in Days
    PROVE  <<d, c \div SplitLines>> \in Files /\ <<d, 0>> \in Files
<1>1. c \div SplitLines \in Nat /\ c \div SplitLines <= c BY LogAssumption, DivStep
<1> QED BY <1>1, LinesFinite DEF Files

\* The suffix of the open file and the lines counted since it was opened.
LEMMA SuffixType ==
    ASSUME TypeOK
    PROVE  /\ m_count \div SplitLines \in Nat /\ m_count % SplitLines \in Nat
           /\ m_count % SplitLines <= SplitLines - 1
<1>1. m_count \in Nat /\ SplitLines \in Nat \ {0} BY LogAssumption DEF TypeOK
<1>2. m_count \div SplitLines \in Nat /\ m_count % SplitLines \in 0 .. (SplitLines - 1) BY <1>1, DivStep
<1>3. ASSUME NEW r \in 0 .. (SplitLines - 1) PROVE r \in Nat /\ r <= SplitLines - 1 BY <1>1
<1> QED BY <1>2, <1>3, Zenon

\* The line of a call that has begun.
LEMMA LineType == ASSUME TypeOK, InCall, NEW w \in Writers, at[w] # "out" PROVE Line(w) \in Lines
BY LogAssumption DEF TypeOK, InCall, Line, Lines

\* What fflush() or a new fopen() leaves on disk is lines.
LEMMA FlushedType == TypeOK => Flushed \in [Files -> Seq(Lines)]
<1> SUFFICES ASSUME TypeOK PROVE Flushed \in [Files -> Seq(Lines)] OBVIOUS
<1>1. disk[m_fp] \o buffer \in Seq(Lines) BY ConcatProperties DEF TypeOK
<1> QED BY <1>1 DEF Flushed, TypeOK

\* The first critical section counts the line of its writer and no other.
LEMMA CountStep ==
    ASSUME TypeOK, InCall, CountBound, NEW w \in Writers, Write_Count(w)
    PROVE  /\ TypeOK' /\ InCall' /\ CountBound'
           /\ m_count + 1 \in Nat /\ m_count + 1 <= Cardinality(Lines)
<1>1. Line(w) \in Lines /\ Line(w) \notin Counted /\ Counted' = Counted \cup {Line(w)}
  <2>1. Line(w) \in Lines BY LineType DEF Write_Count, Goes
  <2>2. Line(w) \notin Counted BY DEF Counted, Line, Write_Count, Goes, TypeOK
  <2>3. \A l \in Lines : l \in Counted' <=> l \in Counted \/ l = Line(w)
    BY DEF Counted, Line, Lines, Write_Count, Goes, TypeOK
  <2>4. Counted \subseteq Lines /\ Counted' \subseteq Lines BY DEF Counted, Lines
  <2> QED BY <2>1, <2>2, <2>3, <2>4
<1>2. Cardinality(Counted') = Cardinality(Counted) + 1 BY <1>1, CountedFinite, FS_AddElement
<1>3. Cardinality(Counted') <= Cardinality(Lines)
  <2>1. Counted' \in SUBSET Lines BY DEF Counted, Lines
  <2> QED BY <2>1, LinesFinite, FS_Subset
<1>4. m_count + 1 \in Nat /\ m_count + 1 <= Cardinality(Lines) /\ m_count + 1 <= Cardinality(Counted')
  BY <1>2, <1>3, CountedFinite, LinesFinite DEF CountBound, TypeOK
<1>5. CountBound' BY <1>2, <1>4, CountedFinite DEF CountBound, Write_Count, TypeOK
<1>6. my_tm[w] \in Days BY DEF TypeOK
<1>7. m_fp' \in Files BY <1>4, <1>6, SuffixInFiles DEF Write_Count, TypeOK
<1>8. disk' \in [Files -> Seq(Lines)] /\ buffer' \in Seq(Lines)
  BY FlushedType DEF Write_Count, TypeOK
<1>9. m_count' \in Nat /\ m_today' \in Days BY <1>4, <1>6 DEF Write_Count, TypeOK
<1>10. TypeOK' /\ InCall' BY <1>7, <1>8, <1>9 DEF TypeOK, InCall, Write_Count, Goes
<1> QED BY <1>4, <1>5, <1>10

\* Types and the bound on m_count are kept by every step.
LEMMA TypeStep ==
    ASSUME TypeOK, InCall, CountBound, [Next]_vars
    PROVE  TypeOK' /\ InCall' /\ CountBound'
<1> USE LogAssumption DEF fileVars, writerVars
<1>1. ASSUME NEW w \in Writers, Write_Call(w) PROVE TypeOK' /\ InCall' /\ CountBound'
  <2>1. Counted' = Counted BY <1>1 DEF Counted, Lines, Write_Call, Goes, TypeOK
  <2>2. CountBound' BY <1>1, <2>1 DEF CountBound, Write_Call
  <2> QED BY <1>1, <2>2 DEF TypeOK, InCall, Write_Call, Goes
<1>2. ASSUME NEW w \in Writers, Write_Count(w) PROVE TypeOK' /\ InCall' /\ CountBound'
  BY <1>2, CountStep
<1>3. ASSUME NEW w \in Writers, Write_Full(w) PROVE TypeOK' /\ InCall' /\ CountBound'
  <2>1. Counted' = Counted BY <1>3 DEF Counted, Lines, Write_Full, Goes, TypeOK
  <2> QED BY <1>3, <2>1 DEF TypeOK, InCall, CountBound, Write_Full, Goes
<1>4. ASSUME NEW w \in Writers, Write_Push(w) PROVE TypeOK' /\ InCall' /\ CountBound'
  <2>1. Counted' = Counted BY <1>4 DEF Counted, Lines, Write_Push, Goes, TypeOK
  <2>2. Line(w) \in Lines BY <1>4, LineType DEF Write_Push, Goes
  <2>3. Len(m_log_queue) < capacity =>
            /\ Append(m_log_queue, Line(w)) \in Seq(Lines)
            /\ Len(Append(m_log_queue, Line(w))) <= capacity
    BY <2>2, AppendProperties, LenProperties DEF TypeOK
  <2> QED BY <1>4, <2>1, <2>2, <2>3 DEF TypeOK, InCall, CountBound, Write_Push, Goes
<1>5. ASSUME NEW w \in Writers, Write_Fputs(w) PROVE TypeOK' /\ InCall' /\ CountBound'
  <2>1. Counted' = Counted BY <1>5 DEF Counted, Lines, Write_Fputs, Goes, TypeOK
  <2>2. Line(w) \in Lines BY <1>5, LineType DEF Write_Fputs, Goes
  <2>3. Append(buffer, Line(w)) \in Seq(Lines) BY <2>2, AppendProperties DEF TypeOK
  <2> QED BY <1>5, <2>1, <2>3 DEF TypeOK, InCall, CountBound, Write_Fputs, Goes
<1>6. ASSUME NEW w \in Writers, Write_Flush(w) PROVE TypeOK' /\ InCall' /\ CountBound'
  <2>1. Counted' = Counted BY <1>6 DEF Counted, Lines, Write_Flush, Goes, TypeOK
  <2> QED BY <1>6, <2>1, FlushedType DEF TypeOK, InCall, CountBound, Write_Flush, Goes
<1>7. ASSUME Async_Pop PROVE TypeOK' /\ InCall' /\ CountBound'
  <2>1. Counted' = Counted BY <1>7 DEF Counted, Lines, Async_Pop
  <2>2. /\ Head(m_log_queue) \in Lines /\ Tail(m_log_queue) \in Seq(Lines)
        /\ Len(Tail(m_log_queue)) = Len(m_log_queue) - 1 /\ Len(m_log_queue) \in Nat
    BY <1>7, HeadTailProperties, LenProperties DEF Async_Pop, TypeOK
  <2> QED BY <1>7, <2>1, <2>2 DEF TypeOK, InCall, CountBound, Async_Pop
<1>8. ASSUME Async_Fputs PROVE TypeOK' /\ InCall' /\ CountBound'
  <2>1. Counted' = Counted BY <1>8 DEF Counted, Lines, Async_Fputs
  <2>2. Append(buffer, single_log) \in Seq(Lines)
    BY <1>8, AppendProperties DEF Async_Fputs, TypeOK
  <2> QED BY <1>8, <2>1, <2>2 DEF TypeOK, InCall, CountBound, Async_Fputs
<1>9. ASSUME Midnight PROVE TypeOK' /\ InCall' /\ CountBound'
  <2>1. Counted' = Counted BY <1>9 DEF Counted, Lines, Midnight
  <2> QED BY <1>9, <2>1 DEF TypeOK, InCall, CountBound, Midnight, Days
<1>10. ASSUME UNCHANGED vars PROVE TypeOK' /\ InCall' /\ CountBound'
  <2>1. Counted' = Counted BY <1>10 DEF Counted, Lines, vars
  <2> QED BY <1>10, <2>1 DEF TypeOK, InCall, CountBound, vars
<1> QED
  BY <1>1, <1>2, <1>3, <1>4, <1>5, <1>6, <1>7, <1>8, <1>9, <1>10 DEF Next, WriterStep

-----------------------------------------------------------------------------
(* What a step does to the files *)

KeepsFiles == \A f \in Files : Content(f)' = Content(f)
PutsLine(x) == \A f \in Files :
                  Content(f)' = IF f = m_fp THEN Append(Content(f), x) ELSE Content(f)

\* A file holds lines.
LEMMA ContentType == ASSUME TypeOK, NEW f \in Files PROVE Content(f) \in Seq(Lines)
BY ConcatProperties, EmptySeq DEF TypeOK, Content

\* fflush() and fclose() move lines from the buffer to the disk: what a file holds,
\* its buffer included, stays, whatever file is opened next.
LEMMA FlushKeepsFiles ==
    ASSUME TypeOK, TypeOK', disk' = Flushed, buffer' = <<>>
    PROVE  KeepsFiles
<1> SUFFICES ASSUME NEW f \in Files PROVE Content(f)' = Content(f) BY DEF KeepsFiles
<1>1. Content(f)' = disk'[f] \o <<>> BY DEF Content
<1>2. disk'[f] \in Seq(Lines) BY DEF TypeOK
<1>3. Content(f)' = disk'[f] BY <1>1, <1>2, ConcatEmptySeq
<1>4. CASE f = m_fp BY <1>3, <1>4 DEF Flushed, Content, TypeOK
<1>5. CASE f # m_fp
  <2>1. disk'[f] = disk[f] BY <1>5 DEF Flushed, TypeOK
  <2> QED BY <1>3, <1>5, <2>1, <1>2, ConcatEmptySeq DEF Content
<1> QED BY <1>4, <1>5

\* A step that touches neither disk nor buffer keeps the files.
LEMMA SameKeepsFiles == ASSUME UNCHANGED <<disk, buffer, m_fp>> PROVE KeepsFiles
BY DEF KeepsFiles, Content

\* fputs() at the end of the buffer is fputs() at the end of the file.
LEMMA ConcatAppend ==
    ASSUME NEW s \in Seq(Lines), NEW t \in Seq(Lines), NEW x \in Lines
    PROVE  s \o Append(t, x) = Append(s \o t, x)
OBVIOUS

\* fputs() adds a line at the end of the open file.
LEMMA FputsPutsLine ==
    ASSUME TypeOK, NEW x \in Lines, buffer' = Append(buffer, x), UNCHANGED <<disk, m_fp>>
    PROVE  PutsLine(x)
<1> SUFFICES ASSUME NEW f \in Files
             PROVE  Content(f)' = IF f = m_fp THEN Append(Content(f), x) ELSE Content(f)
  BY DEF PutsLine
<1>1. disk[f] \in Seq(Lines) /\ buffer \in Seq(Lines) BY DEF TypeOK
<1>2. CASE f = m_fp
  <2>1. Content(f)' = disk[f] \o Append(buffer, x) BY <1>2 DEF Content
  <2>2. Content(f) = disk[f] \o buffer BY <1>2 DEF Content
  <2>3. disk[f] \o Append(buffer, x) = Append(disk[f] \o buffer, x) BY <1>1, ConcatAppend
  <2> QED BY <1>2, <2>1, <2>2, <2>3, Zenon
<1>3. CASE f # m_fp BY <1>3 DEF Content
<1> QED BY <1>2, <1>3

\* A step that keeps the files keeps the places of every line.
LEMMA WrittenKept == ASSUME KeepsFiles, NEW l \in Lines PROVE Written(l)' = Written(l)
BY DEF KeepsFiles, Written

\* fputs() adds one place to its line and none to the others.
LEMMA WrittenPut ==
    ASSUME TypeOK, NEW x \in Lines, PutsLine(x), NEW l \in Lines, IsFiniteSet(Written(l))
    PROVE  /\ IsFiniteSet(Written(l)')
           /\ Cardinality(Written(l)') = Cardinality(Written(l)) + (IF x = l THEN 1 ELSE 0)
<1> DEFINE s == Content(m_fp)
           p == <<m_fp, Len(s) + 1>>
<1>1. m_fp \in Files BY DEF TypeOK
<1>2. /\ s \in Seq(Lines) /\ Len(s) \in Nat /\ DOMAIN s = 1 .. Len(s)
      /\ DOMAIN Append(s, x) = 1 .. (Len(s) + 1)
      /\ \A i \in 1 .. Len(s) : Append(s, x)[i] = s[i]
      /\ Append(s, x)[Len(s) + 1] = x
  BY <1>1, ContentType, AppendFacts
<1>3. \A f \in Files : \A i :
         (i \in DOMAIN (Content(f)') /\ (Content(f)')[i] = l)
            <=> (i \in DOMAIN Content(f) /\ Content(f)[i] = l)
                \/ (x = l /\ f = m_fp /\ i = Len(s) + 1)
  <2> SUFFICES ASSUME NEW f \in Files, NEW i
               PROVE (i \in DOMAIN (Content(f)') /\ (Content(f)')[i] = l)
            <=> (i \in DOMAIN Content(f) /\ Content(f)[i] = l)
                \/ (x = l /\ f = m_fp /\ i = Len(s) + 1)
    OBVIOUS
  <2>1. CASE f = m_fp
    <3>1. Content(f)' = Append(s, x) /\ Content(f) = s BY <2>1 DEF PutsLine
    <3> HIDE DEF s
    <3>2. i \in DOMAIN Append(s, x) <=> i \in DOMAIN s \/ i = Len(s) + 1 BY <1>2
    <3>3. i \in DOMAIN s => i # Len(s) + 1 /\ Append(s, x)[i] = s[i] BY <1>2
    <3> QED BY <1>2, <2>1, <3>1, <3>2, <3>3
  <2>2. CASE f # m_fp BY <2>2 DEF PutsLine
  <2> QED BY <2>1, <2>2
<1>4. \A f, i : <<f, i>> \in Written(l) <=> f \in Files /\ i \in DOMAIN Content(f) /\ Content(f)[i] = l
  BY DEF Written
<1>5. \A f, i : <<f, i>> \in Written(l)' <=> f \in Files /\ i \in DOMAIN (Content(f)') /\ (Content(f)')[i] = l
  BY DEF Written
<1>6. \A q \in Written(l) : q = <<q[1], q[2]>> BY DEF Written
<1>7. \A q \in Written(l)' : q = <<q[1], q[2]>> BY DEF Written
<1>8. Written(l)' = IF x = l THEN Written(l) \cup {p} ELSE Written(l)
  <2> HIDE DEF s
  <2>1. \A f, i : <<f, i>> \in Written(l)' <=> <<f, i>> \in Written(l) \/ (x = l /\ <<f, i>> = p)
    BY <1>1, <1>3, <1>4, <1>5
  <2>2. \A q : q \in Written(l)' <=> q \in Written(l) \/ (x = l /\ q = p)
    BY <2>1, <1>6, <1>7
  <2> HIDE DEF p
  <2> QED BY <2>2
<1>9. p \notin Written(l)
  <2>1. Len(s) + 1 \notin DOMAIN s BY <1>2
  <2> QED BY <2>1, <1>4
<1>10. Cardinality(Written(l)) \in Nat BY FS_CardinalityType
<1> HIDE DEF p
<1>11. IsFiniteSet(Written(l) \cup {p}) /\ Cardinality(Written(l) \cup {p}) = Cardinality(Written(l)) + 1
  BY <1>9, FS_AddElement
<1>12. CASE x = l BY <1>8, <1>11, <1>12
<1>13. CASE x # l BY <1>8, <1>10, <1>13
<1> QED BY <1>12, <1>13

-----------------------------------------------------------------------------
(* Every line once *)

\* The summands of Copies, and that all are zero when the sum is.
LEMMA CopiesSum ==
    ASSUME TypeOK, WrittenFinite, NEW l \in Lines
    PROVE  /\ Cardinality(Written(l)) \in Nat /\ Occurrences(l, m_log_queue) \in Nat
           /\ IsFiniteSet(Written(l))
           /\ Copies(l) = 0 => /\ Cardinality(Written(l)) = 0 /\ Occurrences(l, m_log_queue) = 0
                               /\ single_log # l /\ l \notin refused
<1>1. Cardinality(Written(l)) \in Nat /\ IsFiniteSet(Written(l)) BY FS_CardinalityType DEF WrittenFinite
<1>2. Occurrences(l, m_log_queue) \in Nat BY OccType DEF TypeOK
<1> QED BY <1>1, <1>2 DEF Copies

\* A step that moves no line and lets no writer hand one on.
LEMMA OnceKept ==
    ASSUME WrittenFinite, EveryLineOnce, KeepsFiles, UNCHANGED <<m_log_queue, single_log, refused>>,
           \A l \in Lines : Returned(l)' <=> Returned(l)
    PROVE  WrittenFinite' /\ EveryLineOnce'
<1> SUFFICES ASSUME NEW l \in Lines
             PROVE  IsFiniteSet(Written(l)') /\ Copies(l)' = IF Returned(l)' THEN 1 ELSE 0
  BY DEF WrittenFinite, EveryLineOnce, Lines
<1>1. Written(l)' = Written(l) BY WrittenKept
<1>2. Occurrences(l, m_log_queue)' = Occurrences(l, m_log_queue) BY DEF Occurrences
<1>3. Copies(l)' = Copies(l) BY <1>1, <1>2 DEF Copies
<1> QED BY <1>1, <1>3 DEF WrittenFinite, EveryLineOnce

\* The line that a writer at "push" or "fputs" hands on is nowhere yet.
LEMMA HandOn ==
    ASSUME TypeOK, InCall, WrittenFinite, EveryLineOnce, NEW w \in Writers, at[w] \in {"full", "push", "fputs"},
           at' = [at EXCEPT ![w] = "flush"], UNCHANGED calls
    PROVE  /\ Line(w) \in Lines /\ ~Returned(Line(w)) /\ Copies(Line(w)) = 0
           /\ \A l \in Lines : Returned(l)' <=> Returned(l) \/ l = Line(w)
<1>1. Line(w) \in Lines BY LineType
<1>2. ~Returned(Line(w)) BY DEF Returned, Line, TypeOK
<1>3. Copies(Line(w)) = 0 BY <1>1, <1>2 DEF EveryLineOnce
<1>4. \A l \in Lines : Returned(l)' <=> Returned(l) \/ l = Line(w)
  BY DEF Returned, Line, Lines, TypeOK
<1> QED BY <1>1, <1>2, <1>3, <1>4

\* Every step moves a line from one place to another, or hands a new one on.
LEMMA OnceStep ==
    ASSUME TypeOK, InCall, WrittenFinite, EveryLineOnce, TypeOK', [Next]_vars
    PROVE  WrittenFinite' /\ EveryLineOnce'
<1> USE DEF fileVars, writerVars
<1>1. ASSUME NEW w \in Writers, Write_Call(w) PROVE WrittenFinite' /\ EveryLineOnce'
  <2>1. KeepsFiles BY <1>1, SameKeepsFiles DEF Write_Call
  <2>2. \A l \in Lines : Returned(l)' <=> Returned(l) BY <1>1 DEF Write_Call, Goes, Returned, Lines, TypeOK
  <2> QED BY <1>1, <2>1, <2>2, OnceKept DEF Write_Call
<1>2. ASSUME NEW w \in Writers, Write_Count(w) PROVE WrittenFinite' /\ EveryLineOnce'
  <2>1. KeepsFiles
    <3>1. (disk' = Flushed /\ buffer' = <<>>) \/ UNCHANGED <<disk, buffer, m_fp>> BY <1>2 DEF Write_Count
    <3> QED BY <3>1, SameKeepsFiles, FlushKeepsFiles
  <2>2. \A l \in Lines : Returned(l)' <=> Returned(l) BY <1>2 DEF Write_Count, Goes, Returned, Lines, TypeOK
  <2> QED BY <1>2, <2>1, <2>2, OnceKept DEF Write_Count
<1>3. ASSUME NEW w \in Writers, Write_Full(w) PROVE WrittenFinite' /\ EveryLineOnce'
  <2>1. KeepsFiles BY <1>3, SameKeepsFiles DEF Write_Full
  <2>2. \A l \in Lines : Returned(l)' <=> Returned(l) BY <1>3 DEF Write_Full, Goes, Returned, Lines, TypeOK
  <2> QED BY <1>3, <2>1, <2>2, OnceKept DEF Write_Full
<1>4. ASSUME NEW w \in Writers, Write_Push(w) PROVE WrittenFinite' /\ EveryLineOnce'
  <2> DEFINE x == Line(w)
  <2>1. /\ x \in Lines /\ Copies(x) = 0 /\ ~Returned(x)
        /\ \A l \in Lines : Returned(l)' <=> Returned(l) \/ l = x
    BY <1>4, HandOn DEF Write_Push, Goes
  <2>2. KeepsFiles BY <1>4, SameKeepsFiles DEF Write_Push
  <2> SUFFICES ASSUME NEW l \in Lines
               PROVE  IsFiniteSet(Written(l)') /\ Copies(l)' = IF Returned(l)' THEN 1 ELSE 0
    BY DEF WrittenFinite, EveryLineOnce, Lines
  <2>3. Written(l)' = Written(l) BY <2>2, WrittenKept
  <2>4. single_log' = single_log /\ m_log_queue \in Seq(Lines) BY <1>4 DEF Write_Push, TypeOK
  <2>5. Copies(l) = IF Returned(l) THEN 1 ELSE 0 BY DEF EveryLineOnce
  <2> HIDE DEF x
  <2>6. CASE Len(m_log_queue) < capacity
    <3>1. m_log_queue' = Append(m_log_queue, x) /\ refused' = refused BY <1>4, <2>6 DEF Write_Push, x
    <3>2. Occurrences(l, m_log_queue') = Occurrences(l, m_log_queue) + (IF x = l THEN 1 ELSE 0)
      BY <2>1, <2>4, <3>1, OccAppend
    <3>3. Copies(l)' = Copies(l) + (IF x = l THEN 1 ELSE 0)
      BY <2>3, <2>4, <3>1, <3>2, CopiesSum DEF Copies
    <3> QED BY <2>1, <2>3, <2>5, <3>3, CopiesSum
  <2>7. CASE ~(Len(m_log_queue) < capacity)
    <3>1. refused' = refused \cup {x} /\ m_log_queue' = m_log_queue BY <1>4, <2>7 DEF Write_Push, x
    <3>2. x \notin refused BY <2>1, CopiesSum
    <3>3. Copies(l)' = Copies(l) + (IF x = l THEN 1 ELSE 0)
      BY <2>3, <2>4, <3>1, <3>2, CopiesSum DEF Copies
    <3> QED BY <2>1, <2>3, <2>5, <3>3, CopiesSum
  <2> QED BY <2>6, <2>7
<1>5. ASSUME NEW w \in Writers, Write_Fputs(w) PROVE WrittenFinite' /\ EveryLineOnce'
  <2> DEFINE x == Line(w)
  <2>1. /\ x \in Lines /\ Copies(x) = 0 /\ ~Returned(x)
        /\ \A l \in Lines : Returned(l)' <=> Returned(l) \/ l = x
    BY <1>5, HandOn DEF Write_Fputs, Goes
  <2>2. PutsLine(x) BY <1>5, <2>1, FputsPutsLine DEF Write_Fputs
  <2> SUFFICES ASSUME NEW l \in Lines
               PROVE  IsFiniteSet(Written(l)') /\ Copies(l)' = IF Returned(l)' THEN 1 ELSE 0
    BY DEF WrittenFinite, EveryLineOnce, Lines
  <2>3. UNCHANGED <<m_log_queue, single_log, refused>> BY <1>5 DEF Write_Fputs
  <2>4. Copies(l) = IF Returned(l) THEN 1 ELSE 0 BY DEF EveryLineOnce
  <2> HIDE DEF x
  <2>5. /\ IsFiniteSet(Written(l)')
        /\ Cardinality(Written(l)') = Cardinality(Written(l)) + (IF x = l THEN 1 ELSE 0)
    BY <2>1, <2>2, WrittenPut DEF WrittenFinite
  <2>6. Copies(l)' = Copies(l) + (IF x = l THEN 1 ELSE 0)
    BY <2>3, <2>5, CopiesSum DEF Copies
  <2> QED BY <2>1, <2>4, <2>5, <2>6
<1>6. ASSUME NEW w \in Writers, Write_Flush(w) PROVE WrittenFinite' /\ EveryLineOnce'
  <2>1. KeepsFiles BY <1>6, FlushKeepsFiles DEF Write_Flush
  <2>2. \A l \in Lines : Returned(l)' <=> Returned(l) BY <1>6 DEF Write_Flush, Goes, Returned, Lines, TypeOK
  <2> QED BY <1>6, <2>1, <2>2, OnceKept DEF Write_Flush
<1>7. ASSUME Async_Pop PROVE WrittenFinite' /\ EveryLineOnce'
  <2>1. KeepsFiles BY <1>7, SameKeepsFiles DEF Async_Pop
  <2>2. \A l \in Lines : Returned(l)' <=> Returned(l) BY <1>7 DEF Async_Pop, Returned, Lines
  <2> SUFFICES ASSUME NEW l \in Lines
               PROVE  IsFiniteSet(Written(l)') /\ Copies(l)' = IF Returned(l)' THEN 1 ELSE 0
    BY DEF WrittenFinite, EveryLineOnce, Lines
  <2>3. Written(l)' = Written(l) BY <2>1, WrittenKept
  <2>4. /\ m_log_queue \in Seq(Lines) /\ m_log_queue # <<>> /\ m_log_queue' = Tail(m_log_queue)
        /\ single_log = NoLine /\ single_log' = Head(m_log_queue) /\ refused' = refused /\ l # NoLine
    BY <1>7, LogAssumption DEF Async_Pop, TypeOK, Lines
  <2>5. Occurrences(l, m_log_queue) = Occurrences(l, m_log_queue') + (IF single_log' = l THEN 1 ELSE 0)
    BY <2>4, OccTail
  <2>6. Occurrences(l, m_log_queue') \in Nat BY OccType DEF TypeOK
  <2>7. Copies(l)' = Copies(l) BY <2>3, <2>4, <2>5, <2>6, CopiesSum DEF Copies
  <2> QED BY <2>2, <2>3, <2>7, CopiesSum DEF EveryLineOnce
<1>8. ASSUME Async_Fputs PROVE WrittenFinite' /\ EveryLineOnce'
  <2> DEFINE x == single_log
  <2>1. x \in Lines /\ \A l \in Lines : Returned(l)' <=> Returned(l)
    BY <1>8 DEF Async_Fputs, Returned, Lines, TypeOK
  <2>2. PutsLine(x) BY <1>8, <2>1, FputsPutsLine DEF Async_Fputs
  <2> SUFFICES ASSUME NEW l \in Lines
               PROVE  IsFiniteSet(Written(l)') /\ Copies(l)' = IF Returned(l)' THEN 1 ELSE 0
    BY DEF WrittenFinite, EveryLineOnce, Lines
  <2>3. m_log_queue' = m_log_queue /\ refused' = refused /\ single_log' # l
    BY <1>8, LogAssumption DEF Async_Fputs, Lines
  <2>4. Copies(l) = IF Returned(l) THEN 1 ELSE 0 BY DEF EveryLineOnce
  <2>5. /\ IsFiniteSet(Written(l)')
        /\ Cardinality(Written(l)') = Cardinality(Written(l)) + (IF x = l THEN 1 ELSE 0)
    BY <2>1, <2>2, WrittenPut DEF WrittenFinite
  <2>6. Copies(l)' = Copies(l) BY <2>3, <2>5, CopiesSum DEF Copies
  <2> QED BY <2>1, <2>4, <2>5, <2>6
<1>9. ASSUME Midnight \/ UNCHANGED vars PROVE WrittenFinite' /\ EveryLineOnce'
  <2>1. KeepsFiles BY <1>9, SameKeepsFiles DEF Midnight, vars
  <2>2. \A l \in Lines : Returned(l)' <=> Returned(l) BY <1>9 DEF Midnight, vars, Returned, Lines
  <2> QED BY <1>9, <2>1, <2>2, OnceKept DEF Midnight, vars
<1> QED BY <1>1, <1>2, <1>3, <1>4, <1>5, <1>6, <1>7, <1>8, <1>9 DEF Next, WriterStep

-----------------------------------------------------------------------------
(* The synchronous mode *)

\* Every step keeps what the synchronous mode relies on.
LEMMA SyncStep ==
    ASSUME TypeOK, InCall, SyncInv, TypeOK', [Next]_vars
    PROVE  SyncInv'
<1> USE DEF fileVars, writerVars
<1> SUFFICES ASSUME capacity' = 0 PROVE SyncInv' BY DEF SyncInv
<1>0. capacity = 0
  BY DEF Next, WriterStep, vars, Write_Call, Write_Count, Write_Full, Write_Push, Write_Fputs,
         Write_Flush, Async_Pop, Async_Fputs, Midnight
<1>a. /\ m_log_queue = <<>> /\ single_log = NoLine /\ refused = {}
      /\ \A v \in Writers : at[v] # "push"
      /\ \A i \in DOMAIN buffer : buffer[i] = Line(buffer[i][1]) /\ at[buffer[i][1]] = "flush"
  BY <1>0 DEF SyncInv
<1>b. /\ buffer \in Seq(Lines) /\ DOMAIN buffer = 1 .. Len(buffer)
      /\ \A i \in DOMAIN buffer : buffer[i] \in Lines /\ buffer[i][1] \in Writers
  <2>1. buffer \in Seq(Lines) BY DEF TypeOK
  <2>2. \A i \in 1 .. Len(buffer) : buffer[i] \in Lines BY <2>1, ElementOfSeq
  <2> QED BY <2>1, <2>2, LenProperties DEF Lines
<1>1. ASSUME NEW w \in Writers, Write_Call(w) PROVE SyncInv'
  BY <1>1, <1>a, <1>b DEF SyncInv, Write_Call, Goes, TypeOK, Line
<1>2. ASSUME NEW w \in Writers, Write_Count(w) PROVE SyncInv'
  <2>1. buffer' = buffer \/ buffer' = <<>> BY <1>2 DEF Write_Count
  <2>2. /\ at[w] = "count" /\ at' = [at EXCEPT ![w] = "full"]
        /\ UNCHANGED <<m_log_queue, single_log, refused, calls>>
    BY <1>2 DEF Write_Count, Goes
  <2>3. CASE buffer' = buffer BY <2>3, <2>2, <1>a, <1>b DEF SyncInv, TypeOK, Line
  <2>4. CASE buffer' = <<>> BY <2>4, <2>2, <1>a DEF SyncInv, TypeOK, Line
  <2> QED BY <2>1, <2>3, <2>4
<1>3. ASSUME NEW w \in Writers, Write_Full(w) PROVE SyncInv'
  <2>1. /\ at[w] = "full" /\ at' = [at EXCEPT ![w] = "fputs"]
        /\ UNCHANGED <<m_log_queue, single_log, refused, calls, buffer>>
    BY <1>3, <1>0 DEF Write_Full, Goes
  <2> QED BY <2>1, <1>a, <1>b DEF SyncInv, TypeOK, Line
<1>4. ASSUME NEW w \in Writers, Write_Push(w) PROVE SyncInv'
  BY <1>4, <1>a DEF Write_Push, Goes
<1>5. ASSUME NEW w \in Writers, Write_Fputs(w) PROVE SyncInv'
  <2>1. buffer' = Append(buffer, Line(w)) /\ Line(w) \in Lines /\ Line(w)[1] = w
    BY <1>5, LineType DEF Write_Fputs, Goes, Line
  <2>2. /\ DOMAIN buffer' = 1 .. (Len(buffer) + 1) /\ Len(buffer) \in Nat
        /\ \A i \in 1 .. Len(buffer) : buffer'[i] = buffer[i]
        /\ buffer'[Len(buffer) + 1] = Line(w)
    BY <1>b, <2>1, AppendFacts
  <2>3. \A i \in DOMAIN buffer' : i \in DOMAIN buffer \/ i = Len(buffer) + 1 BY <1>b, <2>2
  <2>4. calls' = calls /\ at' = [at EXCEPT ![w] = "flush"] /\ at[w] = "fputs"
    BY <1>5 DEF Write_Fputs, Goes
  <2>5. \A i \in DOMAIN buffer' :
            buffer'[i] = <<buffer'[i][1], calls[buffer'[i][1]]>> /\ at'[buffer'[i][1]] = "flush"
    <3> SUFFICES ASSUME NEW i \in DOMAIN buffer'
                 PROVE  buffer'[i] = <<buffer'[i][1], calls[buffer'[i][1]]>> /\ at'[buffer'[i][1]] = "flush"
      OBVIOUS
    <3>1. CASE i \in DOMAIN buffer
      <4>1. buffer'[i] = buffer[i] BY <3>1, <2>2, <1>b
      <4> QED BY <4>1, <3>1, <1>a, <1>b, <2>4 DEF TypeOK, Line
    <3>2. CASE i = Len(buffer) + 1 BY <3>2, <2>1, <2>2, <2>4 DEF TypeOK, Line
    <3> QED BY <3>1, <3>2, <2>3
  <2> QED BY <1>5, <1>a, <2>4, <2>5 DEF SyncInv, Write_Fputs, TypeOK, Line
<1>6. ASSUME NEW w \in Writers, Write_Flush(w) PROVE SyncInv'
  BY <1>6, <1>a DEF SyncInv, Write_Flush, Goes, TypeOK
<1>7. CASE Async_Pop BY <1>7, <1>a DEF Async_Pop
<1>8. CASE Async_Fputs BY <1>8, <1>a DEF Async_Fputs
<1>9. CASE Midnight \/ UNCHANGED vars BY <1>9, <1>a DEF Midnight, vars, SyncInv, Line
<1> QED BY <1>1, <1>2, <1>3, <1>4, <1>5, <1>6, <1>7, <1>8, <1>9 DEF Next, WriterStep

\* A line that is in one place, and in no queue and no buffer, is on disk.
LEMMA SyncImpliesOnDisk ==
    ASSUME TypeOK, WrittenFinite, EveryLineOnce, SyncInv
    PROVE  SyncLineOnDisk
<1> SUFFICES ASSUME capacity = 0, NEW w \in Writers, at[w] = "out", NEW n \in 1 .. calls[w]
             PROVE  \E f \in Files : <<w, n>> \in Range(disk[f])
  BY DEF SyncLineOnDisk
<1> DEFINE l == <<w, n>>
<1>1. l \in Lines /\ Returned(l) BY LogAssumption DEF Lines, Returned, TypeOK
<1>2. Copies(l) = 1 BY <1>1 DEF EveryLineOnce
<1>3. m_log_queue = <<>> /\ single_log # l /\ refused = {}
  BY <1>1, LogAssumption DEF SyncInv, Lines
<1>4. Occurrences(l, m_log_queue) = 0
  <2>1. {i \in DOMAIN m_log_queue : m_log_queue[i] = l} = {} BY <1>3
  <2> QED BY <2>1, FS_EmptySet DEF Occurrences
<1>5. Cardinality(Written(l)) = 1 /\ IsFiniteSet(Written(l))
  <2> HIDE DEF l
  <2>1. Cardinality(Written(l)) \in Nat /\ IsFiniteSet(Written(l)) BY <1>1, CopiesSum
  <2> QED BY <1>2, <1>3, <1>4, <2>1 DEF Copies
<1>6. Written(l) # {} BY <1>5, FS_EmptySet
<1>7. PICK f \in Files : \E i \in DOMAIN Content(f) : Content(f)[i] = l BY <1>6 DEF Written
<1>8. PICK i \in DOMAIN Content(f) : Content(f)[i] = l BY <1>7
<1> DEFINE b == IF f = m_fp THEN buffer ELSE <<>>
<1>9. disk[f] \in Seq(Lines) /\ b \in Seq(Lines) BY EmptySeq DEF TypeOK
<1>10. Content(f) = disk[f] \o b BY DEF Content
<1>11. DOMAIN b \subseteq DOMAIN buffer /\ \A k \in DOMAIN b : b[k] = buffer[k]
  OBVIOUS
<1> HIDE DEF b
<1>12. Range(Content(f)) = Range(disk[f]) \cup Range(b) BY <1>9, <1>10, RangeConcatenation
<1>13. l \in Range(Content(f)) BY <1>8 DEF Range
<1>14. l \notin Range(b)
  <2> SUFFICES ASSUME NEW k \in DOMAIN b, b[k] = l PROVE FALSE BY DEF Range
  <2>1. k \in DOMAIN buffer /\ buffer[k] = l BY <1>11
  <2>2. l[1] = w OBVIOUS
  <2>3. at[buffer[k][1]] = "flush" BY <2>1 DEF SyncInv
  <2> QED BY <2>1, <2>2, <2>3
<1> QED BY <1>12, <1>13, <1>14

-----------------------------------------------------------------------------
(* The order of the lines of a writer *)

\* A line that may stand behind all the others is appended in order.
LEMMA InOrderAppend ==
    ASSUME NEW s \in Seq(Lines), NEW x \in Lines, InOrder(s), \A i \in DOMAIN s : Before(s[i], x)
    PROVE  InOrder(Append(s, x))
<1>1. /\ DOMAIN s = 1 .. Len(s) /\ Len(s) \in Nat
      /\ DOMAIN Append(s, x) = 1 .. (Len(s) + 1)
      /\ \A i \in 1 .. Len(s) : Append(s, x)[i] = s[i]
      /\ Append(s, x)[Len(s) + 1] = x
  BY AppendFacts
<1> DEFINE t == Append(s, x)
<1> SUFFICES ASSUME NEW i \in DOMAIN t, NEW j \in DOMAIN t, i < j PROVE Before(t[i], t[j])
  BY DEF InOrder
<1> HIDE DEF t
<1>2. i \in DOMAIN s /\ t[i] = s[i] BY <1>1 DEF t
<1>3. CASE j \in DOMAIN s
  <2>1. t[j] = s[j] BY <1>1, <1>3 DEF t
  <2> QED BY <1>2, <1>3, <2>1 DEF InOrder
<1>4. CASE j = Len(s) + 1
  <2>1. t[j] = x BY <1>1, <1>4 DEF t
  <2> QED BY <1>2, <2>1
<1>5. j \in DOMAIN s \/ j = Len(s) + 1 BY <1>1 DEF t
<1> QED BY <1>3, <1>4, <1>5

\* Tail keeps the order.
LEMMA InOrderTail ==
    ASSUME NEW s \in Seq(Lines), s # <<>>, InOrder(s)
    PROVE  /\ InOrder(Tail(s)) /\ \A j \in DOMAIN Tail(s) : Before(Head(s), Tail(s)[j])
           /\ \A j \in DOMAIN Tail(s) : \E k \in DOMAIN s : Tail(s)[j] = s[k]
           /\ \E k \in DOMAIN s : Head(s) = s[k]
<1>1. /\ DOMAIN s = 1 .. Len(s) /\ Len(s) \in Nat \ {0} /\ Head(s) = s[1]
      /\ DOMAIN Tail(s) = 1 .. (Len(s) - 1)
      /\ \A i \in 1 .. (Len(s) - 1) : Tail(s)[i] = s[i + 1]
  BY TailFacts
<1>2. \A i \in DOMAIN Tail(s) : i + 1 \in DOMAIN s /\ 1 < i + 1 /\ Tail(s)[i] = s[i + 1] BY <1>1
<1>3. 1 \in DOMAIN s BY <1>1
<1>4. InOrder(Tail(s))
  <2> DEFINE t == Tail(s)
  <2> SUFFICES ASSUME NEW i \in DOMAIN t, NEW j \in DOMAIN t, i < j PROVE Before(t[i], t[j])
    BY DEF InOrder
  <2>1. i + 1 \in DOMAIN s /\ j + 1 \in DOMAIN s /\ i + 1 < j + 1 /\ t[i] = s[i + 1] /\ t[j] = s[j + 1]
    BY <1>1, <1>2
  <2> QED BY <2>1 DEF InOrder
<1>5. \A j \in DOMAIN Tail(s) : Before(Head(s), Tail(s)[j])
  <2> TAKE j \in DOMAIN Tail(s)
  <2>1. j + 1 \in DOMAIN s /\ 1 < j + 1 /\ Tail(s)[j] = s[j + 1] BY <1>2
  <2> QED BY <1>1, <1>3, <2>1 DEF InOrder
<1> QED BY <1>1, <1>2, <1>3, <1>4, <1>5

\* What is in a file, in the queue or in the hands of the flush thread was handed on.
LEMMA PlacedReturned ==
    ASSUME TypeOK, WrittenFinite, EveryLineOnce
    PROVE  /\ \A f \in Files : \A i \in DOMAIN Content(f) :
                  Content(f)[i] \in Lines /\ Returned(Content(f)[i])
           /\ \A i \in DOMAIN m_log_queue : m_log_queue[i] \in Lines /\ Returned(m_log_queue[i])
           /\ single_log # NoLine => single_log \in Lines /\ Returned(single_log)
<1>1. ASSUME NEW l \in Lines, Copies(l) # 0 PROVE Returned(l) BY <1>1 DEF EveryLineOnce
<1>2. ASSUME NEW f \in Files, NEW i \in DOMAIN Content(f)
      PROVE  Content(f)[i] \in Lines /\ Returned(Content(f)[i])
  <2>1. Content(f)[i] \in Lines BY ContentType, LenProperties, ElementOfSeq
  <2> DEFINE l == Content(f)[i]
  <2>2. <<f, i>> \in Written(l) BY DEF Written
  <2>3. Cardinality(Written(l)) # 0 BY <2>1, <2>2, FS_EmptySet DEF WrittenFinite
  <2> HIDE DEF l
  <2>4. l \in Lines BY <2>1 DEF l
  <2>5. Copies(l) # 0 BY <2>3, <2>4, CopiesSum
  <2> QED BY <1>1, <2>4, <2>5 DEF l
<1>3. ASSUME NEW i \in DOMAIN m_log_queue
      PROVE  m_log_queue[i] \in Lines /\ Returned(m_log_queue[i])
  <2>1. m_log_queue \in Seq(Lines) BY DEF TypeOK
  <2>2. m_log_queue[i] \in Lines BY <2>1, LenProperties, ElementOfSeq
  <2>3. Occurrences(m_log_queue[i], m_log_queue) >= 1 BY <2>1, OccElement
  <2>4. Copies(m_log_queue[i]) # 0 BY <2>2, <2>3, CopiesSum
  <2> QED BY <1>1, <2>2, <2>4
<1>4. ASSUME single_log # NoLine PROVE single_log \in Lines /\ Returned(single_log)
  <2>1. single_log \in Lines BY <1>4 DEF TypeOK
  <2>2. Copies(single_log) # 0 BY <2>1, CopiesSum
  <2> QED BY <1>1, <2>1, <2>2
<1> QED BY <1>2, <1>3, <1>4

\* Hence it is older than the line that its writer is about to hand on.
LEMMA HandedOnBefore ==
    ASSUME TypeOK, NEW w \in Writers, at[w] \in {"full", "push", "fputs"}, NEW l \in Lines, Returned(l)
    PROVE  Before(l, Line(w)) /\ l # Line(w)
BY DEF TypeOK, Returned, Before, Line, Lines

\* A queue with room for all lines has room for the next one.
LEMMA QueueRoom ==
    ASSUME TypeOK, InCall, WrittenFinite, EveryLineOnce, capacity >= Cardinality(Lines),
           NEW w \in Writers, at[w] \in {"full", "push", "fputs"}
    PROVE  Len(m_log_queue) < capacity
<1> DEFINE T == Lines \ {Line(w)}
           n == Len(m_log_queue)
<1>1. m_log_queue \in Seq(Lines) /\ n \in Nat /\ DOMAIN m_log_queue = 1 .. n
  BY LenProperties DEF TypeOK
<1>2. m_log_queue \in Injection(1 .. n, T)
  <2>1. \A i \in 1 .. n : m_log_queue[i] \in T
    BY <1>1, PlacedReturned, HandedOnBefore
  <2>2. ASSUME NEW i \in 1 .. n, NEW j \in 1 .. n, m_log_queue[i] = m_log_queue[j] PROVE i = j
    <3>1. m_log_queue[i] \in Lines BY <2>1
    <3>2. Copies(m_log_queue[i]) <= 1 BY <3>1 DEF EveryLineOnce
    <3>3. Occurrences(m_log_queue[i], m_log_queue) <= 1 BY <3>1, <3>2, CopiesSum DEF Copies
    <3> QED BY <1>1, <2>2, <3>3, OccOnce
  <2>3. m_log_queue \in [1 .. n -> T] BY <1>1, <2>1, LenProperties
  <2> QED BY <2>2, <2>3 DEF Injection, IsInjective
<1>3. IsFiniteSet(T) /\ Cardinality(T) = Cardinality(Lines) - 1
  BY LinesFinite, LineType, FS_RemoveElement
<1>4. Cardinality(1 .. n) = n BY <1>1, FS_Interval
<1>5. Cardinality(1 .. n) <= Cardinality(T) BY <1>2, <1>3, FS_Injection
<1>6. capacity \in Nat BY LogAssumption DEF TypeOK
<1> QED BY <1>1, <1>3, <1>4, <1>5, <1>6, LinesFinite

\* A step that moves no line.
LEMMA OrderKept ==
    ASSUME QueueOrder, WriterOrder, KeepsFiles, UNCHANGED <<capacity, m_log_queue, single_log>>,
           capacity > 0 /\ capacity >= Cardinality(Lines) => \A w \in Writers : at'[w] # "fputs"
    PROVE  QueueOrder' /\ WriterOrder'
<1>1. WriterOrder' BY DEF WriterOrder, KeepsFiles
<1>2. QueueOrder'
  <2> SUFFICES ASSUME capacity > 0, capacity >= Cardinality(Lines) PROVE QueueOrder' BY DEF QueueOrder
  <2> QED BY DEF QueueOrder, KeepsFiles, InOrder
<1> QED BY <1>1, <1>2

\* Every step keeps the order from the queue to the files.
LEMMA OrderStep ==
    ASSUME TypeOK, InCall, WrittenFinite, EveryLineOnce, SyncInv, QueueOrder, WriterOrder,
           TypeOK', [Next]_vars
    PROVE  QueueOrder' /\ WriterOrder'
<1> USE DEF fileVars, writerVars
<1> DEFINE Wide == capacity > 0 /\ capacity >= Cardinality(Lines)
<1>a. capacity \in Nat /\ m_log_queue \in Seq(Lines) BY LogAssumption DEF TypeOK
<1>1. ASSUME NEW w \in Writers, Write_Call(w) PROVE QueueOrder' /\ WriterOrder'
  <2>1. KeepsFiles BY <1>1, SameKeepsFiles DEF Write_Call
  <2>2. Wide => \A v \in Writers : at'[v] # "fputs" BY <1>1 DEF QueueOrder, Write_Call, Goes, TypeOK
  <2> QED BY <1>1, <2>1, <2>2, OrderKept DEF Write_Call
<1>2. ASSUME NEW w \in Writers, Write_Count(w) PROVE QueueOrder' /\ WriterOrder'
  <2>1. KeepsFiles
    <3>1. (disk' = Flushed /\ buffer' = <<>>) \/ UNCHANGED <<disk, buffer, m_fp>> BY <1>2 DEF Write_Count
    <3> QED BY <3>1, SameKeepsFiles, FlushKeepsFiles
  <2>2. Wide => \A v \in Writers : at'[v] # "fputs" BY <1>2 DEF QueueOrder, Write_Count, Goes, TypeOK
  <2> QED BY <1>2, <2>1, <2>2, OrderKept DEF Write_Count
<1>3. ASSUME NEW w \in Writers, Write_Full(w) PROVE QueueOrder' /\ WriterOrder'
  <2>1. KeepsFiles BY <1>3, SameKeepsFiles DEF Write_Full
  <2>2. ASSUME Wide PROVE \A v \in Writers : at'[v] # "fputs"
    <3>1. Len(m_log_queue) < capacity BY <1>3, <2>2, QueueRoom DEF Write_Full, Goes
    <3> QED BY <1>3, <2>2, <3>1 DEF QueueOrder, Write_Full, Goes, TypeOK
  <2> QED BY <1>3, <2>1, <2>2, OrderKept DEF Write_Full
<1>4. ASSUME NEW w \in Writers, Write_Push(w) PROVE QueueOrder' /\ WriterOrder'
  <2>1. KeepsFiles /\ capacity' = capacity /\ single_log' = single_log
    BY <1>4, SameKeepsFiles DEF Write_Push
  <2>2. WriterOrder' BY <2>1 DEF WriterOrder, KeepsFiles
  <2>3. QueueOrder'
    <3> SUFFICES ASSUME Wide PROVE QueueOrder' BY <2>1 DEF QueueOrder
    <3> DEFINE x == Line(w)
               q == Append(m_log_queue, x)
    <3>1. at[w] = "push" /\ Len(m_log_queue) < capacity BY <1>4, QueueRoom DEF Write_Push, Goes
    <3>2. m_log_queue' = q /\ x \in Lines BY <1>4, <3>1, LineType DEF Write_Push
    <3>3. \A v \in Writers : at'[v] # "fputs" BY <1>4 DEF QueueOrder, Write_Push, Goes, TypeOK
    <3>4. \A l \in Lines : Returned(l) => Before(l, x) BY <3>1, HandedOnBefore
    <3>5. /\ \A f \in Files : \A i \in DOMAIN Content(f) : Before(Content(f)[i], x)
          /\ \A i \in DOMAIN m_log_queue : Before(m_log_queue[i], x)
          /\ single_log # NoLine => Before(single_log, x)
      BY <3>4, PlacedReturned
    <3>6. InOrder(q) BY <1>a, <3>2, <3>5, InOrderAppend DEF QueueOrder
    <3>7. \A j \in DOMAIN q : q[j] = x \/ \E k \in DOMAIN m_log_queue : q[j] = m_log_queue[k]
      <4> HIDE DEF x
      <4>1. /\ DOMAIN q = 1 .. (Len(m_log_queue) + 1) /\ DOMAIN m_log_queue = 1 .. Len(m_log_queue)
            /\ \A i \in 1 .. Len(m_log_queue) : q[i] = m_log_queue[i]
            /\ q[Len(m_log_queue) + 1] = x /\ Len(m_log_queue) \in Nat
        BY <1>a, <3>2, AppendFacts
      <4> QED BY <4>1
    <3> HIDE DEF q, x
    <3>8. single_log # NoLine => \A j \in DOMAIN q : Before(single_log, q[j])
      BY <3>5, <3>7 DEF QueueOrder
    <3>9. \A f \in Files : \A i \in DOMAIN Content(f) : \A j \in DOMAIN q : Before(Content(f)[i], q[j])
      BY <3>5, <3>7 DEF QueueOrder
    <3> QED BY <2>1, <3>2, <3>3, <3>6, <3>8, <3>9 DEF QueueOrder, KeepsFiles
  <2> QED BY <2>2, <2>3
<1>5. ASSUME NEW w \in Writers, Write_Fputs(w) PROVE QueueOrder' /\ WriterOrder'
  <2> DEFINE x == Line(w)
  <2>1. at[w] = "fputs" /\ capacity' = capacity /\ x \in Lines
    BY <1>5, LineType DEF Write_Fputs, Goes
  <2>2. PutsLine(x) BY <1>5, <2>1, FputsPutsLine DEF Write_Fputs
  <2>3. ~Wide BY <2>1 DEF QueueOrder
  <2>4. ASSUME capacity = 0 \/ capacity >= Cardinality(Lines), NEW f \in Files PROVE InOrder(Content(f)')
    <3>1. InOrder(Content(f)) BY <2>4 DEF WriterOrder, InOrder, Before
    <3>2. \A i \in DOMAIN Content(f) : Before(Content(f)[i], x)
      BY <2>1, HandedOnBefore, PlacedReturned
    <3>3. Content(f) \in Seq(Lines) BY ContentType
    <3>4. InOrder(Append(Content(f), x)) BY <2>1, <3>1, <3>2, <3>3, InOrderAppend
    <3> QED BY <2>2, <3>1, <3>4 DEF PutsLine
  <2>5. WriterOrder' BY <2>1, <2>4 DEF WriterOrder, InOrder, Before
  <2> QED BY <2>1, <2>3, <2>5 DEF QueueOrder
<1>6. ASSUME NEW w \in Writers, Write_Flush(w) PROVE QueueOrder' /\ WriterOrder'
  <2>1. KeepsFiles BY <1>6, FlushKeepsFiles DEF Write_Flush
  <2>2. Wide => \A v \in Writers : at'[v] # "fputs" BY <1>6 DEF QueueOrder, Write_Flush, Goes, TypeOK
  <2> QED BY <1>6, <2>1, <2>2, OrderKept DEF Write_Flush
<1>7. ASSUME Async_Pop PROVE QueueOrder' /\ WriterOrder'
  <2>1. KeepsFiles /\ capacity' = capacity /\ at' = at BY <1>7, SameKeepsFiles DEF Async_Pop
  <2>2. WriterOrder' BY <2>1 DEF WriterOrder, KeepsFiles
  <2>3. QueueOrder'
    <3> SUFFICES ASSUME Wide PROVE QueueOrder' BY <2>1 DEF QueueOrder
    <3> DEFINE q == Tail(m_log_queue)
               x == Head(m_log_queue)
    <3>1. m_log_queue # <<>> /\ m_log_queue' = q /\ single_log' = x BY <1>7 DEF Async_Pop
    <3>2. InOrder(m_log_queue) BY DEF QueueOrder
    <3>3. /\ InOrder(q) /\ \A j \in DOMAIN q : Before(x, q[j])
          /\ \A j \in DOMAIN q : \E k \in DOMAIN m_log_queue : q[j] = m_log_queue[k]
          /\ \E k \in DOMAIN m_log_queue : x = m_log_queue[k]
      BY <1>a, <3>1, <3>2, InOrderTail
    <3> HIDE DEF q, x
    <3>4. \A f \in Files : \A i \in DOMAIN Content(f) :
             Before(Content(f)[i], x) /\ \A j \in DOMAIN q : Before(Content(f)[i], q[j])
      BY <3>3 DEF QueueOrder
    <3> QED BY <2>1, <3>1, <3>3, <3>4 DEF QueueOrder, KeepsFiles
  <2> QED BY <2>2, <2>3
<1>8. ASSUME Async_Fputs PROVE QueueOrder' /\ WriterOrder'
  <2> DEFINE x == single_log
  <2>1. /\ x # NoLine /\ x \in Lines /\ capacity' = capacity /\ m_log_queue' = m_log_queue
        /\ single_log' = NoLine /\ at' = at
    BY <1>8 DEF Async_Fputs, TypeOK
  <2>2. PutsLine(x) BY <1>8, <2>1, FputsPutsLine DEF Async_Fputs
  <2>3. capacity # 0 BY <2>1 DEF SyncInv
  <2>4. ASSUME capacity >= Cardinality(Lines), NEW f \in Files
        PROVE  /\ InOrder(Content(f)')
               /\ \A i \in DOMAIN (Content(f)') : \A j \in DOMAIN m_log_queue :
                     Before((Content(f)')[i], m_log_queue[j])
    <3>1. Wide BY <1>a, <2>3, <2>4
    <3>2. InOrder(Content(f)) BY <2>4 DEF WriterOrder, InOrder, Before
    <3>3. \A i \in DOMAIN Content(f) : Before(Content(f)[i], x) BY <2>1, <3>1 DEF QueueOrder
    <3>4. Content(f) \in Seq(Lines) BY ContentType
    <3>5. InOrder(Append(Content(f), x)) BY <2>1, <3>2, <3>3, <3>4, InOrderAppend
    <3>6. \A i \in DOMAIN (Content(f)') :
             (Content(f)')[i] = x \/ \E k \in DOMAIN Content(f) : (Content(f)')[i] = Content(f)[k]
      <4>1. CASE f = m_fp
        <5> DEFINE s == Content(f)
        <5>1. Content(f)' = Append(s, x) BY <4>1, <2>2 DEF PutsLine
        <5>2. /\ DOMAIN Append(s, x) = 1 .. (Len(s) + 1) /\ DOMAIN s = 1 .. Len(s)
              /\ \A i \in 1 .. Len(s) : Append(s, x)[i] = s[i]
              /\ Append(s, x)[Len(s) + 1] = x /\ Len(s) \in Nat
          BY <3>4, <2>1, AppendFacts
        <5> HIDE DEF s, x
        <5>3. \A i \in DOMAIN Append(s, x) :
                 Append(s, x)[i] = x \/ \E k \in DOMAIN s : Append(s, x)[i] = s[k]
          BY <5>2
        <5> QED BY <5>1, <5>3 DEF s
      <4>2. CASE f # m_fp BY <4>2, <2>2 DEF PutsLine
      <4> QED BY <4>1, <4>2
    <3>7. \A i \in DOMAIN (Content(f)') : \A j \in DOMAIN m_log_queue :
             Before((Content(f)')[i], m_log_queue[j])
      BY <2>1, <3>1, <3>6 DEF QueueOrder
    <3> QED BY <2>2, <3>2, <3>5, <3>7 DEF PutsLine
  <2>5. WriterOrder' BY <2>1, <2>3, <2>4 DEF WriterOrder, InOrder, Before
  <2>6. QueueOrder'
    <3> SUFFICES ASSUME Wide PROVE QueueOrder' BY <2>1 DEF QueueOrder
    <3> QED BY <2>1, <2>4 DEF QueueOrder
  <2> QED BY <2>5, <2>6
<1>9. ASSUME Midnight \/ UNCHANGED vars PROVE QueueOrder' /\ WriterOrder'
  <2>1. KeepsFiles BY <1>9, SameKeepsFiles DEF Midnight, vars
  <2>2. Wide => \A v \in Writers : at'[v] # "fputs" BY <1>9 DEF QueueOrder, Midnight, vars
  <2> QED BY <1>9, <2>1, <2>2, OrderKept DEF Midnight, vars
<1> QED BY <1>1, <1>2, <1>3, <1>4, <1>5, <1>6, <1>7, <1>8, <1>9 DEF Next, WriterStep

-----------------------------------------------------------------------------
(* The size of the files of the first day *)

\* The pending writers are at most all of them.
LEMMA PendingFinite ==
    IsFiniteSet(Pending) /\ Cardinality(Pending) \in Nat /\ Cardinality(Pending) <= Cardinality(Writers)
<1>1. Pending \in SUBSET Writers BY DEF Pending
<1> QED BY <1>1, LogAssumption, FS_Subset, FS_CardinalityType

\* A step that counts no line, puts none and lets no pending writer go on.
LEMMA FirstDayKept ==
    ASSUME FirstDay, SplitBound, KeepsFiles, UNCHANGED <<capacity, day, m_today, m_count, m_fp>>,
           day = 1 => my_tm' = my_tm \/ \A w \in Writers : my_tm'[w] = 1,
           capacity = 0 => Pending' = Pending, TypeOK
    PROVE  FirstDay' /\ SplitBound'
<1> SUFFICES ASSUME day = 1 PROVE FirstDay' /\ SplitBound' BY DEF FirstDay, SplitBound
<1>1. /\ m_today = 1 /\ \A w \in Writers : my_tm'[w] = 1
      /\ m_fp = <<1, m_count \div SplitLines>> /\ m_fp \in Files
  BY DEF FirstDay, TypeOK
<1>2. CASE capacity # 0 BY <1>1, <1>2 DEF FirstDay, SplitBound
<1>3. CASE capacity = 0
  <2>1. Content(m_fp)' = Content(m_fp)
    <3>1. (\A f \in Files : f = m_fp => Content(f)' = Content(m_fp)) BY DEF KeepsFiles
    <3>2. Content(m_fp)' = disk'[m_fp] \o buffer' BY DEF Content
    <3>3. \A f \in Files : f = m_fp => Content(f)' = disk'[m_fp] \o buffer' BY DEF Content
    <3> QED BY <1>1, <3>1, <3>2, <3>3
  <2>2. FirstDay' BY <1>1, <1>3, <2>1 DEF FirstDay, KeepsFiles
  <2>3. SplitBound' BY <1>3 DEF SplitBound, KeepsFiles
  <2> QED BY <2>2, <2>3
<1> QED BY <1>2, <1>3

\* The first critical section: the line becomes pending in the open file, or in a
\* new one, which has no lines, and which has at most all writers pending.
LEMMA FirstDayCount ==
    ASSUME TypeOK, InCall, CountBound, FirstDay, SplitBound, TypeOK', NEW w \in Writers, Write_Count(w)
    PROVE  FirstDay' /\ SplitBound'
<1> SUFFICES ASSUME day = 1 PROVE FirstDay' /\ SplitBound'
  BY DEF FirstDay, SplitBound, Write_Count
<1> DEFINE c == m_count
           S == SplitLines
<1>1. /\ m_today = 1 /\ \A v \in Writers : my_tm[v] = 1
      /\ m_fp = <<1, c \div S>> /\ c \in Nat /\ S \in Nat \ {0} /\ m_fp \in Files /\ m_fp' \in Files
  BY LogAssumption DEF FirstDay, TypeOK
<1>2. /\ m_count' = c + 1 /\ m_today' = 1 /\ my_tm' = my_tm /\ day' = day /\ capacity' = capacity
      /\ m_fp' = IF (c + 1) % S = 0 THEN <<1, (c + 1) \div S>> ELSE m_fp
      /\ (disk' = Flushed /\ buffer' = <<>>) \/ UNCHANGED <<disk, buffer, m_fp>>
      /\ at[w] = "count" /\ at' = [at EXCEPT ![w] = "full"]
  BY <1>1 DEF Write_Count, Goes
<1>3. KeepsFiles BY <1>2, SameKeepsFiles, FlushKeepsFiles
<1>4. /\ c \div S \in Nat /\ c % S \in 0 .. (S - 1)
      /\ (c + 1) \div S \in Nat /\ (c + 1) % S \in 0 .. (S - 1)
      /\ (c + 1) % S # 0 => (c + 1) \div S = c \div S /\ (c + 1) % S = (c % S) + 1
      /\ (c + 1) % S = 0 => (c + 1) \div S = (c \div S) + 1
  <2>1. c + 1 \in Nat BY <1>1
  <2> QED BY <1>1, <2>1, DivStep
<1> HIDE DEF c, S
<1>5. m_fp' = <<1, (c + 1) \div S>> BY <1>1, <1>2, <1>4
<1>6. CASE capacity # 0
  BY <1>1, <1>2, <1>5, <1>6 DEF FirstDay, SplitBound, c, S
<1>7. CASE capacity = 0
  <2>1. SplitBound' BY <1>2, <1>3, <1>7 DEF SplitBound, KeepsFiles
  <2>2. \A f \in Files : f[1] = 1 /\ f[2] > c \div S => Content(f) = <<>> BY <1>7 DEF FirstDay, c, S
  <2>3. \A f \in Files : f[1] = 1 /\ f[2] > (c + 1) \div S => Content(f)' = <<>>
    <3>1. \A f \in Files : f[2] \in Nat BY LinesFinite, LogAssumption DEF Files
    <3> QED BY <1>3, <1>4, <2>2, <3>1 DEF KeepsFiles
  <2>4. IsFiniteSet(Pending) /\ Cardinality(Pending) \in Nat BY PendingFinite
  <2>5. Pending' = Pending \cup {w} /\ w \notin Pending BY <1>2 DEF Pending, TypeOK
  <2>6. Cardinality(Pending') = Cardinality(Pending) + 1 BY <2>4, <2>5, FS_AddElement
  <2>7. Cardinality(Pending') <= Cardinality(Writers)
    <3>1. Pending' \in SUBSET Writers BY DEF Pending
    <3> QED BY <3>1, LogAssumption, FS_Subset
  <2>8. \E g \in Files : g = m_fp' BY <1>1
  <2>9. PICK g \in Files : g = m_fp' BY <2>8
  <2>10. Content(g)' = Content(g) BY <1>3 DEF KeepsFiles
  <2>11. Content(m_fp)' = Content(g)' BY <2>9 DEF Content
  <2>12. Len(Content(g)) + Cardinality(Pending') <= ((c + 1) % S) + Cardinality(Writers)
    <3>1. CASE (c + 1) % S = 0
      <4>1. g[1] = 1 /\ g[2] > c \div S BY <1>4, <1>5, <2>9, <3>1
      <4>2. Content(g) = <<>> BY <2>2, <4>1
      <4>3. Len(Content(g)) = 0 BY <4>2
      <4> QED BY <4>3, <3>1, <2>4, <2>6, <2>7, LinesFinite
    <3>2. CASE (c + 1) % S # 0
      <4>1. g = m_fp BY <1>2, <2>9, <3>2
      <4>2. Len(Content(g)) + Cardinality(Pending) <= (c % S) + Cardinality(Writers)
        BY <1>7, <4>1 DEF FirstDay, c, S
      <4>3. Len(Content(g)) \in Nat BY ContentType, LenProperties
      <4> QED BY <4>2, <4>3, <1>4, <3>2, <2>4, <2>6, LinesFinite
    <3> QED BY <3>1, <3>2
  <2>13. FirstDay'
    BY <1>1, <1>2, <1>5, <2>3, <2>10, <2>11, <2>12 DEF FirstDay, c, S
  <2> QED BY <2>1, <2>13
<1> QED BY <1>6, <1>7

\* fputs(): a pending line becomes a line of the open file.
LEMMA FirstDayFputs ==
    ASSUME TypeOK, InCall, FirstDay, SplitBound, TypeOK', NEW w \in Writers, Write_Fputs(w)
    PROVE  FirstDay' /\ SplitBound'
<1> SUFFICES ASSUME day = 1 PROVE FirstDay' /\ SplitBound'
  BY DEF FirstDay, SplitBound, Write_Fputs
<1>1. /\ UNCHANGED <<capacity, day, m_today, m_count, m_fp, disk, my_tm>>
      /\ at[w] = "fputs" /\ at' = [at EXCEPT ![w] = "flush"] /\ m_fp \in Files
      /\ buffer' = Append(buffer, Line(w)) /\ Line(w) \in Lines
  BY LineType DEF Write_Fputs, Goes, TypeOK
<1>2. PutsLine(Line(w)) BY <1>1, FputsPutsLine
<1>3. CASE capacity # 0 BY <1>1, <1>3 DEF FirstDay, SplitBound
<1>4. CASE capacity = 0
  <2> DEFINE s == Content(m_fp)
  <2>1. s \in Seq(Lines) /\ Len(s) \in Nat BY <1>1, ContentType, LenProperties
  <2>2. Len(Append(s, Line(w))) = Len(s) + 1 BY <1>1, <2>1, AppendProperties
  <2>3. IsFiniteSet(Pending) /\ Cardinality(Pending) \in Nat BY PendingFinite
  <2>4. Pending' = Pending \ {w} /\ w \in Pending BY <1>1 DEF Pending, TypeOK
  <2>5. Cardinality(Pending') = Cardinality(Pending) - 1 BY <2>3, <2>4, FS_RemoveElement
  <2>6. Cardinality(Pending') \in Nat BY <2>3, <2>4, FS_RemoveElement, FS_CardinalityType
  <2>7. Len(s) + Cardinality(Pending) <= (m_count % SplitLines) + Cardinality(Writers)
    BY <1>4 DEF FirstDay
  <2>8. PICK g \in Files : g = m_fp BY <1>1
  <2>9. Content(g)' = Append(s, Line(w)) BY <1>2, <2>8 DEF PutsLine
  <2>10. Content(m_fp)' = Content(g)' BY <1>1, <2>8 DEF Content
  <2> HIDE DEF s
  <2>11. m_count % SplitLines \in Nat BY SuffixType
  <2>12. Len(Content(m_fp)') + Cardinality(Pending') <= (m_count % SplitLines) + Cardinality(Writers)
    BY <2>1, <2>2, <2>3, <2>5, <2>7, <2>9, <2>10, <2>11, LinesFinite
  <2>13. Len(Append(s, Line(w))) < SplitLines + Cardinality(Writers)
    <3>1. (Len(s) + 1) + (Cardinality(Pending) - 1) <= (m_count % SplitLines) + Cardinality(Writers)
      BY <2>1, <2>3, <2>7, <2>11, LinesFinite
    <3>2. m_count % SplitLines <= SplitLines - 1 BY SuffixType
    <3> QED BY <2>1, <2>2, <2>3, <2>5, <2>6, <2>11, <3>1, <3>2, LinesFinite, LogAssumption
  <2>14. SplitBound'
    <3>1. \A f \in Files : Content(f)' = Content(f) \/ Content(f)' = Append(s, Line(w))
      BY <1>2 DEF PutsLine, s
    <3> QED BY <1>1, <1>4, <2>13, <3>1 DEF SplitBound
  <2>15. \A f \in Files : f[1] = 1 /\ f[2] > m_count \div SplitLines => Content(f)' = <<>>
    <3>1. m_fp = <<1, m_count \div SplitLines>> BY DEF FirstDay
    <3>2. m_count \div SplitLines \in Nat BY SuffixType
    <3>3. \A f \in Files : f[2] > m_count \div SplitLines => f # m_fp BY <3>1, <3>2
    <3> QED BY <1>2, <1>4, <3>3 DEF FirstDay, PutsLine
  <2>16. FirstDay' BY <1>1, <2>12, <2>15 DEF FirstDay
  <2> QED BY <2>14, <2>16
<1> QED BY <1>3, <1>4

\* Every step keeps what holds of the files on the first day.
LEMMA FirstDayStep ==
    ASSUME TypeOK, InCall, CountBound, SyncInv, FirstDay, SplitBound, TypeOK', [Next]_vars
    PROVE  FirstDay' /\ SplitBound'
<1> USE DEF fileVars, writerVars
<1>1. ASSUME NEW w \in Writers, Write_Call(w) PROVE FirstDay' /\ SplitBound'
  <2>1. KeepsFiles BY <1>1, SameKeepsFiles DEF Write_Call
  <2>2. day = 1 => \A v \in Writers : my_tm'[v] = 1 BY <1>1 DEF FirstDay, Write_Call, TypeOK
  <2>3. Pending' = Pending BY <1>1 DEF Pending, Write_Call, Goes, TypeOK
  <2> QED BY <1>1, <2>1, <2>2, <2>3, FirstDayKept DEF Write_Call
<1>2. ASSUME NEW w \in Writers, Write_Count(w) PROVE FirstDay' /\ SplitBound'
  BY <1>2, FirstDayCount
<1>3. ASSUME NEW w \in Writers, Write_Full(w) PROVE FirstDay' /\ SplitBound'
  <2>1. KeepsFiles BY <1>3, SameKeepsFiles DEF Write_Full
  <2>2. ASSUME capacity = 0 PROVE Pending' = Pending
    <3>1. at[w] = "full" /\ at' = [at EXCEPT ![w] = "fputs"] BY <1>3, <2>2 DEF Write_Full, Goes
    <3> QED BY <3>1 DEF Pending, TypeOK
  <2> QED BY <1>3, <2>1, <2>2, FirstDayKept DEF Write_Full
<1>4. ASSUME NEW w \in Writers, Write_Push(w) PROVE FirstDay' /\ SplitBound'
  <2>1. KeepsFiles BY <1>4, SameKeepsFiles DEF Write_Push
  <2>2. Pending' = Pending BY <1>4 DEF Pending, Write_Push, Goes, TypeOK
  <2> QED BY <1>4, <2>1, <2>2, FirstDayKept DEF Write_Push
<1>5. ASSUME NEW w \in Writers, Write_Fputs(w) PROVE FirstDay' /\ SplitBound'
  BY <1>5, FirstDayFputs
<1>6. ASSUME NEW w \in Writers, Write_Flush(w) PROVE FirstDay' /\ SplitBound'
  <2>1. KeepsFiles BY <1>6, FlushKeepsFiles DEF Write_Flush
  <2>2. Pending' = Pending BY <1>6 DEF Pending, Write_Flush, Goes, TypeOK
  <2> QED BY <1>6, <2>1, <2>2, FirstDayKept DEF Write_Flush
<1>7. ASSUME Async_Pop PROVE FirstDay' /\ SplitBound'
  <2>1. KeepsFiles BY <1>7, SameKeepsFiles DEF Async_Pop
  <2>2. Pending' = Pending BY <1>7 DEF Pending, Async_Pop
  <2> QED BY <1>7, <2>1, <2>2, FirstDayKept DEF Async_Pop
<1>8. ASSUME Async_Fputs PROVE FirstDay' /\ SplitBound'
  <2>1. capacity # 0 BY <1>8 DEF Async_Fputs, SyncInv
  <2> QED BY <1>8, <2>1 DEF FirstDay, SplitBound, Async_Fputs
<1>9. ASSUME Midnight PROVE FirstDay' /\ SplitBound'
  <2>1. day' # 1 BY <1>9, LogAssumption DEF Midnight, TypeOK, Days
  <2> QED BY <2>1 DEF FirstDay, SplitBound
<1>10. ASSUME UNCHANGED vars PROVE FirstDay' /\ SplitBound'
  <2>1. KeepsFiles BY <1>10, SameKeepsFiles DEF vars
  <2>2. Pending' = Pending BY <1>10 DEF Pending, vars
  <2> QED BY <1>10, <2>1, <2>2, FirstDayKept DEF vars
<1> QED BY <1>1, <1>2, <1>3, <1>4, <1>5, <1>6, <1>7, <1>8, <1>9, <1>10 DEF Next, WriterStep

-----------------------------------------------------------------------------
(* The theorems *)

\* The inductive invariant holds initially.
LEMMA LogInvInit == Init => LogInv
<1> SUFFICES ASSUME Init PROVE LogInv OBVIOUS
<1> USE LogAssumption
<1>1. \A f \in Files : Content(f) = <<>> BY DEF Init, Content
<1>2. \A l \in Lines : Written(l) = {} BY <1>1 DEF Written
<1>3. IsFiniteSet({}) /\ Cardinality({}) = 0 BY FS_EmptySet
<1>4. 0 \in Nat /\ 0 <= Cardinality(Lines) /\ 1 \in Days BY LinesFinite DEF Days
<1>5. <<1, 0>> \in Files BY <1>4, SuffixInFiles
<1>6. TypeOK /\ InCall BY <1>5, <1>4, EmptySeq DEF Init, TypeOK, InCall
<1>7. CountBound BY CountedFinite DEF CountBound, Init
<1>8. WrittenFinite BY <1>2, <1>3 DEF WrittenFinite
<1>9. EveryLineOnce
  <2> SUFFICES ASSUME NEW l \in Lines PROVE Copies(l) = IF Returned(l) THEN 1 ELSE 0 BY DEF EveryLineOnce
  <2>1. ~Returned(l) BY DEF Init, Returned, Lines
  <2>2. {i \in DOMAIN m_log_queue : m_log_queue[i] = l} = {} BY DEF Init
  <2>3. Occurrences(l, m_log_queue) = 0 BY <2>2, <1>3 DEF Occurrences
  <2>4. Cardinality(Written(l)) = 0 BY <1>2, <1>3
  <2>5. single_log # l /\ l \notin refused BY DEF Init, Lines
  <2> QED BY <2>1, <2>3, <2>4, <2>5 DEF Copies
<1>10. SyncInv BY DEF Init, SyncInv
<1>11. QueueOrder /\ WriterOrder
  <2>1. WriterOrder BY <1>1 DEF WriterOrder
  <2>2. /\ m_log_queue = <<>> /\ single_log = NoLine /\ InOrder(m_log_queue)
        /\ \A w \in Writers : at[w] # "fputs"
    BY DEF Init, InOrder
  <2>3. QueueOrder BY <1>1, <2>2 DEF QueueOrder
  <2> QED BY <2>1, <2>3
<1>12. SplitBound BY <1>1, LinesFinite DEF SplitBound
<1>13. FirstDay
  <2>1. 0 \div SplitLines = 0 /\ 0 % SplitLines = 0 OBVIOUS
  <2>2. Pending = {} BY DEF Pending, Init
  <2>3. Content(m_fp) = <<>> BY <1>1, <1>5 DEF Init
  <2> QED BY <1>1, <1>3, <2>1, <2>2, <2>3, LinesFinite DEF FirstDay, Init
<1> QED BY <1>6, <1>7, <1>8, <1>9, <1>10, <1>11, <1>12, <1>13 DEF LogInv

\* Every step keeps the inductive invariant.
LEMMA LogInvStep == LogInv /\ [Next]_vars => LogInv'
<1> SUFFICES ASSUME LogInv, [Next]_vars PROVE LogInv' OBVIOUS
<1> USE DEF LogInv
<1>1. TypeOK' /\ InCall' /\ CountBound' BY TypeStep
<1>2. WrittenFinite' /\ EveryLineOnce' BY <1>1, OnceStep
<1>3. SyncInv' BY <1>1, SyncStep
<1>4. QueueOrder' /\ WriterOrder' BY <1>1, OrderStep
<1>5. FirstDay' /\ SplitBound' BY <1>1, FirstDayStep
<1> QED BY <1>1, <1>2, <1>3, <1>4, <1>5

\* The inductive invariant is an invariant.
LEMMA LogInvariant == Spec => []LogInv
BY LogInvInit, LogInvStep, PTL DEF Spec

\* Whatever the interleaving of writers, flush thread, splits and midnights: the
\* variables of the log keep their types, each writer's lines are in every file in
\* the order of its calls, in synchronous mode and with a queue that cannot be full,
\* and no file of the first day exceeds m_split_lines by the number of writers.
THEOREM LogFilesRight == Spec => []FilesRight
<1>1. LogInv => FilesRight BY DEF LogInv, FilesRight
<1> QED BY <1>1, LogInvariant, PTL

\* A line that write_log() handed on is in exactly one place: no split, no overtaking
\* and no full queue loses or doubles it.
THEOREM LogEveryLineOnce == Spec => []EveryLineOnce
<1>1. LogInv => EveryLineOnce BY DEF LogInv
<1> QED BY <1>1, LogInvariant, PTL

\* In synchronous mode every line of a finished LOG_ macro is on disk.
THEOREM LogSyncOnDisk == Spec => []SyncLineOnDisk
<1>1. LogInv => SyncLineOnDisk BY SyncImpliesOnDisk DEF LogInv
<1> QED BY <1>1, LogInvariant, PTL
=============================================================================
