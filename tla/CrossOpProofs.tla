---------------------------- MODULE CrossOpProofs ---------------------------
(***************************************************************************)
(* Type correctness, InOrder, RecentKept and AbortJustified, for any       *)
(* writers, any number of receipts that are kept, and any reviewers,       *)
(* threads, quotas and routes of a run.                                    *)
(*                                                                         *)
(* None is inductive.  InOrder needs to know why a prune may write over a  *)
(* file that others have changed since it was read: until two prunes cross *)
(* only one is between truncation and write (Single), and the lines it     *)
(* leaves behind its own were appended after its truncation (Texts).       *)
(* RecentKept needs that the lines of an undisturbed file are the last     *)
(* receipts without a gap (Whole).  AbortJustified needs that every        *)
(* reviewer taken is one worker's (Own, Covered), asked once (AskedOnce),  *)
(* and cut short only after the threshold (Patient, Ends, Counted).        *)
(***************************************************************************)
EXTENDS CrossOp, SequenceTheorems, FiniteSetTheorems, TLAPS

-----------------------------------------------------------------------------
(* The invariant of the receipts *)

\* No line is of a receipt still to come.
Known == \A i \in 1..Len(file) : file[i] <= appended

\* What a prune is going to write, and may write over the file.
Texts ==
  \A w \in Writer :
    /\ at[w] \in {"truncate", "write"} =>
         /\ Len(text[w]) = MAX_RECEIPTS
         /\ ~crossed => Ascending(text[w])
         /\ \A j \in 1..MAX_RECEIPTS : text[w][j] <= appended
    /\ ~crossed /\ at[w] = "write" =>
         \A i \in 1..Len(file), j \in 1..MAX_RECEIPTS : file[i] # 0 => text[w][j] < file[i]

\* Until two prunes have crossed, one writes at a time.
Single == ~crossed => \A v, w \in Writer : at[v] = "write" /\ at[w] = "write" => v = w

\* The last receipts, without a gap.
Latest(lines, n) == \A i \in 1..Len(lines) : lines[i] = n - Len(lines) + i

Whole ==
  ~overlap =>
    /\ \A w \in Writer : at[w] \in {"truncate", "write"} => Latest(text[w], appended)
    /\ \A w \in Writer : at[w] = "write" => file = <<>>
    /\ (\A w \in Writer : at[w] # "write") =>
         /\ Latest(file, appended)
         /\ Len(file) >= MAX_RECEIPTS \/ Len(file) >= appended - purged

LogInv == ReceiptsTypeOK /\ InOrder /\ Known /\ Texts /\ Single /\ Whole

-----------------------------------------------------------------------------
(* The invariant of a run *)

\* A worker keeps the reviewer it takes until it has settled it, or, if the
\* worker is lost, for ever.
Holds(w) == pc[w] \notin {"take", "done"}

OpTypeOK ==
  /\ quota \in Quotas /\ route \in Routes
  /\ main \in {"budget", "join", "receipt", "write", "returned"}
  /\ pc \in [Worker -> {"take", "ask", "spawn", "cli", "api", "late", "settle", "done", "raised"}]
  /\ task \in [Worker -> Pick \cup {0}]
  /\ res \in [Worker -> Slot]
  /\ next \in 1..N + 1
  /\ abort \in BOOLEAN
  /\ results \in [Pick -> Slot]
  /\ asked \in [Pick -> 0..1]

\* A worker's reviewer has been taken from the list, is no other worker's and
\* has no result.
Own ==
  \A w \in Worker : Holds(w) =>
    /\ task[w] \in Pick /\ task[w] < next
    /\ results[task[w]] = "none"
    /\ \A v \in Worker : Holds(v) /\ task[v] = task[w] => v = w

\* Who has been asked so far, at each place of a worker.
AskedOnce ==
  /\ \A w \in Worker :
       /\ pc[w] \in {"ask", "spawn"} => asked[task[w]] = 0
       /\ pc[w] \in {"cli", "api", "late"} => asked[task[w]] = 1
       /\ pc[w] = "settle" => res[w] # "none" /\ (asked[task[w]] = 1 \/ res[w] = "aborted")
  /\ \A i \in Pick : results[i] \notin {"none", "aborted"} => asked[i] = 1
  /\ \A i \in Pick : i >= next => asked[i] = 0 /\ results[i] = "none"

\* Nobody who was taken is forgotten, ...
Covered ==
  \A i \in Pick : i < next => results[i] # "none" \/ \E w \in Worker : Holds(w) /\ task[w] = i

\* ... aborted before the threshold is reached, ...
Patient ==
  ~abort => /\ \A i \in Pick : results[i] # "aborted"
            /\ \A w \in Worker : pc[w] = "settle" => res[w] # "aborted"

\* ... or left in the list without need.
Ends == \A w \in Worker : pc[w] = "done" => abort \/ next > N

Settled == {i \in Pick : results[i] # "none"}

Finished == {i \in Pick : results[i] \notin {"none", "aborted"}}

Counted == settled = Cardinality(Settled) /\ (abort => Cardinality(Finished) >= Threshold)

OpInv == OpTypeOK /\ Own /\ AskedOnce /\ Covered /\ Patient /\ Ends /\ Counted

-----------------------------------------------------------------------------
(* The helpers on lines *)

\* Kept returns the last MAX_RECEIPTS lines of more.
LEMMA KeptLines ==
  ASSUME NEW S, NEW s \in Seq(S), Len(s) > MAX_RECEIPTS
  PROVE  /\ Kept(s) \in Seq(S)
         /\ Len(Kept(s)) = MAX_RECEIPTS
         /\ \A j \in 1..MAX_RECEIPTS :
              /\ Len(s) - MAX_RECEIPTS + j \in 1..Len(s)
              /\ Kept(s)[j] = s[Len(s) - MAX_RECEIPTS + j]
<1> DEFINE m == Len(s) - MAX_RECEIPTS + 1
<1>1. Len(s) \in Nat /\ MAX_RECEIPTS \in Nat /\ m \in Int /\ 1 <= m /\ m <= Len(s) + 1
  BY ReceiptAssumption
<1>2. \A i \in m..Len(s) : s[i] \in S
  BY <1>1
<1> HIDE DEF m
<1>3. /\ SubSeq(s, m, Len(s)) \in Seq(S)
      /\ Len(SubSeq(s, m, Len(s))) = IF m <= Len(s) THEN Len(s) - m + 1 ELSE 0
      /\ \A i \in 1..Len(s) - m + 1 : SubSeq(s, m, Len(s))[i] = s[m + i - 1]
  BY <1>1, <1>2, SubSeqProperties
<1> QED
  BY <1>1, <1>3, ReceiptAssumption DEF Kept, m

\* A receipt, or a torn line.
Line == 0..MaxAppends

\* What is left of a file are torn lines and lines of it, in their order.
LEMMA LeftLines ==
  ASSUME NEW old \in Seq(Line), NEW rest \in Left(old)
  PROVE  /\ rest \in Seq(Line)
         /\ Len(old) = 0 => Len(rest) = 0
         /\ \E c \in Int : \A i \in 1..Len(rest) :
              rest[i] # 0 => i + c \in 1..Len(old) /\ rest[i] = old[i + c]
<1>1. CASE old = <<>>
  <2>1. rest = <<>>
    BY <1>1 DEF Left
  <2>2. rest \in Seq(Line) /\ Len(rest) = 0
    BY <2>1, EmptySeq
  <2>3. \A i \in 1..Len(rest) :
          rest[i] # 0 => i + 0 \in 1..Len(old) /\ rest[i] = old[i + 0]
    BY <2>2
  <2> QED
    BY <2>2, <2>3
<1>2. CASE old # <<>>
  <2> DEFINE whole == {SubSeq(old, k, Len(old)) : k \in 2..Len(old) + 1}
  <2>0. Len(old) \in Nat /\ Len(old) # 0
    BY <1>2, EmptySeq
  <2>1. ASSUME NEW s \in whole
        PROVE  /\ s \in Seq(Line)
               /\ \E c \in Int : \A i \in 1..Len(s) :
                    i + c \in 1..Len(old) /\ s[i] = old[i + c]
    <3>1. PICK k \in 2..Len(old) + 1 : s = SubSeq(old, k, Len(old))
      OBVIOUS
    <3>2. k \in Int /\ 1 <= k /\ k - 1 \in Int
      OBVIOUS
    <3>3. \A i \in k..Len(old) : old[i] \in Line
      BY <2>0, <3>2
    <3>4. /\ s \in Seq(Line)
          /\ Len(s) = IF k <= Len(old) THEN Len(old) - k + 1 ELSE 0
          /\ \A i \in 1..Len(old) - k + 1 : s[i] = old[k + i - 1]
      BY <2>0, <3>1, <3>2, <3>3, SubSeqProperties
    <3>5. \A i \in 1..Len(s) : i + (k - 1) \in 1..Len(old) /\ s[i] = old[i + (k - 1)]
      BY <2>0, <3>2, <3>4
    <3> QED
      BY <3>2, <3>4, <3>5
  <2>2. rest \in whole \cup {<<0>> \o s : s \in whole}
    BY <1>2 DEF Left
  <2> HIDE DEF whole
  <2>3. CASE rest \in whole
    BY <2>0, <2>1, <2>3
  <2>4. CASE rest \in {<<0>> \o s : s \in whole}
    <3>1. PICK s \in whole : rest = <<0>> \o s
      BY <2>4
    <3>2. PICK c \in Int : \A i \in 1..Len(s) : i + c \in 1..Len(old) /\ s[i] = old[i + c]
      BY <2>1
    <3>0. 0 \in Line
      BY ReceiptAssumption DEF Line
    <3>3. s \in Seq(Line) /\ <<0>> \in Seq(Line) /\ Len(<<0>>) = 1 /\ <<0>>[1] = 0
      BY <2>1, <3>0
    <3>4. /\ rest \in Seq(Line) /\ Len(rest) = 1 + Len(s)
          /\ \A i \in 1..1 + Len(s) : rest[i] = IF i <= 1 THEN <<0>>[i] ELSE s[i - 1]
      BY <3>1, <3>3, ConcatProperties
    <3>5. Len(s) \in Nat /\ c - 1 \in Int
      BY <3>3, LenProperties
    <3>6. ASSUME NEW i \in 1..Len(rest), rest[i] # 0
          PROVE  i + (c - 1) \in 1..Len(old) /\ rest[i] = old[i + (c - 1)]
      <4>1. i # 1
        BY <3>3, <3>4, <3>5, <3>6
      <4>2. i - 1 \in 1..Len(s) /\ rest[i] = s[i - 1]
        BY <3>4, <3>5, <4>1
      <4> QED
        BY <3>2, <3>5, <4>2
    <3> QED
      BY <2>0, <3>4, <3>5, <3>6
  <2> QED
    BY <2>2, <2>3, <2>4
<1> QED
  BY <1>1, <1>2

\* Writing over a file leaves the new lines and, behind them, torn ones and old
\* ones in their order; over an empty file, nothing but the new lines.
LEMMA OverLines ==
  ASSUME NEW old \in Seq(Line), NEW new \in Seq(Line), NEW f \in Over(old, new)
  PROVE  /\ f \in Seq(Line)
         /\ Len(new) <= Len(f)
         /\ Len(old) = 0 => Len(f) = Len(new)
         /\ \A i \in 1..Len(new) : f[i] = new[i]
         /\ \E d \in Int : \A i \in Len(new) + 1..Len(f) :
              f[i] # 0 => i + d \in 1..Len(old) /\ f[i] = old[i + d]
<1>1. PICK rest \in Left(old) : f = new \o rest
  BY DEF Over
<1>2. /\ rest \in Seq(Line)
      /\ Len(old) = 0 => Len(rest) = 0
      /\ \E c \in Int : \A i \in 1..Len(rest) :
           rest[i] # 0 => i + c \in 1..Len(old) /\ rest[i] = old[i + c]
  BY LeftLines
<1>3. PICK c \in Int : \A i \in 1..Len(rest) :
        rest[i] # 0 => i + c \in 1..Len(old) /\ rest[i] = old[i + c]
  BY <1>2
<1>4. /\ f \in Seq(Line) /\ Len(f) = Len(new) + Len(rest)
      /\ \A i \in 1..Len(new) + Len(rest) :
           f[i] = IF i <= Len(new) THEN new[i] ELSE rest[i - Len(new)]
  BY <1>1, <1>2, ConcatProperties
<1>5. Len(new) \in Nat /\ Len(rest) \in Nat /\ Len(old) \in Nat
  BY <1>2, LenProperties
<1> DEFINE d == c - Len(new)
<1>6. ASSUME NEW i \in Len(new) + 1..Len(f), f[i] # 0
      PROVE  i + d \in 1..Len(old) /\ f[i] = old[i + d]
  <2>1. i - Len(new) \in 1..Len(rest) /\ f[i] = rest[i - Len(new)]
    BY <1>4, <1>5
  <2>2. i - Len(new) + c \in 1..Len(old) /\ rest[i - Len(new)] = old[i - Len(new) + c]
    BY <1>3, <1>6, <2>1
  <2> QED
    BY <1>5, <2>1, <2>2
<1>7. \E e \in Int : \A i \in Len(new) + 1..Len(f) :
        f[i] # 0 => i + e \in 1..Len(old) /\ f[i] = old[i + e]
  <2>1. d \in Int
    BY <1>5
  <2> HIDE DEF d
  <2> QED
    BY <1>6, <2>1
<1>8. /\ Len(new) <= Len(f) /\ (Len(old) = 0 => Len(f) = Len(new))
      /\ \A i \in 1..Len(new) : f[i] = new[i]
  BY <1>2, <1>4, <1>5
<1> QED
  BY <1>4, <1>7, <1>8

-----------------------------------------------------------------------------
(* The steps *)

\* A project starts without receipts.
LEMMA LogInitial == ReceiptsInit => LogInv
<1> SUFFICES ASSUME ReceiptsInit PROVE LogInv
  OBVIOUS
<1>1. file = <<>> /\ Len(file) = 0
  BY DEF ReceiptsInit
<1>2. ReceiptsTypeOK
  <2>1. <<>> \in Seq(0..MaxAppends)
    BY EmptySeq
  <2>2. 0 \in 0..MaxAppends /\ 0 \in 0..0
    BY ReceiptAssumption
  <2>3. at \in [Writer -> {"idle", "prune", "truncate", "write", "purge"}]
    BY DEF ReceiptsInit
  <2>4. text \in [Writer -> Seq(0..MaxAppends)]
    BY <2>1 DEF ReceiptsInit
  <2> QED
    BY <2>1, <2>2, <2>3, <2>4 DEF ReceiptsInit, ReceiptsTypeOK
<1> QED
  BY <1>1, <1>2, ReceiptAssumption
     DEF ReceiptsInit, LogInv, InOrder, Ascending, Known, Texts, Single, Whole, Latest

\* Every line of the file and of a text is a number.
LEMMA Numbers ==
  ASSUME ReceiptsTypeOK
  PROVE  /\ Len(file) \in Nat /\ appended \in Nat /\ purged \in Nat
         /\ \A i \in 1..Len(file) : file[i] \in 0..MaxAppends /\ file[i] \in Nat
         /\ \A v \in Writer : /\ text[v] \in Seq(0..MaxAppends)
                              /\ Len(text[v]) \in Nat
                              /\ \A j \in 1..Len(text[v]) : text[v][j] \in Nat
<1>1. file \in Seq(0..MaxAppends) /\ appended \in Nat /\ purged \in Nat
  BY ReceiptAssumption DEF ReceiptsTypeOK
<1>2. \A v \in Writer : text[v] \in Seq(0..MaxAppends)
  BY DEF ReceiptsTypeOK
<1>3. 0..MaxAppends \subseteq Nat
  BY ReceiptAssumption
<1>4. \A i \in 1..Len(file) : file[i] \in 0..MaxAppends
  BY <1>1, ElementOfSeq
<1>5. \A v \in Writer : \A j \in 1..Len(text[v]) : text[v][j] \in 0..MaxAppends
  BY <1>2, ElementOfSeq
<1> QED
  BY <1>1, <1>2, <1>3, <1>4, <1>5, LenProperties

\* The next receipt has the highest number.
LEMMA AppendStep ==
  ASSUME LogInv, NEW w \in Writer, Append1(w)
  PROVE  LogInv'
<1> DEFINE n == appended + 1
<1>0. ReceiptsTypeOK /\ InOrder /\ Known /\ Texts /\ Single /\ Whole
  BY DEF LogInv
<1>1. /\ n \in 0..MaxAppends /\ appended' = n /\ file' = Append(file, n)
      /\ appended \in Nat /\ n > appended /\ text' = text /\ purged' = purged
      /\ crossed' = crossed
  BY <1>0, ReceiptAssumption DEF Append1, ReceiptsTypeOK
<1> HIDE DEF n
<1>2. at' = [at EXCEPT ![w] = "prune"] /\ at[w] = "idle"
  BY DEF Append1, Goto
<1>3. /\ file' \in Seq(0..MaxAppends)
      /\ Len(file') = Len(file) + 1
      /\ \A i \in 1..Len(file) : file'[i] = file[i]
      /\ file'[Len(file) + 1] = n
  <2>1. file \in Seq(0..MaxAppends)
    BY <1>0 DEF ReceiptsTypeOK
  <2> QED
    BY <1>1, <2>1, AppendProperties
<1>L. Len(file) \in Nat /\ Len(file') = Len(file) + 1 /\ MAX_RECEIPTS \in Nat
  BY <1>0, <1>3, Numbers, ReceiptAssumption
<1>4. ReceiptsTypeOK'
  <2>1. at' \in [Writer -> {"idle", "prune", "truncate", "write", "purge"}]
    BY <1>0, <1>2 DEF ReceiptsTypeOK
  <2>2. appended' \in 0..MaxAppends /\ purged' \in 0..appended'
    BY <1>0, <1>1 DEF ReceiptsTypeOK
  <2>3. overlap' \in BOOLEAN
    BY <1>0 DEF ReceiptsTypeOK, Append1, Disturb
  <2> QED
    BY <1>0, <1>1, <1>3, <2>1, <2>2, <2>3 DEF ReceiptsTypeOK
<1>5. \A i \in 1..Len(file) : file'[i] \in Nat /\ file'[i] < n
  BY <1>0, <1>1, <1>3, Numbers DEF Known
<1>6. InOrder'
  <2> SUFFICES ASSUME ~crossed, NEW i \in 1..Len(file'), NEW j \in 1..Len(file'), i < j,
                      file'[i] # 0, file'[j] # 0
               PROVE  file'[i] < file'[j]
    BY <1>1 DEF InOrder, Ascending
  <2>1. i \in 1..Len(file)
    BY <1>0, <1>3, Numbers
  <2>2. CASE j = Len(file) + 1
    BY <1>3, <1>5, <2>1, <2>2
  <2>3. CASE j # Len(file) + 1
    <3>1. j \in 1..Len(file)
      BY <1>L, <2>3
    <3> QED
      BY <1>0, <1>3, <2>1, <3>1 DEF InOrder, Ascending
  <2> QED
    BY <2>2, <2>3
<1>7. Known'
  <2> SUFFICES ASSUME NEW i \in 1..Len(file') PROVE file'[i] <= n
    BY <1>1 DEF Known
  <2>1. i \in 1..Len(file) \/ i = Len(file) + 1
    BY <1>0, <1>3, Numbers
  <2> QED
    BY <1>1, <1>3, <1>5, <2>1
<1>8. Texts'
  <2> SUFFICES ASSUME NEW v \in Writer, at'[v] \in {"truncate", "write"}
               PROVE  /\ Len(text[v]) = MAX_RECEIPTS
                      /\ ~crossed => Ascending(text[v])
                      /\ \A j \in 1..MAX_RECEIPTS : text[v][j] <= n
                      /\ ~crossed /\ at'[v] = "write" =>
                           \A i \in 1..Len(file'), j \in 1..MAX_RECEIPTS :
                             file'[i] # 0 => text[v][j] < file'[i]
    BY <1>1 DEF Texts
  <2>1. v # w /\ at'[v] = at[v]
    BY <1>0, <1>2 DEF ReceiptsTypeOK
  <2>2. /\ Len(text[v]) = MAX_RECEIPTS /\ (~crossed => Ascending(text[v]))
        /\ \A j \in 1..MAX_RECEIPTS : text[v][j] <= appended
    BY <1>0, <2>1 DEF Texts
  <2>3. \A j \in 1..MAX_RECEIPTS : text[v][j] \in Nat /\ text[v][j] < n
    BY <1>0, <1>1, <2>2, Numbers
  <2>4. ASSUME ~crossed, at'[v] = "write",
               NEW i \in 1..Len(file'), NEW j \in 1..MAX_RECEIPTS, file'[i] # 0
        PROVE  text[v][j] < file'[i]
    <3>1. CASE i = Len(file) + 1
      BY <1>3, <2>3, <3>1
    <3>2. CASE i # Len(file) + 1
      <4>1. i \in 1..Len(file)
        BY <1>L, <3>2
      <4> QED
        BY <1>0, <1>3, <2>1, <2>4, <4>1 DEF Texts
    <3> QED
      BY <3>1, <3>2
  <2>5. \A j \in 1..MAX_RECEIPTS : text[v][j] <= n
    BY <1>1, <2>3
  <2> QED
    BY <2>2, <2>4, <2>5
<1>S. Single'
  <2>1. \A v \in Writer : at'[v] = "write" => at[v] = "write"
    BY <1>0, <1>2 DEF ReceiptsTypeOK
  <2> QED
    BY <1>0, <1>1, <2>1 DEF Single
<1>9. Whole'
  <2> SUFFICES ASSUME ~overlap' PROVE Whole'
    BY DEF Whole
  <2>1. ~overlap /\ \A v \in Writer \ {w} : at[v] = "idle"
    BY DEF Append1, Disturb
  <2>2. \A v \in Writer : at[v] \notin {"truncate", "write"}
                          /\ at'[v] \notin {"truncate", "write"}
    BY <1>0, <1>2, <2>1 DEF ReceiptsTypeOK
  <2>3. Latest(file, appended) /\ (Len(file) >= MAX_RECEIPTS \/ Len(file) >= appended - purged)
    BY <1>0, <2>1, <2>2 DEF Whole
  <2>4. ASSUME NEW i \in 1..Len(file') PROVE file'[i] = n - Len(file') + i
    <3>1. i \in 1..Len(file) \/ i = Len(file) + 1
      BY <1>0, <1>3, Numbers
    <3> QED
      BY <1>0, <1>1, <1>3, <2>3, <3>1, Numbers DEF Latest, n
  <2>5. Len(file') >= MAX_RECEIPTS \/ Len(file') >= n - purged
    BY <1>0, <1>1, <1>3, <2>3, Numbers, ReceiptAssumption DEF n
  <2> QED
    BY <1>1, <2>2, <2>4, <2>5 DEF Whole, Latest
<1> QED
  BY <1>4, <1>6, <1>7, <1>8, <1>S, <1>9 DEF LogInv

\* What a prune reads to keep is the end of the file.
LEMMA PruneReadStep ==
  ASSUME LogInv, NEW w \in Writer, PruneRead(w)
  PROVE  LogInv'
<1>0. ReceiptsTypeOK /\ InOrder /\ Known /\ Texts /\ Single /\ Whole
  BY DEF LogInv
<1>1. /\ file' = file /\ appended' = appended /\ purged' = purged /\ overlap' = overlap
      /\ crossed' = crossed
  BY DEF PruneRead
<1>2. InOrder' /\ Known'
  BY <1>0, <1>1 DEF InOrder, Known
<1>3. CASE text' = text /\ at' = [at EXCEPT ![w] = "idle"]
  <2>1. ReceiptsTypeOK'
    BY <1>0, <1>1, <1>3 DEF ReceiptsTypeOK
  <2>2. \A v \in Writer : at'[v] = IF v = w THEN "idle" ELSE at[v]
    BY <1>0, <1>3 DEF ReceiptsTypeOK
  <2>3. Texts'
    BY <1>0, <1>1, <1>3, <2>2 DEF Texts
  <2>4. (\A v \in Writer : at[v] # "write") <=> (\A v \in Writer : at'[v] # "write")
    BY <2>2 DEF PruneRead
  <2>5. Whole'
    BY <1>0, <1>1, <1>3, <2>2, <2>4 DEF Whole
  <2>6. Single'
    BY <1>0, <1>1, <2>2 DEF Single
  <2> QED
    BY <1>2, <2>1, <2>3, <2>5, <2>6 DEF LogInv
<1>4. CASE /\ Len(file) > MAX_RECEIPTS
           /\ text' = [text EXCEPT ![w] = Kept(file)] /\ at' = [at EXCEPT ![w] = "truncate"]
  <2>1. \A v \in Writer : /\ at'[v] = IF v = w THEN "truncate" ELSE at[v]
                         /\ text'[v] = IF v = w THEN Kept(file) ELSE text[v]
    BY <1>0, <1>4 DEF ReceiptsTypeOK
  <2>2. /\ Kept(file) \in Seq(0..MaxAppends)
        /\ Len(Kept(file)) = MAX_RECEIPTS
        /\ \A j \in 1..MAX_RECEIPTS :
             /\ Len(file) - MAX_RECEIPTS + j \in 1..Len(file)
             /\ Kept(file)[j] = file[Len(file) - MAX_RECEIPTS + j]
    <3>1. file \in Seq(0..MaxAppends)
      BY <1>0 DEF ReceiptsTypeOK
    <3> QED
      BY <1>4, <3>1, KeptLines
  <2>3. ReceiptsTypeOK'
    BY <1>0, <1>1, <1>4, <2>2 DEF ReceiptsTypeOK
  <2>L. Len(file) \in Nat /\ MAX_RECEIPTS \in Nat /\ appended \in Nat
    BY <1>0, Numbers, ReceiptAssumption
  <2>4. ASSUME ~crossed PROVE Ascending(Kept(file))
    <3> SUFFICES ASSUME NEW i \in 1..MAX_RECEIPTS, NEW j \in 1..MAX_RECEIPTS, i < j,
                        Kept(file)[i] # 0, Kept(file)[j] # 0
                 PROVE  Kept(file)[i] < Kept(file)[j]
      BY <2>2 DEF Ascending
    <3>1. Len(file) - MAX_RECEIPTS + i < Len(file) - MAX_RECEIPTS + j
      BY <2>L
    <3> QED
      BY <1>0, <2>2, <2>4, <3>1 DEF InOrder, Ascending
  <2>5. \A j \in 1..MAX_RECEIPTS : Kept(file)[j] <= appended
    BY <1>0, <2>2 DEF Known
  <2>6. Texts'
    <3> SUFFICES ASSUME NEW v \in Writer, at'[v] \in {"truncate", "write"}
                 PROVE  /\ Len(text'[v]) = MAX_RECEIPTS
                        /\ ~crossed => Ascending(text'[v])
                        /\ \A j \in 1..MAX_RECEIPTS : text'[v][j] <= appended
                        /\ ~crossed /\ at'[v] = "write" =>
                             \A i \in 1..Len(file), j \in 1..MAX_RECEIPTS :
                               file[i] # 0 => text'[v][j] < file[i]
      BY <1>1 DEF Texts
    <3>1. CASE v = w
      <4>1. text'[v] = Kept(file) /\ at'[v] = "truncate"
        BY <2>1, <3>1
      <4> QED
        BY <2>2, <2>4, <2>5, <4>1
    <3>2. CASE v # w
      <4>1. text'[v] = text[v] /\ at'[v] = at[v]
        BY <2>1, <3>2
      <4> QED
        BY <1>0, <4>1 DEF Texts
    <3> QED
      BY <3>1, <3>2
  <2>7. Whole'
    <3> SUFFICES ASSUME ~overlap PROVE Whole'
      BY <1>1 DEF Whole
    <3>1. \A v \in Writer : at[v] # "write"
      <4> SUFFICES ASSUME NEW v \in Writer, at[v] = "write" PROVE FALSE
        OBVIOUS
      <4>1. Len(file) = 0
        BY <1>0 DEF Whole
      <4> QED
        BY <1>4, <2>L, <4>1
    <3>2. Latest(file, appended) /\ (Len(file) >= MAX_RECEIPTS \/ Len(file) >= appended - purged)
      BY <1>0, <3>1 DEF Whole
    <3>3. Latest(Kept(file), appended)
      <4> SUFFICES ASSUME NEW j \in 1..MAX_RECEIPTS
                   PROVE  Kept(file)[j] = appended - MAX_RECEIPTS + j
        BY <2>2 DEF Latest
      <4>1. file[Len(file) - MAX_RECEIPTS + j]
              = appended - Len(file) + (Len(file) - MAX_RECEIPTS + j)
        BY <2>2, <3>2 DEF Latest
      <4> QED
        BY <2>L, <2>2, <4>1
    <3>4. \A v \in Writer : at'[v] # "write"
      BY <2>1, <3>1
    <3>5. \A v \in Writer : at'[v] \in {"truncate", "write"} => Latest(text'[v], appended)
      BY <1>0, <2>1, <3>3 DEF Whole
    <3> QED
      BY <1>1, <3>2, <3>4, <3>5 DEF Whole, Latest
  <2>8. Single'
    BY <1>0, <1>1, <2>1 DEF Single
  <2> QED
    BY <1>2, <2>3, <2>6, <2>7, <2>8 DEF LogInv
<1> QED
  BY <1>3, <1>4 DEF PruneRead, Goto

\* An empty file is in order, whoever empties it.
LEMMA Emptied ==
  ASSUME ReceiptsTypeOK, file' = <<>>
  PROVE  /\ Len(file') = 0 /\ file' \in Seq(0..MaxAppends)
         /\ InOrder' /\ Known'
         /\ \A i : i \notin 1..Len(file')
<1>1. Len(file') = 0 /\ file' \in Seq(0..MaxAppends)
  BY EmptySeq
<1>2. \A i : i \notin 1..Len(file')
  BY <1>1
<1> QED
  BY <1>1, <1>2 DEF InOrder, Ascending, Known

\* The file is emptied by a prune that has its text.
LEMMA TruncateStep ==
  ASSUME LogInv, NEW w \in Writer, Truncate(w)
  PROVE  LogInv'
<1>0. ReceiptsTypeOK /\ InOrder /\ Known /\ Texts /\ Single /\ Whole
  BY DEF LogInv
<1>1. /\ file' = <<>> /\ text' = text /\ appended' = appended /\ purged' = purged
      /\ at[w] = "truncate" /\ at' = [at EXCEPT ![w] = "write"]
  BY DEF Truncate, Goto
<1>2. \A v \in Writer : at'[v] = IF v = w THEN "write" ELSE at[v]
  BY <1>0, <1>1 DEF ReceiptsTypeOK
<1>3. ReceiptsTypeOK'
  <2>1. overlap' \in BOOLEAN /\ crossed' \in BOOLEAN
    BY <1>0 DEF ReceiptsTypeOK, Truncate, Disturb
  <2> QED
    BY <1>0, <1>1, <2>1, Emptied DEF ReceiptsTypeOK
<1>4. InOrder' /\ Known'
  BY <1>0, <1>1, Emptied
<1>C. crossed' = (crossed \/ \E v \in Writer \ {w} : at[v] = "write")
  BY DEF Truncate
<1>5. Texts'
  <2>1. ~crossed' => ~crossed
    BY <1>C
  <2> QED
    BY <1>0, <1>1, <1>2, <2>1, Emptied DEF Texts
<1>S. Single'
  BY <1>C, <1>2 DEF Single
<1>6. Whole'
  <2> SUFFICES ASSUME ~overlap' PROVE Whole'
    BY DEF Whole
  <2>1. ~overlap
    BY DEF Truncate, Disturb
  <2>2. \A v \in Writer : at'[v] \in {"truncate", "write"} => Latest(text'[v], appended')
    BY <1>0, <1>1, <1>2, <2>1 DEF Whole
  <2> QED
    BY <1>1, <1>2, <2>2 DEF Whole
<1> QED
  BY <1>3, <1>4, <1>5, <1>S, <1>6 DEF LogInv

\* The kept lines are older than what is left behind them.
LEMMA PruneWriteStep ==
  ASSUME LogInv, NEW w \in Writer, PruneWrite(w)
  PROVE  LogInv'
<1> DEFINE new == text[w]
<1>0. ReceiptsTypeOK /\ InOrder /\ Known /\ Texts /\ Single /\ Whole
  BY DEF LogInv
<1>1. /\ file' \in Over(file, new) /\ appended' = appended /\ purged' = purged
      /\ at[w] = "write" /\ at' = [at EXCEPT ![w] = "idle"]
      /\ text' = [text EXCEPT ![w] = <<>>] /\ crossed' = crossed
  BY DEF PruneWrite, Goto
<1>2. \A v \in Writer : /\ at'[v] = IF v = w THEN "idle" ELSE at[v]
                       /\ text'[v] = IF v = w THEN <<>> ELSE text[v]
  BY <1>0, <1>1 DEF ReceiptsTypeOK
<1>3. /\ new \in Seq(0..MaxAppends) /\ Len(new) = MAX_RECEIPTS
      /\ ~crossed => Ascending(new)
      /\ \A j \in 1..MAX_RECEIPTS : new[j] <= appended
      /\ ~crossed => \A i \in 1..Len(file), j \in 1..MAX_RECEIPTS :
                       file[i] # 0 => new[j] < file[i]
  BY <1>0, <1>1, Numbers DEF Texts
<1> HIDE DEF new
<1>L. Len(file) \in Nat /\ MAX_RECEIPTS \in Nat \ {0} /\ appended \in Nat
  BY <1>0, Numbers, ReceiptAssumption
<1>4. /\ file' \in Seq(0..MaxAppends)
      /\ MAX_RECEIPTS <= Len(file')
      /\ Len(file) = 0 => Len(file') = MAX_RECEIPTS
      /\ \A i \in 1..MAX_RECEIPTS : file'[i] = new[i]
      /\ \E d \in Int : \A i \in MAX_RECEIPTS + 1..Len(file') :
           file'[i] # 0 => i + d \in 1..Len(file) /\ file'[i] = file[i + d]
  <2>1. file \in Seq(Line) /\ new \in Seq(Line) /\ file' \in Over(file, new)
    BY <1>0, <1>1, <1>3 DEF ReceiptsTypeOK, Line, new
  <2>2. /\ file' \in Seq(Line)
        /\ Len(new) <= Len(file')
        /\ Len(file) = 0 => Len(file') = Len(new)
        /\ \A i \in 1..Len(new) : file'[i] = new[i]
        /\ \E d \in Int : \A i \in Len(new) + 1..Len(file') :
             file'[i] # 0 => i + d \in 1..Len(file) /\ file'[i] = file[i + d]
    BY <2>1, OverLines
  <2> QED
    BY <1>3, <2>2 DEF Line
<1>5. PICK d \in Int : \A i \in MAX_RECEIPTS + 1..Len(file') :
        file'[i] # 0 => i + d \in 1..Len(file) /\ file'[i] = file[i + d]
  BY <1>4
<1>M. Len(file') \in Nat
  BY <1>4, LenProperties
<1>6. ReceiptsTypeOK'
  <2>1. text' \in [Writer -> Seq(0..MaxAppends)]
    BY <1>0, <1>1, EmptySeq DEF ReceiptsTypeOK
  <2>2. overlap' \in BOOLEAN
    BY <1>0 DEF ReceiptsTypeOK, PruneWrite, Disturb
  <2> QED
    BY <1>0, <1>1, <1>4, <2>1, <2>2 DEF ReceiptsTypeOK
<1>7. InOrder'
  <2> SUFFICES ASSUME ~crossed, NEW i \in 1..Len(file'), NEW j \in 1..Len(file'), i < j,
                      file'[i] # 0, file'[j] # 0
               PROVE  file'[i] < file'[j]
    BY <1>1 DEF InOrder, Ascending
  <2>1. CASE j \in 1..MAX_RECEIPTS
    <3>1. i \in 1..MAX_RECEIPTS
      BY <1>L, <2>1
    <3> QED
      BY <1>3, <1>4, <2>1, <3>1 DEF Ascending
  <2>2. CASE i \in 1..MAX_RECEIPTS /\ j \in MAX_RECEIPTS + 1..Len(file')
    BY <1>3, <1>4, <1>5, <2>2
  <2>3. CASE i \in MAX_RECEIPTS + 1..Len(file') /\ j \in MAX_RECEIPTS + 1..Len(file')
    <3>1. i + d \in 1..Len(file) /\ j + d \in 1..Len(file) /\ i + d < j + d
      BY <1>5, <1>M, <2>3
    <3>2. file'[i] = file[i + d] /\ file'[j] = file[j + d]
      BY <1>5, <2>3
    <3> QED
      BY <1>0, <3>1, <3>2 DEF InOrder, Ascending
  <2>4. j \in 1..MAX_RECEIPTS \/ j \in MAX_RECEIPTS + 1..Len(file')
    BY <1>L, <1>M
  <2>5. i \in 1..MAX_RECEIPTS \/ i \in MAX_RECEIPTS + 1..Len(file')
    BY <1>L, <1>M
  <2>6. CASE i \in MAX_RECEIPTS + 1..Len(file') /\ j \in 1..MAX_RECEIPTS
    BY <1>L, <2>6
  <2> QED
    BY <2>1, <2>2, <2>3, <2>4, <2>5, <2>6
<1>8. Known'
  <2> SUFFICES ASSUME NEW i \in 1..Len(file') PROVE file'[i] <= appended
    BY <1>1 DEF Known
  <2>1. CASE i \in 1..MAX_RECEIPTS
    BY <1>3, <1>4, <2>1
  <2>2. CASE i \in MAX_RECEIPTS + 1..Len(file')
    <3>1. file'[i] # 0 => i + d \in 1..Len(file) /\ file'[i] = file[i + d]
      BY <1>5, <2>2
    <3> QED
      BY <1>0, <1>L, <3>1 DEF Known
  <2> QED
    BY <1>L, <1>M, <2>1, <2>2
<1>9. Texts'
  <2> SUFFICES ASSUME NEW v \in Writer, v # w, at[v] \in {"truncate", "write"}
               PROVE  /\ Len(text[v]) = MAX_RECEIPTS
                      /\ ~crossed => Ascending(text[v])
                      /\ \A j \in 1..MAX_RECEIPTS : text[v][j] <= appended
                      /\ ~(~crossed /\ at[v] = "write")
    BY <1>1, <1>2 DEF Texts
  <2> QED
    BY <1>0, <1>1 DEF Texts, Single
<1>S. Single'
  BY <1>0, <1>1, <1>2 DEF Single
<1>10. Whole'
  <2> SUFFICES ASSUME ~overlap' PROVE Whole'
    BY DEF Whole
  <2>1. ~overlap /\ \A v \in Writer \ {w} : at[v] = "idle"
    BY DEF PruneWrite, Disturb
  <2>2. \A v \in Writer : at'[v] \notin {"truncate", "write"}
    BY <1>2, <2>1
  <2>3. Len(file) = 0 /\ Latest(new, appended)
    BY <1>0, <1>1, <2>1 DEF Whole, new
  <2>4. Len(file') = MAX_RECEIPTS
    BY <1>4, <2>3
  <2>5. Latest(file', appended)
    BY <1>3, <1>4, <2>3, <2>4 DEF Latest
  <2> QED
    BY <1>1, <1>L, <2>2, <2>4, <2>5 DEF Whole
<1> QED
  BY <1>6, <1>7, <1>8, <1>9, <1>S, <1>10 DEF LogInv

\* To count the lines before they are purged changes nothing.
LEMMA PurgeReadStep ==
  ASSUME LogInv, NEW w \in Writer, PurgeRead(w)
  PROVE  LogInv'
<1>0. ReceiptsTypeOK /\ InOrder /\ Known /\ Texts /\ Single /\ Whole
  BY DEF LogInv
<1>1. /\ UNCHANGED <<file, text, appended, purged, overlap, crossed>>
      /\ at[w] = "idle" /\ at' = [at EXCEPT ![w] = "purge"]
  BY DEF PurgeRead, Goto
<1>2. \A v \in Writer : at'[v] = IF v = w THEN "purge" ELSE at[v]
  BY <1>0, <1>1 DEF ReceiptsTypeOK
<1>3. ReceiptsTypeOK'
  BY <1>0, <1>1 DEF ReceiptsTypeOK
<1>4. InOrder' /\ Known'
  BY <1>0, <1>1 DEF InOrder, Known
<1>5. Texts'
  BY <1>0, <1>1, <1>2 DEF Texts
<1>6. (\A v \in Writer : at[v] # "write") <=> (\A v \in Writer : at'[v] # "write")
  BY <1>1, <1>2
<1>7. Whole'
  BY <1>0, <1>1, <1>2, <1>6 DEF Whole
<1>8. Single'
  BY <1>0, <1>1, <1>2 DEF Single
<1> QED
  BY <1>3, <1>4, <1>5, <1>7, <1>8 DEF LogInv

\* After a purge no receipt is recent.
LEMMA PurgeStep ==
  ASSUME LogInv, NEW w \in Writer, Purge(w)
  PROVE  LogInv'
<1>0. ReceiptsTypeOK /\ InOrder /\ Known /\ Texts /\ Single /\ Whole
  BY DEF LogInv
<1>1. /\ file' = <<>> /\ text' = text /\ appended' = appended /\ purged' = appended
      /\ crossed' = crossed
      /\ at[w] = "purge" /\ at' = [at EXCEPT ![w] = "idle"]
  BY DEF Purge, Goto
<1>2. \A v \in Writer : at'[v] = IF v = w THEN "idle" ELSE at[v]
  BY <1>0, <1>1 DEF ReceiptsTypeOK
<1>3. ReceiptsTypeOK'
  <2>1. purged' \in 0..appended' /\ appended' \in 0..MaxAppends
    BY <1>0, <1>1, Numbers DEF ReceiptsTypeOK
  <2>2. overlap' \in BOOLEAN
    BY <1>0 DEF ReceiptsTypeOK, Purge, Disturb
  <2> QED
    BY <1>0, <1>1, <2>1, <2>2, Emptied DEF ReceiptsTypeOK
<1>4. InOrder' /\ Known'
  BY <1>0, <1>1, Emptied
<1>5. Texts'
  BY <1>0, <1>1, <1>2, Emptied DEF Texts
<1>6. Whole'
  <2>1. Latest(file', appended') /\ Len(file') >= appended' - purged'
    BY <1>0, <1>1, Emptied, Numbers DEF Latest
  <2>2. ~overlap' => ~overlap
    BY DEF Purge, Disturb
  <2>3. ASSUME ~overlap', NEW v \in Writer, at'[v] \in {"truncate", "write"}
        PROVE  Latest(text'[v], appended')
    BY <1>0, <1>1, <1>2, <2>2, <2>3 DEF Whole
  <2> QED
    BY <1>1, <2>1, <2>3 DEF Whole
<1>7. Single'
  BY <1>0, <1>1, <1>2 DEF Single
<1> QED
  BY <1>3, <1>4, <1>5, <1>6, <1>7 DEF LogInv

\* A call that ends early leaves the file as it is, and notes it if it is torn.
LEMMA InterruptStep ==
  ASSUME LogInv, NEW w \in Writer, Interrupt(w)
  PROVE  LogInv'
<1>0. ReceiptsTypeOK /\ InOrder /\ Known /\ Texts /\ Single /\ Whole
  BY DEF LogInv
<1>1. /\ UNCHANGED <<file, appended, purged, crossed>> /\ overlap' = (overlap \/ at[w] = "write")
      /\ at' = [at EXCEPT ![w] = "idle"] /\ text' = [text EXCEPT ![w] = <<>>]
  BY DEF Interrupt, Goto
<1>2. \A v \in Writer : /\ at'[v] = IF v = w THEN "idle" ELSE at[v]
                       /\ text'[v] = IF v = w THEN <<>> ELSE text[v]
  BY <1>0, <1>1 DEF ReceiptsTypeOK
<1>3. ReceiptsTypeOK'
  BY <1>0, <1>1, EmptySeq DEF ReceiptsTypeOK
<1>4. InOrder' /\ Known'
  BY <1>0, <1>1 DEF InOrder, Known
<1>5. Texts'
  BY <1>0, <1>1, <1>2 DEF Texts
<1>6. Whole'
  <2> SUFFICES ASSUME ~overlap' PROVE Whole'
    BY DEF Whole
  <2>1. ~overlap /\ at[w] # "write"
    BY <1>1
  <2>2. (\A v \in Writer : at[v] # "write") <=> (\A v \in Writer : at'[v] # "write")
    BY <1>2, <2>1
  <2>3. \A v \in Writer : at'[v] \in {"truncate", "write"} =>
          at'[v] = at[v] /\ text'[v] = text[v]
    BY <1>2
  <2> QED
    BY <1>0, <1>1, <2>1, <2>2, <2>3 DEF Whole
<1>7. Single'
  BY <1>0, <1>1, <1>2 DEF Single
<1> QED
  BY <1>3, <1>4, <1>5, <1>6, <1>7 DEF LogInv

\* What changes none of the receipts' variables keeps the invariant.
LEMMA Unchanged == LogInv /\ UNCHANGED rvars => LogInv'
<1> SUFFICES ASSUME LogInv, UNCHANGED rvars PROVE LogInv'
  OBVIOUS
<1>1. /\ file' = file /\ at' = at /\ text' = text /\ appended' = appended
      /\ purged' = purged /\ overlap' = overlap /\ crossed' = crossed
  BY DEF rvars
<1>2. ReceiptsTypeOK' /\ InOrder' /\ Known'
  BY <1>1 DEF LogInv, ReceiptsTypeOK, InOrder, Known
<1>3. Texts'
  BY <1>1 DEF LogInv, Texts
<1>4. Whole'
  BY <1>1 DEF LogInv, Whole
<1>5. Single'
  BY <1>1 DEF LogInv, Single
<1> QED
  BY <1>2, <1>3, <1>4, <1>5 DEF LogInv

\* Every call of every writer keeps the invariant.
LEMMA CallStep ==
  ASSUME LogInv, NEW w \in Writer, Other(w)
  PROVE  LogInv'
BY AppendStep, PruneReadStep, TruncateStep, PruneWriteStep, PurgeReadStep, PurgeStep,
   InterruptStep DEF Other, Rewrite

\* A step of a run is a call of its own writer, or leaves the receipts alone.
LEMMA LogInductive == LogInv /\ [Next]_vars => LogInv'
<1> SUFFICES ASSUME LogInv, [Next]_vars PROVE LogInv'
  OBVIOUS
<1>1. Self \in Writer
  BY OpAssumption
<1>2. CASE CheckBudget \/ Join
  BY <1>2, Unchanged DEF CheckBudget, Join, rvars
<1>3. ASSUME NEW w \in Worker, Work(w) PROVE LogInv'
  <2>1. UNCHANGED rvars
    BY <1>3 DEF Work, Take, LookFirst, Spawn, Communicate, Raise, CallApi, Settle, OpFrame, rvars
  <2> QED
    BY <2>1, Unchanged
<1>4. CASE Receipt
  <2>1. CASE Append1(Self)
    BY <1>1, <2>1, AppendStep
  <2>2. CASE UNCHANGED rvars
    BY <2>2, Unchanged
  <2> QED
    BY <1>4, <2>1, <2>2 DEF Receipt
<1>5. CASE Prune
  BY <1>1, <1>5, CallStep DEF Prune, Other
<1>6. ASSUME NEW v \in Writer, Other(v) PROVE LogInv'
  BY <1>6, CallStep
<1>7. CASE UNCHANGED vars
  BY <1>7, Unchanged DEF vars
<1> QED
  BY <1>2, <1>3, <1>4, <1>5, <1>6, <1>7 DEF Next, Run

-----------------------------------------------------------------------------
(* The reviewers *)

\* There are finitely many.
LEMMA PickFinite ==
  ASSUME NEW A \in SUBSET Pick
  PROVE  IsFiniteSet(A) /\ Cardinality(A) \in Nat /\ Cardinality(A) <= N
<1>1. IsFiniteSet(Pick) /\ Cardinality(Pick) = N
  BY OpAssumption, FS_Interval DEF Pick
<1> QED
  BY <1>1, FS_Subset, FS_CardinalityType

\* Nobody has been asked at first.
LEMMA OpInitial == Init => OpInv
<1> SUFFICES ASSUME Init PROVE OpInv
  OBVIOUS
<1> USE DEF Init
<1>0. N \in Nat \ {0}
  BY OpAssumption
<1>1. OpTypeOK
  <2>1. 1 \in 1..N + 1 /\ 0 \in 0..1
    BY <1>0
  <2>2. task \in [Worker -> Pick \cup {0}] /\ asked \in [Pick -> 0..1]
    BY <2>1
  <2>3. res \in [Worker -> Slot] /\ results \in [Pick -> Slot]
    BY DEF Slot
  <2> QED
    BY <2>1, <2>2, <2>3 DEF OpTypeOK
<1>2. Own /\ AskedOnce /\ Covered /\ Patient /\ Ends
  BY <1>0 DEF Own, AskedOnce, Covered, Patient, Ends, Holds, Pick
<1>3. Settled = {}
  BY DEF Settled
<1>4. Counted
  BY <1>3, FS_EmptySet DEF Counted
<1> QED
  BY <1>1, <1>2, <1>4 DEF OpInv

\* A worker that gets on with its reviewer.
LEMMA Move ==
  ASSUME OpInv, NEW w \in Worker, Holds(w),
         NEW p \in {"spawn", "cli", "api", "late", "settle", "raised"},
         NEW r \in Slot, NEW n \in 0..1,
         pc' = [pc EXCEPT ![w] = p], res' = [res EXCEPT ![w] = r],
         asked' = [asked EXCEPT ![task[w]] = n],
         UNCHANGED <<quota, route, main, task, next, settled, abort, results>>,
         p = "spawn" => n = 0,
         p \in {"cli", "api", "late"} => n = 1,
         p = "settle" => r # "none" /\ (n = 1 \/ r = "aborted") /\ (r = "aborted" => abort)
  PROVE  OpInv'
<1>0. OpTypeOK /\ Own /\ AskedOnce /\ Covered /\ Patient /\ Ends /\ Counted
  BY DEF OpInv
<1>1. /\ \A v \in Worker : pc'[v] = IF v = w THEN p ELSE pc[v]
      /\ \A v \in Worker : res'[v] = IF v = w THEN r ELSE res[v]
  BY <1>0 DEF OpTypeOK
<1>2. task[w] \in Pick /\ task[w] < next /\ results[task[w]] = "none"
  BY <1>0 DEF Own
<1>3. \A i \in Pick : asked'[i] = IF i = task[w] THEN n ELSE asked[i]
  BY <1>0 DEF OpTypeOK
<1>4. \A v \in Worker : Holds(v)' <=> Holds(v)
  BY <1>1 DEF Holds
<1>5. OpTypeOK'
  BY <1>0 DEF OpTypeOK
<1>6. Own' /\ Covered'
  BY <1>0, <1>4 DEF Own, Covered
<1>7. AskedOnce'
  <2>1. ASSUME NEW v \in Worker, v # w, Holds(v)
        PROVE  pc'[v] = pc[v] /\ res'[v] = res[v] /\ asked'[task[v]] = asked[task[v]]
    BY <1>0, <1>1, <1>3, <2>1 DEF Own
  <2>2. pc'[w] = p /\ res'[w] = r /\ asked'[task[w]] = n
    BY <1>1, <1>2, <1>3
  <2>3. ASSUME NEW v \in Worker
        PROVE  /\ pc'[v] \in {"ask", "spawn"} => asked'[task[v]] = 0
               /\ pc'[v] \in {"cli", "api", "late"} => asked'[task[v]] = 1
               /\ pc'[v] = "settle" =>
                    res'[v] # "none" /\ (asked'[task[v]] = 1 \/ res'[v] = "aborted")
    <3>1. CASE v = w
      BY <2>2, <3>1
    <3>2. CASE v # w /\ Holds(v)
      BY <1>0, <2>1, <3>2 DEF AskedOnce
    <3>3. CASE v # w /\ ~Holds(v)
      BY <1>1, <3>3 DEF Holds
    <3> QED
      BY <3>1, <3>2, <3>3
  <2>4. \A i \in Pick : results[i] \notin {"none", "aborted"} => asked'[i] = 1
    BY <1>0, <1>2, <1>3 DEF AskedOnce
  <2>5. \A i \in Pick : i >= next => asked'[i] = 0 /\ results[i] = "none"
    <3> SUFFICES ASSUME NEW i \in Pick, i >= next PROVE asked'[i] = 0 /\ results[i] = "none"
      OBVIOUS
    <3>1. i # task[w]
      BY <1>0, <1>2 DEF OpTypeOK, Pick
    <3> QED
      BY <1>0, <1>3, <3>1 DEF AskedOnce
  <2> QED
    BY <2>3, <2>4, <2>5 DEF AskedOnce
<1>8. Patient' /\ Ends'
  BY <1>0, <1>1 DEF Patient, Ends
<1>9. Counted'
  BY <1>0 DEF Counted, Settled, Finished, Threshold, Short
<1> QED
  BY <1>5, <1>6, <1>7, <1>8, <1>9 DEF OpInv

\* The steps of a worker with a reviewer are moves.
LEMMA MoveStep ==
  ASSUME OpInv, NEW w \in Worker,
         LookFirst(w) \/ Spawn(w) \/ Communicate(w) \/ Raise(w) \/ CallApi(w)
  PROVE  OpInv'
<1>0. OpTypeOK /\ Own /\ AskedOnce
  BY DEF OpInv
<1> DEFINE n == asked[task[w]]
<1>1. Holds(w)
  BY DEF LookFirst, Spawn, Communicate, Raise, CallApi, Holds
<1>2. task[w] \in Pick /\ n \in 0..1 /\ res[w] \in Slot
  BY <1>0, <1>1 DEF Own, OpTypeOK
<1>3. asked = [asked EXCEPT ![task[w]] = n] /\ res = [res EXCEPT ![w] = res[w]]
  BY <1>0, <1>2 DEF OpTypeOK
<1>4. UNCHANGED <<quota, route, main, task, next, settled, abort, results>>
  BY DEF LookFirst, Spawn, Communicate, Raise, CallApi, OpFrame
<1> HIDE DEF n
<1>5. CASE LookFirst(w)
  <2>1. n = 0 /\ asked' = asked
    BY <1>0, <1>5 DEF AskedOnce, LookFirst, n
  <2>2. CASE Short /\ abort /\ Have(w, "aborted")
    BY <1>1, <1>2, <1>3, <1>4, <2>1, <2>2, Move DEF Have, Slot, Result
  <2>3. CASE pc' = [pc EXCEPT ![w] = "spawn"] /\ res' = res
    BY <1>1, <1>2, <1>3, <1>4, <2>1, <2>3, Move
  <2> QED
    BY <1>5, <2>2, <2>3 DEF LookFirst
<1>6. CASE Spawn(w)
  <2>1. n = 0
    BY <1>0, <1>6 DEF AskedOnce, Spawn, n
  <2>2. asked' = [asked EXCEPT ![task[w]] = 1]
    BY <1>6, <2>1 DEF Spawn, n
  <2>3. ASSUME NEW p \in {"cli", "api"}, pc' = [pc EXCEPT ![w] = p], res' = res PROVE OpInv'
    <3>1. res' = [res EXCEPT ![w] = res[w]] /\ res[w] \in Slot
      BY <1>2, <1>3, <2>3
    <3>2. p \in {"spawn", "cli", "api", "late", "settle", "raised"} /\ p \notin {"spawn", "settle"}
      BY <2>3
    <3>3. 1 \in 0..1
      OBVIOUS
    <3> QED
      BY <1>1, <1>4, <2>2, <2>3, <3>1, <3>2, <3>3, Move
  <2>4. CASE Have(w, "failed")
    <3>1. /\ pc' = [pc EXCEPT ![w] = "settle"] /\ res' = [res EXCEPT ![w] = "failed"]
          /\ "failed" \in Slot /\ 1 \in 0..1
      BY <2>4 DEF Have, Slot, Result
    <3> QED
      BY <1>1, <1>4, <2>2, <3>1, Move
  <2> QED
    BY <1>6, <2>3, <2>4 DEF Spawn
<1>7. CASE Communicate(w)
  <2>1. n = 1 /\ asked' = asked
    BY <1>0, <1>7 DEF AskedOnce, Communicate, n
  <2>2. ASSUME NEW r \in {"answer", "exit", "timeout"}, Have(w, r) PROVE OpInv'
    BY <1>1, <1>2, <1>3, <1>4, <2>1, <2>2, Move DEF Have, Slot, Result
  <2>3. CASE abort /\ Have(w, "aborted")
    BY <1>1, <1>2, <1>3, <1>4, <2>1, <2>3, Move DEF Have, Slot, Result
  <2>4. ASSUME NEW p \in {"api", "late"}, pc' = [pc EXCEPT ![w] = p], res' = res PROVE OpInv'
    BY <1>1, <1>2, <1>3, <1>4, <2>1, <2>4, Move
  <2> QED
    BY <1>7, <2>2, <2>3, <2>4 DEF Communicate
<1>8. CASE Raise(w)
  <2>1. asked' = asked /\ res' = res /\ pc' = [pc EXCEPT ![w] = "raised"]
    BY <1>8 DEF Raise
  <2> QED
    BY <1>1, <1>2, <1>3, <1>4, <2>1, Move
<1>9. CASE CallApi(w)
  <2>1. n = 1 /\ asked' = asked
    BY <1>0, <1>9 DEF AskedOnce, CallApi, n
  <2>2. ASSUME NEW r \in {"fallback-used", "timeout", "failed"}, Have(w, r) PROVE OpInv'
    BY <1>1, <1>2, <1>3, <1>4, <2>1, <2>2, Move DEF Have, Slot, Result
  <2> QED
    BY <1>9, <2>2 DEF CallApi
<1> QED
  BY <1>5, <1>6, <1>7, <1>8, <1>9

\* A worker takes the next reviewer, or ends.
LEMMA TakeStep ==
  ASSUME OpInv, NEW w \in Worker, Take(w)
  PROVE  OpInv'
<1>0. OpTypeOK /\ Own /\ AskedOnce /\ Covered /\ Patient /\ Ends /\ Counted
  BY DEF OpInv
<1>1. /\ UNCHANGED <<quota, route, main, res, settled, abort, results, asked>>
      /\ pc[w] = "take" /\ ~Holds(w)
  BY DEF Take, OpFrame, Holds
<1>2. Counted'
  BY <1>0, <1>1 DEF Counted, Settled, Finished, Threshold, Short
<1>3. CASE /\ abort \/ next > N
           /\ pc' = [pc EXCEPT ![w] = "done"] /\ task' = task /\ next' = next
  <2>1. \A v \in Worker : pc'[v] = IF v = w THEN "done" ELSE pc[v]
    BY <1>0, <1>3 DEF OpTypeOK
  <2>2. \A v \in Worker : Holds(v)' <=> Holds(v)
    BY <1>1, <2>1 DEF Holds
  <2>3. OpTypeOK'
    BY <1>0, <1>1, <1>3 DEF OpTypeOK
  <2>4. Own' /\ Covered'
    BY <1>0, <1>1, <1>3, <2>2 DEF Own, Covered
  <2>5. AskedOnce' /\ Patient' /\ Ends'
    BY <1>0, <1>1, <1>3, <2>1 DEF AskedOnce, Patient, Ends
  <2> QED
    BY <1>2, <2>3, <2>4, <2>5 DEF OpInv
<1>4. CASE /\ ~(next > N)
           /\ pc' = [pc EXCEPT ![w] = "ask"] /\ task' = [task EXCEPT ![w] = next]
           /\ next' = next + 1
  <2>1. /\ \A v \in Worker : pc'[v] = IF v = w THEN "ask" ELSE pc[v]
        /\ \A v \in Worker : task'[v] = IF v = w THEN next ELSE task[v]
    BY <1>0, <1>4 DEF OpTypeOK
  <2>2. next \in Nat /\ N \in Nat /\ next \in Pick /\ next' \in 1..N + 1
    BY <1>0, <1>4, OpAssumption DEF OpTypeOK, Pick
  <2>3. asked[next] = 0 /\ results[next] = "none"
    BY <1>0, <2>2 DEF AskedOnce
  <2>4. \A v \in Worker : Holds(v)' <=> Holds(v) \/ v = w
    BY <2>1 DEF Holds
  <2>5. \A v \in Worker : Holds(v) =>
          v # w /\ task'[v] = task[v] /\ task[v] \in Pick /\ task[v] < next
    BY <1>0, <1>1, <2>1 DEF Own
  <2>6. \A i \in Pick : i \in Nat
    BY DEF Pick
  <2>7. OpTypeOK'
    BY <1>0, <1>1, <1>4, <2>2 DEF OpTypeOK
  <2>8. Own'
    <3> SUFFICES ASSUME NEW v \in Worker, Holds(v) \/ v = w
                 PROVE  /\ task'[v] \in Pick /\ task'[v] < next + 1
                        /\ results[task'[v]] = "none"
                        /\ \A u \in Worker :
                             (Holds(u) \/ u = w) /\ task'[u] = task'[v] => u = v
      BY <1>1, <1>4, <2>4 DEF Own
    <3>1. CASE v = w
      <4>1. task'[v] = next
        BY <2>1, <3>1
      <4>2. \A u \in Worker : Holds(u) => task'[u] # next
        BY <2>2, <2>5, <2>6
      <4> QED
        BY <2>2, <2>3, <3>1, <4>1, <4>2
    <3>2. CASE Holds(v)
      <4>1. task'[v] = task[v] /\ task[v] \in Pick /\ task[v] < next
        BY <2>5, <3>2
      <4>2. results[task[v]] = "none"
        BY <1>0, <3>2 DEF Own
      <4>3. \A u \in Worker : Holds(u) /\ task'[u] = task'[v] => u = v
        BY <1>0, <2>5, <3>2 DEF Own
      <4>4. task'[w] # task'[v]
        BY <2>1, <2>2, <2>6, <4>1
      <4>5. task'[v] < next + 1
        <5>1. next \in Nat /\ task[v] \in Nat /\ task'[v] = task[v] /\ task[v] < next
          BY <2>2, <2>6, <4>1
        <5> QED
          BY <5>1
      <4> QED
        BY <4>1, <4>2, <4>3, <4>4, <4>5
    <3> QED
      BY <3>1, <3>2
  <2>9. AskedOnce'
    <3>1. ASSUME NEW v \in Worker
          PROVE  /\ pc'[v] \in {"ask", "spawn"} => asked[task'[v]] = 0
                 /\ pc'[v] \in {"cli", "api", "late"} => asked[task'[v]] = 1
                 /\ pc'[v] = "settle" =>
                      res[v] # "none" /\ (asked[task'[v]] = 1 \/ res[v] = "aborted")
      BY <1>0, <2>1, <2>3 DEF AskedOnce
    <3>2. \A i \in Pick : i >= next + 1 => i >= next
      BY <2>2, <2>6
    <3>3. \A i \in Pick : i >= next' => asked[i] = 0 /\ results[i] = "none"
      BY <1>0, <1>4, <3>2 DEF AskedOnce
    <3>4. \A i \in Pick : results[i] \notin {"none", "aborted"} => asked[i] = 1
      BY <1>0 DEF AskedOnce
    <3> QED
      BY <1>1, <3>1, <3>3, <3>4 DEF AskedOnce
  <2>10. Covered'
    <3> SUFFICES ASSUME NEW i \in Pick, i < next + 1, results[i] = "none"
                 PROVE  \E v \in Worker : (Holds(v) \/ v = w) /\ task'[v] = i
      BY <1>1, <1>4, <2>4 DEF Covered
    <3>1. CASE i = next
      BY <2>1, <3>1
    <3>2. CASE i # next
      <4>1. i < next
        BY <2>2, <2>6, <3>2
      <4>2. PICK v \in Worker : Holds(v) /\ task[v] = i
        BY <1>0, <4>1 DEF Covered
      <4> QED
        BY <2>5, <4>2
    <3> QED
      BY <3>1, <3>2
  <2>11. Patient' /\ Ends'
    <3>1. \A v \in Worker : pc'[v] \in {"settle", "done"} => pc[v] = pc'[v]
      BY <2>1
    <3>2. \A v \in Worker : pc'[v] = "done" => abort
      BY <1>0, <1>4, <3>1 DEF Ends
    <3>3. Patient'
      BY <1>0, <1>1, <3>1 DEF Patient
    <3> QED
      BY <1>1, <3>2, <3>3 DEF Ends
  <2> QED
    BY <1>2, <2>7, <2>8, <2>9, <2>10, <2>11 DEF OpInv
<1> QED
  BY <1>3, <1>4 DEF Take

\* A result is stored in the one slot that waits for it.
LEMMA SettleStep ==
  ASSUME OpInv, NEW w \in Worker, Settle(w)
  PROVE  OpInv'
<1> DEFINE k == task[w]
           r == res[w]
<1>0. OpTypeOK /\ Own /\ AskedOnce /\ Covered /\ Patient /\ Ends /\ Counted
  BY DEF OpInv
<1>1. /\ UNCHANGED <<quota, route, main, next, asked>>
      /\ pc[w] = "settle" /\ Holds(w)
      /\ results' = [results EXCEPT ![k] = r]
      /\ settled' = settled + 1
      /\ abort' = (abort \/ settled + 1 >= Threshold)
      /\ pc' = [pc EXCEPT ![w] = "take"]
      /\ task' = [task EXCEPT ![w] = 0]
      /\ res' = [res EXCEPT ![w] = "none"]
  BY DEF Settle, OpFrame, Holds
<1>2. /\ \A v \in Worker : pc'[v] = IF v = w THEN "take" ELSE pc[v]
      /\ \A v \in Worker : task'[v] = IF v = w THEN 0 ELSE task[v]
      /\ \A v \in Worker : res'[v] = IF v = w THEN "none" ELSE res[v]
  BY <1>0, <1>1 DEF OpTypeOK
<1>3. /\ k \in Pick /\ k < next /\ results[k] = "none"
      /\ \A v \in Worker : Holds(v) /\ task[v] = k => v = w
  BY <1>0, <1>1 DEF Own
<1>4. r \in Slot /\ r # "none" /\ (asked[k] = 1 \/ r = "aborted") /\ (r = "aborted" => abort)
  BY <1>0, <1>1 DEF OpTypeOK, AskedOnce, Patient
<1> HIDE DEF k, r
<1>5. \A i \in Pick : results'[i] = IF i = k THEN r ELSE results[i]
  BY <1>0, <1>1 DEF OpTypeOK
<1>6. \A v \in Worker : Holds(v)' <=> Holds(v) /\ v # w
  BY <1>2 DEF Holds
<1>7. OpTypeOK'
  <2>1. results' \in [Pick -> Slot]
    BY <1>0, <1>1, <1>4 DEF OpTypeOK
  <2>2. abort' \in BOOLEAN
    BY <1>0, <1>1 DEF OpTypeOK
  <2> QED
    BY <1>0, <1>1, <2>1, <2>2 DEF OpTypeOK, Slot
<1>8. Own'
  <2> SUFFICES ASSUME NEW v \in Worker, Holds(v), v # w
               PROVE  /\ task[v] \in Pick /\ task[v] < next
                      /\ results'[task[v]] = "none"
                      /\ \A u \in Worker : Holds(u) /\ u # w /\ task[u] = task[v] => u = v
    BY <1>1, <1>2, <1>6 DEF Own
  <2>1. /\ task[v] \in Pick /\ task[v] < next /\ results[task[v]] = "none"
        /\ \A u \in Worker : Holds(u) /\ task[u] = task[v] => u = v
    BY <1>0 DEF Own
  <2>2. task[v] # k
    BY <1>3
  <2> QED
    BY <1>5, <2>1, <2>2
<1>9. AskedOnce'
  <2>1. ASSUME NEW v \in Worker
        PROVE  /\ pc'[v] \in {"ask", "spawn"} => asked[task'[v]] = 0
               /\ pc'[v] \in {"cli", "api", "late"} => asked[task'[v]] = 1
               /\ pc'[v] = "settle" =>
                    res'[v] # "none" /\ (asked[task'[v]] = 1 \/ res'[v] = "aborted")
    BY <1>0, <1>2 DEF AskedOnce
  <2>2. \A i \in Pick : results'[i] \notin {"none", "aborted"} => asked[i] = 1
    BY <1>0, <1>4, <1>5 DEF AskedOnce
  <2>3. ASSUME NEW i \in Pick, i >= next PROVE asked[i] = 0 /\ results'[i] = "none"
    <3>1. i # k
      BY <1>0, <1>3, <2>3 DEF OpTypeOK, Pick
    <3> QED
      BY <1>0, <1>5, <2>3, <3>1 DEF AskedOnce
  <2> QED
    BY <1>1, <2>1, <2>2, <2>3 DEF AskedOnce
<1>10. Covered'
  <2> SUFFICES ASSUME NEW i \in Pick, i < next, results'[i] = "none"
               PROVE  \E v \in Worker : Holds(v) /\ v # w /\ task'[v] = i
    BY <1>1, <1>6 DEF Covered
  <2>1. i # k /\ results[i] = "none"
    BY <1>4, <1>5
  <2>2. PICK v \in Worker : Holds(v) /\ task[v] = i
    BY <1>0, <2>1 DEF Covered
  <2>3. v # w
    BY <2>1, <2>2 DEF k
  <2> QED
    BY <1>2, <2>2, <2>3
<1>11. Patient'
  <2> SUFFICES ASSUME ~abort' PROVE Patient'
    BY DEF Patient
  <2>1. ~abort
    BY <1>1
  <2>2. \A i \in Pick : results'[i] # "aborted"
    BY <1>0, <1>4, <1>5, <2>1 DEF Patient
  <2>3. \A v \in Worker : pc'[v] = "settle" => res'[v] # "aborted"
    BY <1>0, <1>2, <2>1 DEF Patient
  <2> QED
    BY <2>2, <2>3 DEF Patient
<1>12. Ends'
  <2> SUFFICES ASSUME NEW v \in Worker, pc'[v] = "done", ~(next > N) PROVE abort'
    BY <1>1 DEF Ends
  <2>1. pc[v] = "done"
    BY <1>2
  <2>2. abort
    BY <1>0, <2>1 DEF Ends
  <2> QED
    BY <1>1, <2>2
<1>13. Counted'
  <2>1. Settled' = Settled \cup {k} /\ k \notin Settled
    BY <1>3, <1>4, <1>5 DEF Settled
  <2>2. /\ IsFiniteSet(Settled) /\ Cardinality(Settled) \in Nat
        /\ IsFiniteSet(Finished) /\ Cardinality(Finished) \in Nat
        /\ IsFiniteSet(Finished') /\ Cardinality(Finished') \in Nat
    BY PickFinite DEF Settled, Finished
  <2>3. Cardinality(Settled') = settled + 1
    BY <1>0, <2>1, <2>2, FS_AddElement DEF Counted
  <2>4. Threshold' = Threshold /\ Threshold \in Nat
    BY <1>0, <1>1, OpAssumption DEF OpTypeOK, Threshold, Short
  <2>5. CASE abort
    <3>1. Finished \subseteq Finished'
      BY <1>3, <1>5 DEF Finished
    <3>2. Cardinality(Finished) <= Cardinality(Finished')
      BY <2>2, <3>1, FS_Subset
    <3>3. Cardinality(Finished') >= Threshold'
      BY <1>0, <2>2, <2>4, <2>5, <3>2 DEF Counted
    <3> QED
      BY <1>1, <2>3, <3>3 DEF Counted
  <2>6. CASE ~abort
    <3>1. Finished' = Settled'
      BY <1>0, <1>4, <1>5, <2>6 DEF Finished, Settled, Patient
    <3>2. abort' => settled + 1 >= Threshold'
      BY <1>1, <2>4, <2>6
    <3>3. abort' => Cardinality(Finished') >= Threshold'
      BY <2>3, <3>1, <3>2
    <3> QED
      BY <1>1, <2>3, <3>3 DEF Counted
  <2> QED
    BY <2>5, <2>6
<1> QED
  BY <1>7, <1>8, <1>9, <1>10, <1>11, <1>12, <1>13 DEF OpInv

\* What only the main thread does.
LEMMA MainStep ==
  ASSUME OpInv, UNCHANGED <<quota, route, pc, task, res, next, settled, abort, results, asked>>,
         main' \in {"budget", "join", "receipt", "write", "returned"}
  PROVE  OpInv'
<1>1. /\ quota' = quota /\ route' = route /\ pc' = pc /\ task' = task /\ res' = res
      /\ next' = next /\ settled' = settled /\ abort' = abort /\ results' = results
      /\ asked' = asked
  OBVIOUS
<1>2. OpTypeOK'
  BY <1>1 DEF OpInv, OpTypeOK
<1>3. Own' /\ AskedOnce' /\ Covered' /\ Patient' /\ Ends'
  BY <1>1 DEF OpInv, Own, AskedOnce, Covered, Patient, Ends, Holds
<1>4. Counted'
  BY <1>1 DEF OpInv, Counted, Settled, Finished, Threshold, Short
<1> QED
  BY <1>2, <1>3, <1>4 DEF OpInv

\* Every step of a run keeps its invariant, as do those of other writers.
LEMMA OpInductive == OpInv /\ [Next]_vars => OpInv'
<1> SUFFICES ASSUME OpInv, [Next]_vars PROVE OpInv'
  OBVIOUS
<1>0. main \in {"budget", "join", "receipt", "write", "returned"}
  BY DEF OpInv, OpTypeOK
<1>1. CASE CheckBudget \/ Join \/ Receipt \/ Prune
  <2>1. UNCHANGED <<quota, route, pc, task, res, next, settled, abort, results, asked>>
    BY <1>1 DEF CheckBudget, Join, Receipt, Prune
  <2>2. main' \in {"budget", "join", "receipt", "write", "returned"}
    BY <1>1 DEF CheckBudget, Join, Receipt, Prune
  <2> QED
    BY <2>1, <2>2, MainStep
<1>2. ASSUME NEW w \in Worker, Work(w) PROVE OpInv'
  BY <1>2, TakeStep, MoveStep, SettleStep DEF Work
<1>3. CASE UNCHANGED ovars
  BY <1>0, <1>3, MainStep DEF ovars
<1> QED
  BY <1>1, <1>2, <1>3 DEF Next, Run, vars

\* Once every worker is done, nobody was left out without reason.
LEMMA Justified == OpInv => AbortJustified
<1> SUFFICES ASSUME OpInv PROVE AbortJustified
  OBVIOUS
<1>0. OpTypeOK /\ AskedOnce /\ Covered /\ Patient /\ Ends /\ Counted
  BY DEF OpInv
<1>1. ASSUME \A w \in Worker : pc[w] = "done"
      PROVE  \/ Cardinality(Finished) >= Threshold
             \/ \A i \in Pick : asked[i] = 1 /\ results[i] # "none"
  <2>1. CASE abort
    BY <1>0, <2>1 DEF Counted
  <2>2. CASE ~abort
    <3>1. PICK w \in Worker : TRUE
      BY OpAssumption, FS_EmptySet
    <3>2. next > N
      BY <1>0, <1>1, <2>2, <3>1 DEF Ends
    <3>3. \A i \in Pick : i < next
      BY <1>0, <3>2, OpAssumption DEF Pick, OpTypeOK
    <3>4. \A i \in Pick : results[i] # "none"
      BY <1>0, <1>1, <3>3 DEF Covered, Holds
    <3>5. \A i \in Pick : asked[i] = 1
      BY <1>0, <2>2, <3>4 DEF AskedOnce, Patient
    <3> QED
      BY <3>4, <3>5
  <2> QED
    BY <2>1, <2>2
<1> QED
  BY <1>0, <1>1 DEF AbortJustified, Counted, Settled, Finished

-----------------------------------------------------------------------------
(* The theorems *)

\* The invariant holds in every state of a run among other writers.
LEMMA LogAlways == Spec => []LogInv
<1>1. Init => LogInv
  BY LogInitial DEF Init
<1> QED
  BY <1>1, LogInductive, PTL DEF Spec

\* The invariant of a run holds in every state.
LEMMA OpAlways == Spec => []OpInv
  BY OpInitial, OpInductive, PTL DEF Spec

\* Types of a run and of the receipts.
THEOREM TypeCorrect == Spec => []TypeOK
<1>1. ASSUME LogInv, OpInv PROVE TypeOK
  <2>1. settled \in 0..N
    <3>1. settled = Cardinality(Settled)
      BY <1>1 DEF OpInv, Counted
    <3>2. Settled \in SUBSET Pick
      BY DEF Settled
    <3> QED
      BY <3>1, <3>2, PickFinite, OpAssumption
  <2> QED
    BY <1>1, <2>1 DEF LogInv, OpInv, OpTypeOK, TypeOK
<1> QED
  BY <1>1, LogAlways, OpAlways, PTL

\* The audit trail is in the order of the appends, whoever writes and dies when.
THEOREM Order == Spec => []InOrder
<1>1. LogInv => InOrder
  BY DEF LogInv
<1> QED
  BY <1>1, LogAlways, PTL

\* No recent receipt is missing while no call has cut into another's.
THEOREM Keeps == Spec => []RecentKept
<1>1. ASSUME LogInv PROVE RecentKept
  <2> SUFFICES ASSUME ~overlap, \A w \in Writer : at[w] # "write", NEW r \in Recent
               PROVE  \E i \in 1..Len(file) : file[i] = r
    BY DEF RecentKept
  <2> DEFINE i == r - appended + Len(file)
  <2>1. Latest(file, appended) /\ (Len(file) >= MAX_RECEIPTS \/ Len(file) >= appended - purged)
    BY <1>1 DEF LogInv, Whole
  <2>2. /\ Len(file) \in Nat /\ appended \in Nat /\ purged \in Nat
        /\ MAX_RECEIPTS \in Nat /\ r \in Int
        /\ purged + 1 <= r /\ r <= appended /\ r > appended - MAX_RECEIPTS
    BY <1>1, Numbers, ReceiptAssumption DEF LogInv, Recent
  <2>3. i \in 1..Len(file)
    BY <2>1, <2>2
  <2>4. file[i] = appended - Len(file) + i
    BY <2>1, <2>3 DEF Latest
  <2>5. file[i] = r
    BY <2>2, <2>4
  <2> QED
    BY <2>3, <2>5
<1> QED
  BY <1>1, LogAlways, PTL

\* A reviewer is counted once, and left out or cut short only when there were
\* enough results without it.
THEOREM Counts == Spec => []AbortJustified
  BY Justified, OpAlways, PTL
=============================================================================
