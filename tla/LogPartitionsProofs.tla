------------------------ MODULE LogPartitionsProofs ------------------------
(***************************************************************************)
(* The router leads to every log and counts the logs of every partition,   *)
(* and a search that nothing is popped or pruned under finds all of them,  *)
(* for any number of blocks, logs and partitions.                          *)
(***************************************************************************)
EXTENDS LogPartitions, TLAPS

\* The types the argument needs; the counts play no part in it.
Types ==
  /\ height \in -1 .. LastBn
  /\ nlogs \in [Bn -> Nat]
  /\ oldest \in Nat /\ latest \in -1 .. LastIndex
  /\ bnMin \in [Index -> Bn \cup {Nil}] /\ bnMax \in [Index -> Bn \cup {Nil}]
  /\ table \in [Bn -> Index \cup {Nil}]
  /\ pruning \in Int \cup {Nil} /\ dropping \in Index \cup {Nil}
  /\ lo \in Bn /\ hi \in Bn

\* The indexes: which partitions can be in use, being pruned or dropped.
Indexes ==
  /\ oldest <= latest + 1
  /\ ready => oldest <= latest
  /\ pruning # Nil => pruning <= latest
  /\ dropping # Nil => dropping < oldest
  /\ Partition \subseteq tables

\* The block ranges in the router.
Ranges ==
  /\ \A i \in Index : bnMin[i] = Nil <=> bnMax[i] = Nil
  /\ \A i \in Index : i > latest => bnMin[i] = Nil
  /\ \A i \in Index : HasRange(i) => bnMin[i] <= bnMax[i] /\ bnMax[i] <= height
  /\ \A i, j \in Index : i < j /\ HasRange(i) /\ HasRange(j) => bnMax[i] < bnMin[j]

\* The rows of the tables: those the router knows of are in range, and none is
\* missing from the first block of the router on.
Rows ==
  /\ \A b \in Bn : table[b] # Nil => table[b] <= latest
  /\ \A b \in Bn : table[b] \in Partition =>
       /\ nlogs[b] > 0
       /\ HasRange(table[b]) /\ bnMin[table[b]] <= b /\ b <= bnMax[table[b]]
  /\ \A b \in Bn : nlogs[b] > 0 => b <= height
  /\ \A b \in Bn, i \in Index : nlogs[b] > 0 /\ HasRange(i) /\ bnMin[i] <= b => table[b] \in Partition

\* What the reader knows while nothing is popped or pruned.
Reads ==
  /\ hi <= height
  /\ pc \in {"range", "search"} => res = {}
  /\ pc \in {"search", "query", "done"} => \A s \in Bn : IsStart(s) => ~(lo < s /\ s < hi)
  /\ pc = "query" => parts \subseteq Partition
  /\ pc \in {"query", "done"} => \A b \in res : b \in lo .. hi /\ table[b] \in Partition
  /\ pc = "query" => \A b \in lo .. hi : table[b] \in Partition => b \in res \/ table[b] \in parts
  /\ pc = "done" => \A b \in lo .. hi : table[b] \in Partition => b \in res

IInv ==
  /\ Types
  /\ Indexes
  /\ Ranges
  /\ Rows
  /\ calm /\ pc # "idle" => Reads
-----------------------------------------------------------------------------
\* What holds of any index or block number that a variable may have.
LEMMA Numbers ==
  ASSUME Types
  PROVE  /\ Bn \subseteq Nat /\ Index \subseteq Nat /\ Partition \subseteq Index
         /\ Nil \notin Bn /\ Nil \notin Index
         /\ \A i \in Index : (bnMin[i] # Nil => bnMin[i] \in Bn) /\ (bnMax[i] # Nil => bnMax[i] \in Bn)
         /\ \A b \in Bn : table[b] # Nil => table[b] \in Index
<1>1. Bn \subseteq Nat /\ Index \subseteq Nat /\ Partition \subseteq Index
  BY LogPartitionsAssumption DEF Types, Bn, Index, Partition
<1>2. Nil \notin Bn /\ Nil \notin Index
  BY LogPartitionsAssumption DEF Bn, Index
<1>. QED  BY <1>1, <1>2 DEF Types

\* The initial state.
LEMMA InitIInv == Init => IInv
<1>. SUFFICES ASSUME Init PROVE IInv
  OBVIOUS
<1>. USE LogPartitionsAssumption DEF Init
<1>1. 0 \in Bn /\ -1 \in -1 .. LastBn /\ -1 \in -1 .. LastIndex /\ 0 \in Nat
  BY DEF Bn
<1>2. Types
  BY <1>1, Zenon DEF Types
<1>3. Partition = {}
  BY DEF Partition
<1>4. Indexes
  <2>1. oldest <= latest + 1
    OBVIOUS
  <2>. QED  BY <1>3, <2>1, Zenon DEF Indexes
<1>5. \A i \in Index : ~HasRange(i)
  BY <1>3, Zenon DEF HasRange
<1>6. Ranges
  BY <1>5, Zenon DEF Ranges
<1>7. Rows
  BY <1>3, <1>5 DEF Rows
<1>. QED  BY <1>2, <1>4, <1>6, <1>7, Zenon DEF IInv

\* A step that leaves the router and the tables alone keeps what is known of
\* them.
LEMMA Frame ==
  ASSUME Ranges, Rows, UNCHANGED <<oldest, latest, bnMin, bnMax, height, nlogs, table>>
  PROVE  Ranges' /\ Rows' /\ Partition' = Partition /\ \A s \in Bn : IsStart(s)' <=> IsStart(s)
<1>1. Partition' = Partition
  BY Zenon DEF Partition
<1>2. \A i : HasRange(i)' <=> HasRange(i)
  BY <1>1, Zenon DEF HasRange
<1>3. Ranges'
  BY <1>2, Zenon DEF Ranges
<1>4. Rows'
  BY <1>1, <1>2, Zenon DEF Rows
<1>. QED  BY <1>1, <1>2, <1>3, <1>4, Zenon DEF IsStart

\* A step of the writer or the pruner that keeps the rows in the range of the
\* reader, and does not move the start of the router into it, is no business
\* of the reader.
LEMMA ReadsKept ==
  ASSUME Reads, pc' = pc, lo' = lo, hi' = hi, parts' = parts, res' = res,
         hi <= height', Partition \subseteq Partition',
         \A b \in lo .. hi : table'[b] \in Partition' \/ table[b] \in Partition => table'[b] = table[b] /\ table[b] \in Partition,
         \A s \in Bn : IsStart(s)' => IsStart(s) \/ ~(s < hi)
  PROVE  Reads'
<1>1. \A b \in lo .. hi : (table'[b] \in Partition' => table[b] \in Partition /\ table'[b] = table[b])
                       /\ (table[b] \in Partition => table'[b] \in Partition')
  BY Zenon
<1>2. (hi <= height)' /\ (pc \in {"range", "search"} => res = {})'
  BY Zenon DEF Reads
<1>3. (pc \in {"search", "query", "done"} => \A s \in Bn : IsStart(s) => ~(lo < s /\ s < hi))'
  BY Zenon DEF Reads
<1>4. (pc = "query" => parts \subseteq Partition)'
  BY Zenon DEF Reads
<1>5. (pc \in {"query", "done"} => \A b \in res : b \in lo .. hi /\ table[b] \in Partition)'
  BY <1>1, Zenon DEF Reads
<1>6. (pc = "query" => \A b \in lo .. hi : table[b] \in Partition => b \in res \/ table[b] \in parts)'
  BY <1>1, Zenon DEF Reads
<1>7. (pc = "done" => \A b \in lo .. hi : table[b] \in Partition => b \in res)'
  BY <1>1, Zenon DEF Reads
<1>. QED  BY <1>2, <1>3, <1>4, <1>5, <1>6, <1>7, Zenon DEF Reads

\* A new partition has neither a range nor rows.
LEMMA PrepareStep ==
  ASSUME IInv, preparePartition
  PROVE  IInv'
<1>. USE LogPartitionsAssumption
<1>1. Types /\ Indexes /\ Ranges /\ Rows
  BY Zenon DEF IInv
<1>2. /\ oldest' = oldest /\ bnMin' = bnMin /\ bnMax' = bnMax /\ height' = height /\ nlogs' = nlogs
      /\ table' = table /\ pruning' = pruning /\ dropping' = dropping /\ calm' = calm
      /\ pc' = pc /\ lo' = lo /\ hi' = hi /\ parts' = parts /\ res' = res
  BY Zenon DEF preparePartition, blocks, reader
<1>3. CASE latest' = latest /\ tables' = tables /\ oldest <= latest
  <2>1. Ranges' /\ Rows' /\ Partition' = Partition /\ \A s \in Bn : IsStart(s)' <=> IsStart(s)
    BY <1>1, <1>2, <1>3, Frame, Zenon
  <2>2. Types'
    BY <1>1, <1>2, <1>3, Zenon DEF Types
  <2>3. Indexes'
    BY <1>1, <1>2, <1>3, <2>1, Zenon DEF Indexes
  <2>4. (calm /\ pc # "idle" => Reads)'
    BY <1>2, <2>1, Zenon DEF IInv, Reads
  <2>. QED  BY <2>1, <2>2, <2>3, <2>4, Zenon DEF IInv
<1>4. CASE latest < LastIndex /\ latest' = latest + 1 /\ tables' = tables \cup {latest + 1}
  <2>1. Types'
    <3>1. latest' \in -1 .. LastIndex
      BY <1>1, <1>4 DEF Types
    <3>. QED  BY <1>1, <1>2, <3>1, Zenon DEF Types
  <2>2. Partition' = Partition \cup {latest + 1} /\ latest + 1 \in Index
    BY <1>1, <1>2, <1>4, SMTT(60) DEF Types, Indexes, Partition, Index
  <2>3. Indexes'
    <3>1. oldest' <= latest' + 1 /\ oldest' <= latest' /\ (pruning' # Nil => pruning' <= latest')
      BY <1>1, <1>2, <1>4, Numbers DEF Types, Indexes
    <3>. QED  BY <1>1, <1>2, <1>4, <2>2, <3>1, Zenon DEF Indexes
  <2>4. bnMin[latest + 1] = Nil
    <3>1. latest + 1 > latest
      BY <1>1 DEF Types
    <3>. QED  BY <1>1, <2>2, <3>1, Zenon DEF Ranges
  <2>5. \A i \in Index : HasRange(i)' <=> HasRange(i)
    BY <1>2, <2>2, <2>4, Zenon DEF HasRange
  <2>6. Ranges'
    <3>1. \A i \in Index : i > latest' => i > latest
      BY <1>1, <1>4, Numbers DEF Types
    <3>. QED  BY <1>1, <1>2, <2>5, <3>1, Zenon DEF Ranges
  <2>7. \A b \in Bn : table[b] \in Partition' <=> table[b] \in Partition
    <3>1. \A b \in Bn : table[b] # latest + 1
      <4>1. latest \in Int /\ Nil # latest + 1 /\ ~(latest + 1 <= latest)
        BY <1>1 DEF Types
      <4>. QED  BY <1>1, <4>1, Zenon DEF Rows
    <3>. QED  BY <2>2, <3>1, Zenon
  <2>8. Rows'
    <3>1. \A b \in Bn : table[b] # Nil => table[b] <= latest'
      BY <1>1, <1>4, Numbers DEF Rows, Types
    <3>2. \A b \in Bn : table[b] # Nil => HasRange(table[b])' <=> HasRange(table[b])
      BY <1>1, <1>2, <2>5, Numbers, Zenon
    <3>3. \A b \in Bn : table[b] \in Partition => table[b] # Nil
      BY <1>1, Numbers, Zenon
    <3>. QED  BY <1>1, <1>2, <2>5, <2>7, <3>1, <3>2, <3>3, Zenon DEF Rows
  <2>9. (calm /\ pc # "idle" => Reads)'
    <3>1. \A s \in Bn : IsStart(s)' => IsStart(s)
      <4>. SUFFICES ASSUME NEW s \in Bn, IsStart(s)' PROVE IsStart(s)
        OBVIOUS
      <4>1. PICK i \in Partition' : bnMin[i] = s /\ \A j \in Partition' : HasRange(j)' => s <= bnMin[j]
        BY <1>2, Zenon DEF IsStart
      <4>2. i \in Partition
        BY <1>1, <2>2, <2>4, <4>1, Numbers, Zenon
      <4>3. \A j \in Partition : HasRange(j) => s <= bnMin[j]
        BY <1>1, <2>2, <2>5, <4>1, Numbers, Zenon
      <4>. QED  BY <4>1, <4>2, <4>3, Zenon DEF IsStart
    <3>2. lo .. hi \subseteq Bn
      BY <1>1 DEF Types, Bn
    <3>. SUFFICES ASSUME calm, pc # "idle" PROVE Reads'
      BY <1>2, Zenon
    <3>3. Reads /\ hi <= height'
      BY <1>2, Zenon DEF IInv, Reads
    <3>4. \A b \in lo .. hi : table'[b] \in Partition' \/ table[b] \in Partition => table'[b] = table[b] /\ table[b] \in Partition
      BY <1>2, <2>7, <3>2, Zenon
    <3>5. Partition \subseteq Partition'
      BY <2>2, Zenon
    <3>. QED  BY <1>2, <3>1, <3>3, <3>4, <3>5, ReadsKept, Zenon
  <2>. QED  BY <2>1, <2>3, <2>6, <2>8, <2>9, Zenon DEF IInv
<1>. QED
  <2>1. \/ latest' = latest /\ tables' = tables /\ ~(latest < oldest)
        \/ latest < LastIndex /\ latest' = latest + 1 /\ tables' = tables \cup {latest + 1}
    BY Zenon DEF preparePartition
  <2>2. ~(latest < oldest) => oldest <= latest
    BY <1>1 DEF Types
  <2>. QED  BY <1>3, <1>4, <2>1, <2>2, Zenon

\* New rows are above all others, in the range by which the latest partition
\* grows, and beyond the range of a reader.
LEMMA AddStep ==
  ASSUME IInv, Add
  PROVE  IInv'
<1>. USE LogPartitionsAssumption
<1>1. Types /\ Indexes /\ Ranges /\ Rows /\ oldest <= latest
  BY Zenon DEF IInv, Indexes, Add
<1>2. /\ oldest' = oldest /\ latest' = latest /\ tables' = tables /\ ready' = FALSE /\ calm' = calm
      /\ pruning' = pruning /\ dropping' = dropping
      /\ pc' = pc /\ lo' = lo /\ hi' = hi /\ parts' = parts /\ res' = res
  BY Zenon DEF Add, pruner, reader
<1>3. PICK n \in 1 .. MaxBatch :
        /\ height + n <= LastBn
        /\ \E logs \in [height + 1 .. height + n -> 0 .. MaxLogs] :
             /\ nlogs' = [b \in Bn |-> IF b \in DOMAIN logs THEN logs[b] ELSE nlogs[b]]
             /\ table' = [b \in Bn |-> IF b \in DOMAIN logs /\ logs[b] > 0 THEN latest ELSE table[b]]
        /\ expandBnRange(height + 1, height + n)
        /\ height' = height + n
  BY Zenon DEF Add
<1>4. PICK logs \in [height + 1 .. height + n -> 0 .. MaxLogs] :
        /\ nlogs' = [b \in Bn |-> IF b \in DOMAIN logs THEN logs[b] ELSE nlogs[b]]
        /\ table' = [b \in Bn |-> IF b \in DOMAIN logs /\ logs[b] > 0 THEN latest ELSE table[b]]
  BY <1>3, Zenon
<1>5. /\ height \in Int /\ n \in Nat /\ n >= 1 /\ height + n \in Bn /\ height + 1 \in Bn /\ latest \in Index
      /\ height' = height + n /\ height + n \in -1 .. LastBn
  BY <1>1, <1>3, SMTT(60) DEF Types, Bn, Index
<1>6. /\ \A b \in Bn : b > height /\ b <= height + n <=> b \in DOMAIN logs
      /\ \A b \in DOMAIN logs : logs[b] \in Nat
  BY <1>5 DEF Bn
<1>7. /\ \A b \in Bn : b > height /\ b <= height + n => nlogs'[b] \in Nat /\ table'[b] = IF nlogs'[b] > 0 THEN latest ELSE table[b]
      /\ \A b \in Bn : ~(b > height /\ b <= height + n) => nlogs'[b] = nlogs[b] /\ table'[b] = table[b]
  BY <1>4, <1>6, Zenon
<1>8. /\ bnMin' = [bnMin EXCEPT ![latest] = IF bnMin[latest] = Nil THEN height + 1 ELSE bnMin[latest]]
      /\ bnMax' = [bnMax EXCEPT ![latest] = height + n]
  BY <1>3, Zenon DEF expandBnRange
<1>9. Partition' = Partition /\ latest \in Partition
  <2>1. latest \in oldest .. latest
    BY <1>1, <1>5 DEF Types, Index
  <2>. QED  BY <1>2, <2>1, Zenon DEF Partition
<1>10. Types'
  <2>1. nlogs' \in [Bn -> Nat]
    <3>1. \A b \in Bn : (IF b \in DOMAIN logs THEN logs[b] ELSE nlogs[b]) \in Nat
      BY <1>1, <1>6, Zenon DEF Types
    <3>. QED  BY <1>4, <3>1, Zenon
  <2>2. table' \in [Bn -> Index \cup {Nil}]
    BY <1>1, <1>4, <1>5, Zenon DEF Types
  <2>3. bnMin' \in [Index -> Bn \cup {Nil}] /\ bnMax' \in [Index -> Bn \cup {Nil}]
    BY <1>1, <1>5, <1>8, Zenon DEF Types
  <2>. QED  BY <1>1, <1>2, <1>5, <2>1, <2>2, <2>3, Zenon DEF Types
<1>11. Indexes'
  BY <1>1, <1>2, <1>9, Zenon DEF Indexes
<1>12. /\ \A i \in Index : i # latest => bnMin'[i] = bnMin[i] /\ bnMax'[i] = bnMax[i] /\ (HasRange(i)' <=> HasRange(i))
       /\ bnMax'[latest] = height + n /\ bnMin'[latest] = IF bnMin[latest] = Nil THEN height + 1 ELSE bnMin[latest]
  BY <1>1, <1>5, <1>8, <1>9, Zenon DEF Types, HasRange
<1>13. HasRange(latest)' /\ bnMin'[latest] \in Bn /\ bnMax'[latest] # Nil
  BY <1>1, <1>2, <1>5, <1>9, <1>12, Numbers, ZenonT(60) DEF HasRange
<1>14. HasRange(latest) => bnMin[latest] <= bnMax[latest] /\ bnMax[latest] <= height /\ bnMin[latest] \in Nat /\ bnMax[latest] \in Nat
  BY <1>1, <1>5, Numbers, Zenon DEF Ranges, HasRange
<1>15. bnMin[latest] # Nil => HasRange(latest)
  BY <1>9, Zenon DEF HasRange
<1>16. Ranges'
  <2>1. \A i \in Index : i > latest => i # latest
    BY <1>1, Numbers DEF Types
  <2>2. (\A i \in Index : bnMin[i] = Nil <=> bnMax[i] = Nil)'
    BY <1>1, <1>12, <1>13, Numbers, Zenon DEF Ranges
  <2>3. (\A i \in Index : i > latest => bnMin[i] = Nil)'
    BY <1>1, <1>2, <1>12, <2>1, Zenon DEF Ranges
  <2>4. ASSUME NEW i \in Index, HasRange(i)'
        PROVE  bnMin'[i] <= bnMax'[i] /\ bnMax'[i] <= height'
    <3>1. CASE i = latest
      BY <1>5, <1>12, <1>14, <1>15, <3>1
    <3>2. CASE i # latest
      <4>1. HasRange(i) /\ bnMin[i] <= bnMax[i] /\ bnMax[i] <= height /\ bnMax[i] \in Nat
        BY <1>1, <1>12, <2>4, <3>2, Numbers, Zenon DEF Ranges, HasRange
      <4>2. bnMax[i] <= height'
        BY <1>5, <4>1, SMTT(60)
      <4>. QED  BY <1>12, <3>2, <4>1, <4>2, Zenon
    <3>. QED  BY <3>1, <3>2
  <2>5. ASSUME NEW i \in Index, NEW j \in Index, i < j, HasRange(i)', HasRange(j)'
        PROVE  bnMax'[i] < bnMin'[j]
    <3>1. i # latest /\ bnMax'[i] = bnMax[i] /\ HasRange(i)
      <4>1. j <= latest
        BY <1>2, <2>5 DEF HasRange, Partition
      <4>2. i # latest
        BY <1>1, <2>5, <4>1, Numbers, SMTT(60) DEF Types
      <4>. QED  BY <1>12, <2>5, <4>2, Zenon
    <3>2. CASE j # latest
      BY <1>1, <1>12, <2>5, <3>1, <3>2, Zenon DEF Ranges
    <3>3. CASE j = latest /\ HasRange(latest)
      BY <1>1, <1>12, <2>5, <3>1, <3>3, Zenon DEF Ranges, HasRange
    <3>4. CASE j = latest /\ ~HasRange(latest)
      <4>1. bnMin'[j] = height + 1
        BY <1>9, <1>12, <3>4, Zenon DEF HasRange
      <4>2. bnMax[i] <= height /\ bnMax[i] \in Nat
        BY <1>1, <3>1, Numbers, Zenon DEF Ranges, HasRange
      <4>. QED  BY <1>5, <3>1, <4>1, <4>2, SMTT(60)
    <3>. QED  BY <3>2, <3>3, <3>4
  <2>. QED  BY <2>2, <2>3, <2>4, <2>5, Zenon DEF Ranges
<1>17. Rows'
  <2>1. \A b \in Bn : table'[b] # Nil => table'[b] <= latest'
    <3>1. latest <= latest
      BY <1>1 DEF Types
    <3>. QED  BY <1>1, <1>2, <1>7, <3>1, Zenon DEF Rows
  <2>2. \A b \in Bn : nlogs'[b] > 0 => b <= height'
    BY <1>1, <1>5, <1>7, Numbers, SMTT(60) DEF Rows
  <2>3. ASSUME NEW b \in Bn, table'[b] \in Partition'
        PROVE  /\ nlogs'[b] > 0
               /\ HasRange(table[b])' /\ bnMin'[table'[b]] <= b /\ b <= bnMax'[table'[b]]
    <3>1. CASE table[b] \in Partition
      <4>1. /\ nlogs[b] > 0 /\ b <= height
            /\ HasRange(table[b]) /\ bnMin[table[b]] <= b /\ b <= bnMax[table[b]] /\ table[b] \in Index
        BY <1>1, <3>1, Numbers, Zenon DEF Rows
      <4>2. table'[b] = table[b] /\ nlogs'[b] = nlogs[b]
        <5>1. ~(b > height)
          BY <1>5, <4>1, Numbers, <1>1
        <5>. QED  BY <1>7, <5>1, Zenon
      <4>3. CASE table[b] # latest
        BY <1>9, <1>12, <4>1, <4>2, <4>3, Zenon DEF HasRange
      <4>4. CASE table[b] = latest
        <5>1. bnMin'[latest] = bnMin[latest]
          BY <1>12, <4>1, <4>4, Zenon DEF HasRange
        <5>2. b <= height + n
          BY <1>1, <1>5, <4>1, Numbers
        <5>. QED  BY <1>9, <1>12, <1>13, <4>1, <4>2, <4>4, <5>1, <5>2, Zenon DEF HasRange
      <4>. QED  BY <4>3, <4>4
    <3>2. CASE table[b] \notin Partition
      <4>1. b > height /\ b <= height + n /\ nlogs'[b] > 0 /\ table'[b] = latest
        BY <1>7, <1>9, <2>3, <3>2, Zenon
      <4>2. bnMin'[latest] <= b
        BY <1>1, <1>5, <1>12, <1>14, <1>15, <4>1, Numbers, SMTT(60)
      <4>3. bnMin'[table'[b]] <= b /\ b <= bnMax'[table'[b]]
        BY <1>12, <4>1, <4>2, Zenon
      <4>4. HasRange(table[b])'
        <5>1. bnMin'[table'[b]] = bnMin'[latest] /\ bnMin'[latest] # Nil
          BY <1>2, <1>13, <4>1, Zenon DEF HasRange
        <5>. QED  BY <2>3, <5>1, Zenon DEF HasRange
      <4>. QED  BY <4>1, <4>3, <4>4, Zenon
    <3>. QED  BY <3>1, <3>2
  <2>4. ASSUME NEW b \in Bn, NEW i \in Index, nlogs'[b] > 0, HasRange(i)', bnMin'[i] <= b
        PROVE  table'[b] \in Partition'
    <3>1. CASE b > height /\ b <= height + n
      BY <1>7, <1>9, <2>4, <3>1, Zenon
    <3>2. CASE ~(b > height /\ b <= height + n)
      <4>1. nlogs[b] > 0 /\ table'[b] = table[b] /\ b <= height
        BY <1>1, <1>7, <2>4, <3>2, Zenon DEF Rows
      <4>2. HasRange(i) /\ bnMin[i] <= b
        <5>1. CASE i # latest
          BY <1>12, <2>4, <5>1, Zenon
        <5>2. CASE i = latest
          <6>1. bnMin[latest] # Nil
            BY <1>1, <1>5, <1>12, <2>4, <4>1, <5>2, Numbers, SMTT(60)
          <6>. QED  BY <1>12, <1>15, <2>4, <5>2, <6>1, Zenon
        <5>. QED  BY <5>1, <5>2
      <4>. QED  BY <1>1, <1>9, <4>1, <4>2, Zenon DEF Rows
    <3>. QED  BY <3>1, <3>2
  <2>. QED  BY <2>1, <2>2, <2>3, <2>4, Zenon DEF Rows
<1>18. (calm /\ pc # "idle" => Reads)'
  <2>. SUFFICES ASSUME calm, pc # "idle" PROVE Reads'
    BY <1>2, Zenon
  <2>1. Reads /\ hi <= height
    BY Zenon DEF IInv, Reads
  <2>2. hi <= height' /\ lo .. hi \subseteq Bn /\ \A b \in lo .. hi : ~(b > height)
    BY <1>1, <1>5, <2>1, SMTT(60) DEF Types, Bn
  <2>3. \A b \in lo .. hi : table'[b] \in Partition' \/ table[b] \in Partition => table'[b] = table[b] /\ table[b] \in Partition
    BY <1>7, <1>9, <2>2, Zenon
  <2>4. ASSUME NEW s \in Bn, IsStart(s)', s < hi PROVE IsStart(s)
    <3>1. PICK i \in Partition : bnMin'[i] = s /\ \A j \in Partition : HasRange(j)' => s <= bnMin'[j]
      BY <1>9, <2>4, Zenon DEF IsStart
    <3>2. bnMin[i] = s
      <4>1. CASE i # latest
        BY <1>1, <1>12, <3>1, <4>1, Numbers, Zenon
      <4>2. CASE i = latest
        <5>1. s # height + 1
          BY <1>1, <1>5, <2>1, <2>4 DEF Types, Bn
        <5>. QED  BY <1>12, <3>1, <4>2, <5>1, Zenon
      <4>. QED  BY <4>1, <4>2
    <3>3. ASSUME NEW j \in Partition, HasRange(j) PROVE s <= bnMin[j]
      <4>1. CASE j # latest
        BY <1>1, <1>12, <3>1, <3>3, <4>1, Numbers, Zenon
      <4>2. CASE j = latest
        BY <1>9, <1>12, <1>13, <3>1, <3>3, <4>2, Zenon DEF HasRange
      <4>. QED  BY <4>1, <4>2
    <3>. QED  BY <3>2, <3>3, Zenon DEF IsStart
  <2>. QED  BY <1>2, <1>9, <2>1, <2>2, <2>3, <2>4, ReadsKept, Zenon
<1>. QED  BY <1>10, <1>11, <1>16, <1>17, <1>18, Zenon DEF IInv

\* Popn shrinks every partition whose range reaches the popped blocks.
LEMMA ShrunkAll ==
  ASSUME Types, Ranges, NEW b \in Nat
  PROVE  \A i \in Index : i \in Shrunk(b) <=> HasRange(i) /\ bnMax[i] >= b
<1>. SUFFICES ASSUME NEW i \in Index PROVE i \in Shrunk(b) <=> HasRange(i) /\ bnMax[i] >= b
  OBVIOUS
<1>1. i \in Shrunk(b) => HasRange(i) /\ bnMax[i] >= b
  BY Zenon DEF Shrunk, HasRange, Ranges
<1>2. ASSUME HasRange(i), bnMax[i] >= b PROVE i \in Shrunk(b)
  <2>1. ASSUME NEW j \in i .. latest, bnMax[j] # Nil PROVE bnMax[j] >= b
    <3>1. j \in Partition /\ j \in Index /\ i \in Nat /\ j \in Nat /\ i <= j
      BY <1>2, <2>1, Numbers, SMTT(60) DEF Types, HasRange, Partition, Index
    <3>2. HasRange(j) /\ bnMax[i] \in Nat /\ bnMin[j] \in Nat /\ bnMax[j] \in Nat
      BY <1>2, <2>1, <3>1, Numbers, Zenon DEF HasRange, Ranges
    <3>3. CASE i < j
      <4>1. bnMax[i] < bnMin[j] /\ bnMin[j] <= bnMax[j]
        BY <1>2, <3>1, <3>2, <3>3, Zenon DEF Ranges
      <4>. QED  BY <1>2, <3>2, <4>1
    <3>4. CASE i = j
      BY <1>2, <3>4, Zenon
    <3>. QED  BY <3>1, <3>3, <3>4
  <2>. QED  BY <1>2, <2>1, Zenon DEF Shrunk, HasRange, Ranges
<1>. QED  BY <1>1, <1>2, Zenon

\* A pop cuts ranges and rows at the same block.
LEMMA PopStep ==
  ASSUME IInv, Popn
  PROVE  IInv'
<1>. USE LogPartitionsAssumption
<1>1. Types /\ Indexes /\ Ranges /\ Rows
  BY Zenon DEF IInv
<1>2. /\ oldest' = oldest /\ latest' = latest /\ tables' = tables /\ ready' = ready /\ calm' = FALSE
      /\ pruning' = pruning /\ dropping' = dropping /\ lo' = lo /\ hi' = hi
  BY Zenon DEF Popn, pruner, reader
<1>3. PICK b \in 1 .. height :
        /\ shrinkBnRange(b)
        /\ table' = [c \in Bn |-> IF c >= b /\ table[c] \in Shrunk(b) THEN Nil ELSE table[c]]
        /\ nlogs' = [c \in Bn |-> IF c >= b THEN 0 ELSE nlogs[c]]
        /\ height' = b - 1
  BY Zenon DEF Popn
<1>4. b \in Nat /\ b >= 1 /\ b - 1 \in Bn /\ b - 1 \in Nat /\ b - 1 <= height /\ height' \in -1 .. LastBn /\ height \in Int
  BY <1>1, <1>3 DEF Types, Bn
<1>5. Partition' = Partition
  BY <1>2, Zenon DEF Partition
<1>6. /\ \A i \in Index : bnMin'[i] = IF HasRange(i) /\ bnMax[i] >= b /\ bnMin[i] >= b THEN Nil ELSE bnMin[i]
      /\ \A i \in Index : bnMax'[i] = IF ~(HasRange(i) /\ bnMax[i] >= b) THEN bnMax[i]
                                      ELSE IF bnMin[i] >= b THEN Nil ELSE b - 1
  BY <1>1, <1>3, <1>4, ShrunkAll, Zenon DEF shrinkBnRange
<1>7. Types'
  <2>1. bnMin' \in [Index -> Bn \cup {Nil}] /\ bnMax' \in [Index -> Bn \cup {Nil}]
    BY <1>1, <1>3, <1>4, Zenon DEF Types, shrinkBnRange
  <2>2. table' \in [Bn -> Index \cup {Nil}]
    BY <1>1, <1>3, Zenon DEF Types
  <2>3. nlogs' \in [Bn -> Nat]
    BY <1>1, <1>3 DEF Types
  <2>. QED  BY <1>1, <1>2, <1>4, <2>1, <2>2, <2>3, Zenon DEF Types
<1>8. Indexes'
  BY <1>1, <1>2, <1>5, Zenon DEF Indexes
\* What is left of a range.
<1>9. ASSUME NEW i \in Index, HasRange(i)'
      PROVE  /\ HasRange(i) /\ bnMin'[i] = bnMin[i] /\ bnMin[i] \in Nat /\ bnMax[i] \in Nat
             /\ bnMin[i] < b /\ bnMax'[i] = IF bnMax[i] >= b THEN b - 1 ELSE bnMax[i]
  <2>1. i \in Partition /\ bnMin'[i] # Nil
    BY <1>5, <1>9, Zenon DEF HasRange
  <2>2. bnMin'[i] = bnMin[i] /\ bnMin[i] # Nil /\ ~(HasRange(i) /\ bnMax[i] >= b /\ bnMin[i] >= b)
    BY <1>6, <2>1, Zenon
  <2>3. HasRange(i)
    BY <2>1, <2>2, Zenon DEF HasRange
  <2>4. bnMin[i] \in Nat /\ bnMax[i] \in Nat /\ bnMin[i] <= bnMax[i]
    BY <1>1, <2>3, Numbers, Zenon DEF Ranges, HasRange
  <2>5. bnMin[i] < b
    BY <1>4, <2>2, <2>3, <2>4
  <2>6. bnMax'[i] = IF bnMax[i] >= b THEN b - 1 ELSE bnMax[i]
    BY <1>6, <2>2, <2>3, Zenon
  <2>. QED  BY <2>2, <2>3, <2>4, <2>5, <2>6, Zenon
<1>10. Ranges'
  <2>1. (\A i \in Index : bnMin[i] = Nil <=> bnMax[i] = Nil)'
    <3>. SUFFICES ASSUME NEW i \in Index PROVE bnMin'[i] = Nil <=> bnMax'[i] = Nil
      OBVIOUS
    <3>1. b - 1 # Nil /\ (bnMin[i] = Nil <=> bnMax[i] = Nil)
      BY <1>1, <1>4, Numbers, Zenon DEF Ranges
    <3>2. CASE HasRange(i) /\ bnMax[i] >= b /\ bnMin[i] >= b
      BY <1>6, <3>2, Zenon
    <3>3. CASE HasRange(i) /\ bnMax[i] >= b /\ ~(bnMin[i] >= b)
      <4>1. bnMin'[i] = bnMin[i] /\ bnMax'[i] = b - 1
        BY <1>6, <3>3, Zenon
      <4>. QED  BY <3>1, <3>3, <4>1, Zenon DEF HasRange
    <3>4. CASE ~(HasRange(i) /\ bnMax[i] >= b)
      <4>1. bnMin'[i] = bnMin[i] /\ bnMax'[i] = bnMax[i]
        BY <1>6, <3>4, Zenon
      <4>. QED  BY <3>1, <4>1, Zenon
    <3>. QED  BY <3>2, <3>3, <3>4, Zenon
  <2>2. (\A i \in Index : i > latest => bnMin[i] = Nil)'
    BY <1>1, <1>2, <1>6, Zenon DEF Ranges
  <2>3. ASSUME NEW i \in Index, HasRange(i)' PROVE bnMin'[i] <= bnMax'[i] /\ bnMax'[i] <= height'
    <3>1. /\ bnMin'[i] = bnMin[i] /\ bnMin[i] \in Nat /\ bnMax[i] \in Nat /\ bnMin[i] < b
          /\ bnMax'[i] = (IF bnMax[i] >= b THEN b - 1 ELSE bnMax[i]) /\ bnMin[i] <= bnMax[i]
      BY <1>1, <1>9, <2>3, Zenon DEF Ranges
    <3>. QED  BY <1>3, <1>4, <3>1
  <2>4. ASSUME NEW i \in Index, NEW j \in Index, i < j, HasRange(i)', HasRange(j)' PROVE bnMax'[i] < bnMin'[j]
    <3>1. /\ bnMax[i] < bnMin[j] /\ bnMin'[j] = bnMin[j] /\ bnMin[j] \in Nat /\ bnMax[i] \in Nat
          /\ bnMin[j] < b /\ bnMax'[i] = IF bnMax[i] >= b THEN b - 1 ELSE bnMax[i]
      BY <1>1, <1>9, <2>4, Zenon DEF Ranges
    <3>. QED  BY <1>4, <3>1
  <2>. QED  BY <2>1, <2>2, <2>3, <2>4, Zenon DEF Ranges
<1>11. \A c \in Bn : table'[c] \in Partition => table'[c] = table[c] /\ c < b /\ nlogs'[c] = nlogs[c]
  <2>. SUFFICES ASSUME NEW c \in Bn, table'[c] \in Partition PROVE table'[c] = table[c] /\ c < b /\ nlogs'[c] = nlogs[c]
    OBVIOUS
  <2>1. table'[c] = table[c] /\ table[c] \in Partition /\ ~(c >= b /\ table[c] \in Shrunk(b)) /\ table[c] \in Index
    BY <1>1, <1>3, Numbers, Zenon
  <2>2. HasRange(table[c]) /\ c <= bnMax[table[c]] /\ bnMax[table[c]] \in Nat
    BY <1>1, <2>1, Numbers, Zenon DEF Rows, Ranges, HasRange
  <2>3. ~(c >= b)
    <3>1. c >= b => bnMax[table[c]] >= b
      BY <1>1, <1>4, <2>2, Numbers, SMTT(60)
    <3>. QED  BY <1>1, <1>4, <2>1, <2>2, <3>1, ShrunkAll, Zenon
  <2>4. c < b
    BY <1>1, <1>4, <2>3, Numbers
  <2>. QED  BY <1>3, <2>1, <2>3, <2>4, Zenon
<1>12. Rows'
  <2>1. \A c \in Bn : table'[c] # Nil => table'[c] <= latest'
    BY <1>1, <1>2, <1>3, Zenon DEF Rows
  <2>2. ASSUME NEW c \in Bn, table'[c] \in Partition'
        PROVE  /\ nlogs'[c] > 0
               /\ HasRange(table[c])' /\ bnMin'[table'[c]] <= c /\ c <= bnMax'[table'[c]]
    <3>. DEFINE i == table[c]
    <3>1. table'[c] = i /\ c < b /\ nlogs'[c] = nlogs[c] /\ i \in Partition /\ i \in Index
      BY <1>1, <1>5, <1>11, <2>2, Numbers, Zenon
    <3>2. nlogs[c] > 0 /\ HasRange(i) /\ bnMin[i] <= c /\ c <= bnMax[i] /\ bnMin[i] \in Nat /\ bnMax[i] \in Nat
      BY <1>1, <3>1, Numbers, Zenon DEF Rows, Ranges, HasRange
    <3>. HIDE DEF i
    <3>3. ~(bnMin[i] >= b)
      BY <1>1, <1>4, <3>1, <3>2, Numbers
    <3>4. bnMin'[i] = bnMin[i] /\ bnMax'[i] = IF bnMax[i] >= b THEN b - 1 ELSE bnMax[i]
      BY <1>6, <3>1, <3>2, <3>3, Zenon
    <3>5. bnMin'[i] # Nil /\ bnMin'[i] <= c /\ c <= bnMax'[i]
      BY <1>1, <1>4, <3>1, <3>2, <3>4, Numbers, SMTT(60)
    <3>. QED  BY <1>5, <3>1, <3>2, <3>5, Zenon DEF HasRange
  <2>3. \A c \in Bn : nlogs'[c] > 0 => c <= height'
    BY <1>1, <1>3, <1>4, Numbers
  <2>4. ASSUME NEW c \in Bn, NEW i \in Index, nlogs'[c] > 0, HasRange(i)', bnMin'[i] <= c
        PROVE  table'[c] \in Partition'
    <3>1. ~(c >= b) /\ nlogs[c] > 0
      <4>1. ~(0 > 0)
        OBVIOUS
      <4>. QED  BY <1>3, <2>4, <4>1, Zenon
    <3>2. table'[c] = table[c] /\ HasRange(i) /\ bnMin[i] <= c
      BY <1>3, <1>9, <2>4, <3>1, Zenon
    <3>. QED  BY <1>1, <1>5, <3>1, <3>2, Zenon DEF Rows
  <2>. QED  BY <2>1, <2>2, <2>3, <2>4, Zenon DEF Rows
<1>. QED  BY <1>2, <1>7, <1>8, <1>10, <1>12, Zenon DEF IInv

\* The rows of a partition whose row in the router is deleted lie below all
\* ranges that are left.
LEMMA PruneRowStep ==
  ASSUME IInv, PruneRow
  PROVE  IInv'
<1>. USE LogPartitionsAssumption
<1>1. Types /\ Indexes /\ Ranges /\ Rows
  BY Zenon DEF IInv
<1>2. /\ latest' = latest /\ bnMin' = bnMin /\ bnMax' = bnMax /\ height' = height /\ nlogs' = nlogs
      /\ table' = table /\ tables' = tables /\ ready' = ready /\ pruning' = pruning /\ calm' = FALSE
      /\ lo' = lo /\ hi' = hi /\ oldest' = oldest + 1 /\ dropping' = oldest /\ pruning # Nil
  BY Zenon DEF PruneRow, blocks, reader
<1>3. oldest \in Nat /\ latest \in Int /\ oldest + 1 \in Nat /\ oldest + 1 <= latest /\ oldest \in Partition /\ oldest \in Index
  <2>1. pruning - oldest > MaxArchive /\ pruning <= latest /\ pruning \in Int
    BY <1>1, <1>2, Zenon DEF PruneRow, Types, Indexes
  <2>. QED  BY <1>1, <2>1 DEF Types, Index, Partition
<1>4. Partition' = Partition \ {oldest} /\ \A i \in Partition' : oldest < i
  BY <1>2, <1>3 DEF Partition
<1>5. Types'
  BY <1>1, <1>2, <1>3, Zenon DEF Types
<1>6. Indexes'
  <2>1. oldest' <= latest' + 1 /\ oldest' <= latest' /\ dropping' < oldest'
    BY <1>2, <1>3
  <2>. QED  BY <1>1, <1>2, <1>4, <2>1, Zenon DEF Indexes
<1>7. \A i : HasRange(i)' <=> HasRange(i) /\ i # oldest
  BY <1>2, <1>4, Zenon DEF HasRange
<1>8. Ranges'
  BY <1>1, <1>2, <1>7, Zenon DEF Ranges
<1>9. Rows'
  <2>1. ASSUME NEW b \in Bn, NEW i \in Index, nlogs[b] > 0, HasRange(i)', bnMin[i] <= b
        PROVE  table[b] \in Partition'
    <3>1. HasRange(i) /\ oldest < i /\ table[b] \in Partition
      BY <1>1, <1>4, <1>7, <2>1, Zenon DEF Rows, HasRange
    <3>2. table[b] # oldest
      <4>. SUFFICES ASSUME table[b] = oldest PROVE FALSE
        OBVIOUS
      <4>1. HasRange(oldest) /\ b <= bnMax[oldest]
        BY <1>1, <3>1, Zenon DEF Rows
      <4>2. bnMax[oldest] < bnMin[i] /\ bnMax[oldest] \in Nat /\ bnMin[i] \in Nat /\ b \in Nat
        BY <1>1, <1>3, <3>1, <4>1, Numbers, Zenon DEF Ranges, HasRange
      <4>. QED  BY <2>1, <4>1, <4>2
    <3>. QED  BY <1>4, <3>1, <3>2, Zenon
  <2>2. \A b \in Bn : table[b] \in Partition' =>
          nlogs[b] > 0 /\ HasRange(table[b]) /\ table[b] # oldest /\ bnMin[table[b]] <= b /\ b <= bnMax[table[b]]
    BY <1>1, <1>4, Zenon DEF Rows
  <2>3. \A b \in Bn : table[b] \in Partition' => HasRange(table[b])'
    BY <1>2, <1>7, <2>2, Zenon DEF HasRange
  <2>. QED  BY <1>1, <1>2, <2>1, <2>2, <2>3, Zenon DEF Rows
<1>. QED  BY <1>2, <1>5, <1>6, <1>8, <1>9, Zenon DEF IInv

\* The table that is dropped belongs to no partition of the router.
LEMMA PruneTableStep ==
  ASSUME IInv, PruneTable
  PROVE  IInv'
<1>. USE LogPartitionsAssumption
<1>1. Types /\ Indexes /\ Ranges /\ Rows
  BY Zenon DEF IInv
<1>2. /\ oldest' = oldest /\ latest' = latest /\ bnMin' = bnMin /\ bnMax' = bnMax /\ height' = height
      /\ nlogs' = nlogs /\ ready' = ready /\ pruning' = pruning /\ calm' = calm
      /\ pc' = pc /\ lo' = lo /\ hi' = hi /\ parts' = parts /\ res' = res
      /\ dropping # Nil /\ dropping' = Nil /\ tables' = tables \ {dropping}
      /\ table' = [b \in Bn |-> IF table[b] = dropping THEN Nil ELSE table[b]]
  BY Zenon DEF PruneTable, router, reader
<1>3. dropping \notin Partition /\ Nil \notin Partition
  <2>1. dropping \in Nat /\ dropping < oldest
    BY <1>1, <1>2, Numbers, Zenon DEF Types, Indexes
  <2>2. dropping \notin Partition
    BY <1>1, <2>1 DEF Partition, Types
  <2>. QED  BY <1>1, <2>2, Numbers, Zenon
<1>4. Partition' = Partition
  BY <1>2, Zenon DEF Partition
<1>5. \A i : HasRange(i)' <=> HasRange(i)
  BY <1>2, <1>4, Zenon DEF HasRange
<1>6. Types'
  <2>1. table' \in [Bn -> Index \cup {Nil}]
    BY <1>1, <1>2, Zenon DEF Types
  <2>. QED  BY <1>1, <1>2, <2>1, Zenon DEF Types
<1>7. Indexes'
  BY <1>1, <1>2, <1>3, <1>4, Zenon DEF Indexes
<1>8. Ranges'
  BY <1>1, <1>2, <1>5, Zenon DEF Ranges
<1>9. \A b \in Bn : /\ table'[b] # Nil => table'[b] = table[b]
                    /\ table'[b] \in Partition \/ table[b] \in Partition => table'[b] = table[b]
  BY <1>2, <1>3, Zenon
<1>10. Rows'
  <2>1. ASSUME NEW b \in Bn, table'[b] \in Partition
        PROVE  nlogs[b] > 0 /\ HasRange(table[b])' /\ bnMin[table'[b]] <= b /\ b <= bnMax[table'[b]]
    BY <1>1, <1>2, <1>4, <1>9, <2>1, Zenon DEF Rows, HasRange
  <2>2. \A b \in Bn : table'[b] # Nil => table'[b] <= latest
    BY <1>1, <1>9, Zenon DEF Rows
  <2>3. \A b \in Bn, i \in Index : nlogs[b] > 0 /\ HasRange(i) /\ bnMin[i] <= b => table'[b] \in Partition
    BY <1>1, <1>9, Zenon DEF Rows
  <2>. QED  BY <1>1, <1>2, <1>4, <1>5, <2>1, <2>2, <2>3, Zenon DEF Rows
<1>11. (calm /\ pc # "idle" => Reads)'
  <2>. SUFFICES ASSUME calm, pc # "idle" PROVE Reads'
    BY <1>2, Zenon
  <2>1. Reads /\ hi <= height'
    BY <1>2, Zenon DEF IInv, Reads
  <2>2. lo .. hi \subseteq Bn
    BY <1>1 DEF Types, Bn
  <2>3. \A b \in lo .. hi : table'[b] \in Partition' \/ table[b] \in Partition => table'[b] = table[b] /\ table[b] \in Partition
    BY <1>4, <1>9, <2>2, Zenon
  <2>4. \A s \in Bn : IsStart(s)' => IsStart(s)
    BY <1>2, <1>4, <1>5, Zenon DEF IsStart
  <2>. QED  BY <1>2, <1>4, <2>1, <2>3, <2>4, ReadsKept, Zenon
<1>. QED  BY <1>6, <1>7, <1>8, <1>10, <1>11, Zenon DEF IInv

\* The steps that touch neither the router nor the tables nor the reader.
LEMMA QuietStep ==
  ASSUME IInv, AddFails \/ Prune \/ PruneTableFails \/ PruneEnd \/ Restart \/ UNCHANGED vars
  PROVE  IInv'
<1>. USE LogPartitionsAssumption
<1>1. Types /\ Indexes /\ Ranges /\ Rows
  BY Zenon DEF IInv
<1>2. /\ UNCHANGED <<oldest, latest, bnMin, bnMax, height, nlogs, table>>
      /\ tables' = tables /\ calm' = calm
      /\ pc' = pc /\ lo' = lo /\ hi' = hi /\ parts' = parts /\ res' = res
      /\ ready' => ready
      /\ dropping' # Nil => dropping' = dropping
      /\ pruning' # Nil => pruning' = pruning \/ pruning' = latest
  <2>1. CASE AddFails
    BY <2>1, Zenon DEF AddFails, router, blocks, reader, pruner
  <2>2. CASE Prune
    BY <2>2, Zenon DEF Prune, router, blocks, reader, pruner
  <2>3. CASE PruneTableFails
    BY <2>3, Zenon DEF PruneTableFails, router, blocks, reader, pruner
  <2>4. CASE PruneEnd
    BY <2>4, Zenon DEF PruneEnd, router, blocks, reader, pruner
  <2>5. CASE Restart
    BY <2>5, Zenon DEF Restart, router, blocks, reader, pruner
  <2>6. CASE UNCHANGED vars
    BY <2>6, Zenon DEF vars, router, blocks, reader, pruner
  <2>. QED  BY <2>1, <2>2, <2>3, <2>4, <2>5, <2>6, Zenon
<1>3. Ranges' /\ Rows' /\ Partition' = Partition /\ \A s \in Bn : IsStart(s)' <=> IsStart(s)
  BY <1>1, <1>2, Frame, Zenon
<1>4. pruning' \in Int \cup {Nil} /\ (pruning' # Nil => pruning' <= latest)
  <2>1. CASE pruning' = latest
    <3>1. latest \in Int /\ latest <= latest
      BY <1>1 DEF Types
    <3>. QED  BY <2>1, <3>1, Zenon
  <2>2. CASE pruning' = pruning \/ pruning' = Nil
    BY <1>1, <2>2, Zenon DEF Types, Indexes
  <2>. QED  BY <1>2, <2>1, <2>2, Zenon
<1>5. Types'
  BY <1>1, <1>2, <1>4, Zenon DEF Types
<1>6. Indexes'
  BY <1>1, <1>2, <1>3, <1>4, Zenon DEF Indexes
<1>7. (calm /\ pc # "idle" => Reads)'
  BY <1>2, <1>3, Zenon DEF IInv, Reads
<1>. QED  BY <1>3, <1>5, <1>6, <1>7, Zenon DEF IInv

\* The block range of the router has one start, which is that of a partition.
LEMMA OneStart ==
  ASSUME Types, NEW s \in Bn, NEW u \in Bn, IsStart(s), IsStart(u)
  PROVE  s = u
<1>1. PICK i \in Partition : bnMin[i] = s /\ \A j \in Partition : HasRange(j) => s <= bnMin[j]
  BY Zenon DEF IsStart
<1>2. PICK j \in Partition : bnMin[j] = u /\ \A k \in Partition : HasRange(k) => u <= bnMin[k]
  BY Zenon DEF IsStart
<1>3. HasRange(i) /\ HasRange(j)
  BY <1>1, <1>2, Numbers, Zenon DEF HasRange
<1>4. s <= u /\ u <= s
  BY <1>1, <1>2, <1>3, Zenon
<1>5. s \in Nat /\ u \in Nat
  BY Numbers, Zenon
<1>. QED  BY ONLY <1>4, <1>5

\* A step of the reader keeps the router and the tables, and what it makes of
\* its own variables decides.
LEMMA ReaderFrame ==
  ASSUME IInv, UNCHANGED <<router, blocks, tables, ready, pruner>>,
         lo' \in Bn, hi' \in Bn, (calm /\ pc # "idle" => Reads)'
  PROVE  IInv'
<1>1. Types /\ Indexes /\ Ranges /\ Rows
  BY Zenon DEF IInv
<1>2. /\ UNCHANGED <<oldest, latest, bnMin, bnMax, height, nlogs, table>>
      /\ tables' = tables /\ ready' = ready /\ pruning' = pruning /\ dropping' = dropping
  BY Zenon DEF router, blocks, pruner
<1>3. Ranges' /\ Rows' /\ Partition' = Partition
  BY <1>1, <1>2, Frame, Zenon
<1>4. Types'
  BY <1>1, <1>2, Zenon DEF Types
<1>5. Indexes'
  BY <1>1, <1>2, <1>3 DEF Indexes
<1>. QED  BY <1>3, <1>4, <1>5, Zenon DEF IInv

\* A search begins.
LEMMA GetLogsStep ==
  ASSUME IInv, GetLogs
  PROVE  IInv'
<1>1. height \in -1 .. LastBn /\ hi' \in 0 .. height /\ lo' \in 0 .. hi' /\ height' = height
  BY Zenon DEF IInv, Types, GetLogs, blocks
<1>2. lo' \in Bn /\ hi' \in Bn /\ hi' <= height'
  BY <1>1, LogPartitionsAssumption DEF Bn
<1>3. Reads'
  BY <1>2 DEF GetLogs, Reads
<1>. QED  BY <1>2, <1>3, ReaderFrame, Zenon DEF GetLogs

\* A search ends.
LEMMA LeaveStep ==
  ASSUME IInv, Leave, Unmoved
  PROVE  IInv'
<1>1. lo' \in Bn /\ hi' \in Bn
  <2>1. 0 \in Bn
    BY LogPartitionsAssumption DEF Bn
  <2>. QED  BY <2>1, Zenon DEF Leave
<1>. QED  BY <1>1, ReaderFrame, Zenon DEF Leave, Unmoved

\* The variables a step of a search leaves alone.
LEMMA SearchFrame ==
  ASSUME IInv, Unmoved, lo' = lo, hi' = hi
  PROVE  /\ UNCHANGED <<router, blocks, tables, ready, pruner>> /\ calm' = calm
         /\ UNCHANGED <<oldest, latest, bnMin, bnMax, height, nlogs, table>>
         /\ Partition' = Partition /\ \A s \in Bn : IsStart(s)' <=> IsStart(s)
         /\ lo' \in Bn /\ hi' \in Bn /\ lo .. hi \subseteq Bn
<1>1. UNCHANGED <<router, blocks, tables, ready, pruner>> /\ calm' = calm
  BY Zenon DEF Unmoved
<1>2. UNCHANGED <<oldest, latest, bnMin, bnMax, height, nlogs, table>>
  BY <1>1, Zenon DEF router, blocks
<1>3. Partition' = Partition /\ \A s \in Bn : IsStart(s)' <=> IsStart(s)
  BY <1>2, Frame, Zenon DEF IInv
<1>4. lo' \in Bn /\ hi' \in Bn
  BY Zenon DEF IInv, Types
<1>5. lo .. hi \subseteq Bn
  BY LogPartitionsAssumption DEF IInv, Types, Bn
<1>. QED  BY <1>1, <1>2, <1>3, <1>4, <1>5, Zenon

\* The range of all partitions: what is not to be searched has no rows.
LEMMA RangeStep ==
  ASSUME IInv, searchRange
  PROVE  IInv'
<1>1. Types /\ Indexes /\ Ranges /\ Rows
  BY Zenon DEF IInv
<1>2. pc = "range" /\ Unmoved
  BY Zenon DEF searchRange
<1>3. ASSUME lo' = lo, hi' = hi, res' = res,
             pc' = "done" \/ pc' = "search",
             \A s \in Bn : IsStart(s) => ~(lo < s /\ s < hi),
             pc' = "done" => \A b \in lo .. hi : table[b] \notin Partition
      PROVE  IInv'
  <2>1. /\ UNCHANGED <<router, blocks, tables, ready, pruner>> /\ calm' = calm
        /\ UNCHANGED <<oldest, latest, bnMin, bnMax, height, nlogs, table>>
        /\ Partition' = Partition /\ \A s \in Bn : IsStart(s)' <=> IsStart(s)
        /\ lo' \in Bn /\ hi' \in Bn
    BY <1>2, <1>3, SearchFrame, Zenon
  <2>2. (calm /\ pc # "idle" => Reads)'
    <3>. SUFFICES ASSUME calm PROVE Reads'
      BY <2>1, Zenon
    <3>1. res = {} /\ hi <= height
      BY <1>2 DEF IInv, Reads
    <3>. QED  BY <1>3, <2>1, <3>1 DEF Reads
  <2>. QED  BY <2>1, <2>2, ReaderFrame, Zenon
<1>4. CASE (\A i \in Partition : ~HasRange(i)) /\ pc' = "done" /\ UNCHANGED <<lo, hi, parts, res>>
  <2>1. \A s \in Bn : ~IsStart(s)
    BY <1>1, <1>4, Numbers, Zenon DEF IsStart, HasRange
  <2>2. \A b \in Bn : table[b] \notin Partition
    BY <1>1, <1>4, Zenon DEF Rows
  <2>3. lo .. hi \subseteq Bn
    BY <1>2, <1>4, SearchFrame, Zenon
  <2>. QED  BY <1>3, <1>4, <2>1, <2>2, <2>3, Zenon
<1>5. ASSUME NEW s \in Bn, NEW e \in Bn, IsStart(s), IsEnd(e), UNCHANGED <<lo, hi, parts, res>>,
             \/ hi >= s /\ lo > e /\ pc' = "done"
             \/ hi >= s /\ lo <= e /\ ~(lo < s /\ hi > s) /\ pc' = "search"
      PROVE  IInv'
  <2>1. PICK i \in Partition : bnMax[i] = e /\ \A j \in Partition : HasRange(j) => bnMax[j] <= e
    BY <1>5, Zenon DEF IsEnd
  <2>2. s <= e
    <3>1. i \in Index /\ bnMin[i] # Nil /\ HasRange(i)
      BY <1>1, <2>1, Numbers, Zenon DEF Ranges, HasRange
    <3>2. bnMin[i] <= e /\ s <= bnMin[i] /\ bnMin[i] \in Nat
      BY <1>1, <1>5, <2>1, <3>1, Numbers, Zenon DEF Ranges, IsStart
    <3>3. s \in Nat /\ e \in Nat
      BY <1>1, Numbers, Zenon
    <3>. QED  BY ONLY <3>2, <3>3
  <2>3. s \in Nat /\ e \in Nat /\ lo \in Nat /\ hi \in Nat
    BY <1>1, Numbers, Zenon DEF Types
  <2>4. ~(lo < s /\ s < hi)
    BY ONLY <1>5, <2>2, <2>3, SMTT(60)
  <2>5. lo > e => \A b \in lo .. hi : table[b] \notin Partition
    <3>. SUFFICES ASSUME lo > e, NEW b \in lo .. hi, table[b] \in Partition PROVE FALSE
      OBVIOUS
    <3>1. b \in Bn
      BY <1>2, <1>5, SearchFrame, Zenon
    <3>2. HasRange(table[b]) /\ b <= bnMax[table[b]] /\ bnMax[table[b]] \in Nat
      BY <1>1, <3>1, Numbers, Zenon DEF Rows, Ranges, HasRange
    <3>3. bnMax[table[b]] <= e
      BY <2>1, <3>2, Zenon
    <3>. QED  BY ONLY <2>3, <3>2, <3>3, lo > e, b \in lo .. hi
  <2>6. \A u \in Bn : IsStart(u) => ~(lo < u /\ u < hi)
    BY <1>1, <1>5, <2>4, OneStart, Zenon
  <2>. QED
    <3>1. lo <= e => ~(lo > e)
      BY ONLY <2>3
    <3>2. pc' = "done" => lo > e
      BY <1>5
    <3>3. pc' = "done" \/ pc' = "search"
      BY <1>5, Zenon
    <3>. QED  BY <1>3, <1>5, <2>5, <2>6, <3>2, <3>3, Zenon
<1>6. CASE Leave
  BY <1>2, <1>6, LeaveStep, Zenon
<1>. QED  BY <1>4, <1>5, <1>6, Zenon DEF searchRange

\* Every partition with a row in the range is chosen.
LEMMA OverlapStep ==
  ASSUME IInv, searchOverlapPartitions
  PROVE  IInv'
<1>1. Types /\ Indexes /\ Ranges /\ Rows
  BY Zenon DEF IInv
<1>2. /\ pc = "search" /\ Unmoved /\ lo' = lo /\ hi' = hi /\ res' = res
      /\ parts' = {i \in Partition : Overlaps(i)}
      /\ pc' = IF parts' = {} THEN "done" ELSE "query"
  BY Zenon DEF searchOverlapPartitions
<1>3. /\ UNCHANGED <<router, blocks, tables, ready, pruner>> /\ calm' = calm
      /\ UNCHANGED <<oldest, latest, bnMin, bnMax, height, nlogs, table>>
      /\ Partition' = Partition /\ \A s \in Bn : IsStart(s)' <=> IsStart(s)
      /\ lo' \in Bn /\ hi' \in Bn /\ lo .. hi \subseteq Bn
  BY <1>2, SearchFrame, Zenon
<1>4. \A b \in lo .. hi : table[b] \in Partition => table[b] \in parts'
  <2>. SUFFICES ASSUME NEW b \in lo .. hi, table[b] \in Partition PROVE Overlaps(table[b])
    BY <1>2, Zenon
  <2>1. b \in Bn
    BY <1>3, Zenon
  <2>2. HasRange(table[b]) /\ bnMin[table[b]] <= b /\ b <= bnMax[table[b]] /\ bnMin[table[b]] \in Nat /\ bnMax[table[b]] \in Nat
    BY <1>1, <2>1, Numbers, Zenon DEF Rows, Ranges, HasRange
  <2>3. lo \in Nat /\ hi \in Nat
    BY <1>1, Numbers, Zenon DEF Types
  <2>4. bnMin[table[b]] <= hi /\ bnMax[table[b]] >= lo
    BY ONLY <2>2, <2>3, b \in lo .. hi, SMTT(60)
  <2>. QED  BY <2>2, <2>4, Zenon DEF Overlaps
<1>5. (calm /\ pc # "idle" => Reads)'
  <2>. SUFFICES ASSUME calm PROVE Reads'
    BY <1>3, Zenon
  <2>1. res = {} /\ hi <= height /\ \A s \in Bn : IsStart(s) => ~(lo < s /\ s < hi)
    BY <1>2 DEF IInv, Reads
  <2>2. parts' \subseteq Partition
    BY <1>2, Zenon
  <2>3. pc' \in {"done", "query"} /\ (pc' = "done" => parts' = {})
    BY <1>2
  <2>. QED  BY <1>2, <1>3, <1>4, <2>1, <2>2, <2>3 DEF Reads
<1>. QED  BY <1>3, <1>5, ReaderFrame, Zenon

\* The rows of the partition that is queried move to the result.
LEMMA QueryStep ==
  ASSUME IInv, QueryPart
  PROVE  IInv'
<1>1. Types /\ Indexes /\ Ranges /\ Rows
  BY Zenon DEF IInv
<1>2. pc = "query" /\ Unmoved
  BY Zenon DEF QueryPart
<1>3. CASE Leave
  BY <1>2, <1>3, LeaveStep, Zenon
<1>4. ASSUME NEW i \in parts,
             res' = res \cup {b \in lo .. hi : table[b] = i}, parts' = parts \ {i},
             pc' = IF parts' = {} THEN "done" ELSE "query", lo' = lo, hi' = hi
      PROVE  IInv'
  <2>1. /\ UNCHANGED <<router, blocks, tables, ready, pruner>> /\ calm' = calm
        /\ UNCHANGED <<oldest, latest, bnMin, bnMax, height, nlogs, table>>
        /\ Partition' = Partition /\ \A s \in Bn : IsStart(s)' <=> IsStart(s)
        /\ lo' \in Bn /\ hi' \in Bn
    BY <1>2, <1>4, SearchFrame, Zenon
  <2>2. (calm /\ pc # "idle" => Reads)'
    <3>. SUFFICES ASSUME calm PROVE Reads'
      BY <2>1, Zenon
    <3>1. /\ hi <= height /\ parts \subseteq Partition
          /\ \A s \in Bn : IsStart(s) => ~(lo < s /\ s < hi)
          /\ \A b \in res : b \in lo .. hi /\ table[b] \in Partition
          /\ \A b \in lo .. hi : table[b] \in Partition => b \in res \/ table[b] \in parts
      BY <1>2 DEF IInv, Reads
    <3>2. parts' \subseteq Partition
      BY <1>4, <3>1, Zenon
    <3>3. \A b \in res' : b \in lo .. hi /\ table[b] \in Partition
      BY <1>4, <3>1, Zenon
    <3>4. \A b \in lo .. hi : table[b] \in Partition => b \in res' \/ table[b] \in parts'
      BY <1>4, <3>1, Zenon
    <3>5. pc' \in {"done", "query"} /\ (pc' = "done" => parts' = {})
      BY <1>4
    <3>. QED  BY <1>4, <2>1, <3>1, <3>2, <3>3, <3>4, <3>5 DEF Reads
  <2>. QED  BY <2>1, <2>2, ReaderFrame, Zenon
<1>. QED  BY <1>3, <1>4, Zenon DEF QueryPart

LEMMA NextIInv == IInv /\ [Next]_vars => IInv'
<1>. SUFFICES ASSUME IInv, [Next]_vars PROVE IInv'
  OBVIOUS
<1>1. CASE preparePartition \/ Add \/ Popn
  BY <1>1, PrepareStep, AddStep, PopStep, Zenon
<1>2. CASE PruneRow \/ PruneTable
  BY <1>2, PruneRowStep, PruneTableStep, Zenon
<1>3. CASE AddFails \/ Prune \/ PruneTableFails \/ PruneEnd \/ Restart \/ UNCHANGED vars
  BY <1>3, QuietStep, Zenon
<1>4. CASE GetLogs \/ searchRange \/ searchOverlapPartitions \/ QueryPart
  BY <1>4, GetLogsStep, RangeStep, OverlapStep, QueryStep, Zenon
<1>5. CASE Return
  BY <1>5, LeaveStep, Zenon DEF Return
<1>. QED  BY <1>1, <1>2, <1>3, <1>4, <1>5, Zenon DEF Next

\* What a finished search has found, by the invariant.
LEMMA SearchFound == IInv => ReadsComplete
<1>. SUFFICES ASSUME IInv, pc = "done", calm, NEW s \in Bn, IsStart(s), s <= lo \/ s < hi
              PROVE  FoundAll
  BY Zenon DEF ReadsComplete
<1>1. Types /\ Rows
  BY Zenon DEF IInv
<1>2. /\ \A u \in Bn : IsStart(u) => ~(lo < u /\ u < hi)
      /\ \A b \in res : b \in lo .. hi /\ table[b] \in Partition
      /\ \A b \in lo .. hi : table[b] \in Partition => b \in res
  BY DEF IInv, Reads
<1>3. lo \in Nat /\ hi \in Nat /\ s \in Nat
  BY <1>1, Numbers, Zenon DEF Types
<1>4. lo .. hi \subseteq Bn
  BY <1>1, LogPartitionsAssumption DEF Types, Bn
<1>5. s <= lo
  <2>1. ~(lo < s /\ s < hi)
    BY <1>2, Zenon
  <2>. QED  BY ONLY <1>3, <2>1, s <= lo \/ s < hi
<1>6. PICK i \in Partition : bnMin[i] = s
  BY Zenon DEF IsStart
<1>7. i \in Index /\ HasRange(i)
  BY <1>1, <1>6, Numbers, Zenon DEF HasRange
<1>8. \A b \in res : b \in lo .. hi /\ nlogs[b] > 0
  BY <1>1, <1>2, <1>4, Zenon DEF Rows
<1>9. ASSUME NEW b \in lo .. hi, nlogs[b] > 0 PROVE b \in res
  <2>1. s <= b
    BY ONLY <1>3, <1>5, b \in lo .. hi
  <2>2. table[b] \in Partition
    BY <1>1, <1>4, <1>6, <1>7, <1>9, <2>1, Zenon DEF Rows
  <2>. QED  BY <1>2, <2>2, Zenon
<1>. QED  BY <1>8, <1>9, Zenon DEF FoundAll
-----------------------------------------------------------------------------
\* The router leads to every log: every row of a partition's table lies within
\* the block range that expandBnRange and shrinkBnRange keep for it, and the
\* ranges are disjoint and ordered like the indexes, for any batch, volume and
\* archive size, through every pop, prune, failure and restart.
THEOREM RouterLeads == Spec => []Routed
<1>1. IInv => Routed
  <2>. SUFFICES ASSUME IInv PROVE Routed
    OBVIOUS
  <2>1. Types /\ Ranges /\ Rows
    BY Zenon DEF IInv
  <2>. QED  BY <2>1, Numbers, Zenon DEF Routed, Ranges, Rows
<1>. QED  BY <1>1, InitIInv, NextIInv, PTL DEF Spec

\* A GetLogs that ends without error returns all logs of its range, when the
\* range does not begin before the partitions and nothing is popped or pruned
\* meanwhile; pushes and new partitions may come between any two of its steps.
THEOREM SearchesAreComplete == Spec => []ReadsComplete
<1>. QED  BY SearchFound, InitIInv, NextIInv, PTL DEF Spec
-----------------------------------------------------------------------------
(* The counts.                                                             *)

FT == INSTANCE FiniteSetTheorems

LEMMA SameNotions ==
  (\A S : FT!IsFiniteSet(S) <=> IsFiniteSet(S)) /\ (\A S : FT!Cardinality(S) = Cardinality(S))
BY Zenon DEF FT!Cardinality, Cardinality, IsFiniteSet, FT!IsFiniteSet

LEMMA RowsFinite ==
  ASSUME NEW n, NEW s \in SUBSET Bn
  PROVE  IsFiniteSet(RowsOf(n, s)) /\ SumLogs(n, s) \in Nat
<1>1. FT!IsFiniteSet(0 .. LastBn) /\ FT!IsFiniteSet(1 .. MaxLogs)
  <2>1. LastBn \in Int /\ MaxLogs \in Int /\ 0 \in Int /\ 1 \in Int
    BY ONLY LogPartitionsAssumption
  <2>. QED  BY <2>1, FT!FS_Interval, Zenon
<1>2. FT!IsFiniteSet(Bn \X (1 .. MaxLogs))
  BY <1>1, FT!FS_Product, Zenon DEF Bn
<1>3. RowsOf(n, s) \subseteq Bn \X (1 .. MaxLogs)
  BY Zenon DEF RowsOf
<1>4. FT!IsFiniteSet(RowsOf(n, s))
  BY <1>2, <1>3, FT!FS_Subset, Zenon
<1>. QED  BY <1>4, FT!FS_CardinalityType, SameNotions, Zenon DEF SumLogs

LEMMA RowsSplit ==
  ASSUME NEW n, NEW s \in SUBSET Bn, NEW t \in SUBSET Bn, s \cap t = {}
  PROVE  SumLogs(n, s \cup t) = SumLogs(n, s) + SumLogs(n, t)
<1>. DEFINE R == RowsOf(n, s)
            T == RowsOf(n, t)
<1>1. IsFiniteSet(R) /\ IsFiniteSet(T)
  BY RowsFinite, Zenon
<1>2. RowsOf(n, s \cup t) = R \cup T
  BY Zenon DEF RowsOf
<1>3. R \cap T = {}
  BY Zenon DEF RowsOf
<1>4. Cardinality(R \cup T) = Cardinality(R) + Cardinality(T) - Cardinality(R \cap T)
  BY <1>1, FT!FS_Union, SameNotions, Zenon
<1>5. Cardinality(R \cap T) = 0
  BY <1>3, FT!FS_EmptySet, SameNotions, Zenon
<1>6. SumLogs(n, s) \in Nat /\ SumLogs(n, t) \in Nat
  BY RowsFinite, Zenon
<1>7. SumLogs(n, s \cup t) = SumLogs(n, s) + SumLogs(n, t) - 0
  BY <1>2, <1>4, <1>5, Zenon DEF SumLogs
<1>. QED  BY ONLY <1>6, <1>7

\* Only what the blocks of s have counts.
LEMMA RowsSame ==
  ASSUME NEW n, NEW m, NEW s, \A b \in s : n[b] = m[b]
  PROVE  SumLogs(n, s) = SumLogs(m, s)
<1>1. RowsOf(n, s) = RowsOf(m, s)
  BY Zenon DEF RowsOf
<1>. QED  BY <1>1, Zenon DEF SumLogs

LEMMA RowsNone ==
  ASSUME NEW n, NEW s, \A b \in s : n[b] = 0
  PROVE  SumLogs(n, s) = 0
<1>1. \A k \in 1 .. MaxLogs : ~(k <= 0)
  BY LogPartitionsAssumption
<1>2. RowsOf(n, s) = {}
  BY <1>1, Zenon DEF RowsOf
<1>. QED  BY <1>2, FT!FS_EmptySet, SameNotions, Zenon DEF SumLogs

\* deltaUpdateCount's floor does not bite when the count is exact.
LEMMA MaxZero == \A x \in Nat : Max({0, x}) = x
<1>. SUFFICES ASSUME NEW x \in Nat PROVE Max({0, x}) = x
  OBVIOUS
<1>1. x \in {0, x} /\ \A y \in {0, x} : x >= y
  OBVIOUS
<1>2. \A z \in {0, x} : (\A y \in {0, x} : z >= y) => z = x
  OBVIOUS
<1>. QED  BY <1>1, <1>2, Zenon DEF Max

\* The blocks whose logs are in the table of partition i.
Held(i) == {b \in Bn : table[b] = i}

\* What the counts need besides IInv.
Counted ==
  /\ TypeOK
  /\ observed => latest >= 0
  /\ \A i \in Index : i > latest => count[i] = 0
  /\ \A i \in Partition : count[i] = SumLogs(nlogs, Held(i))

LEMMA InitCounted == Init => Counted
<1>. SUFFICES ASSUME Init PROVE Counted
  OBVIOUS
<1>1. /\ 0 \in Bn /\ -1 \in -1 .. LastBn /\ -1 \in -1 .. LastIndex /\ 0 \in Nat /\ 0 \in 0 .. LastIndex + 1
      /\ 0 \in 0 .. MaxLogs /\ 0 \in 0 .. MaxPops
  BY LogPartitionsAssumption DEF Bn
<1>2. TypeOK
  BY <1>1, Zenon DEF Init, TypeOK
<1>3. Partition = {}
  BY DEF Partition, Init
<1>. QED  BY <1>2, <1>3, Zenon DEF Counted, Init

\* A step that leaves the rows and the counts alone, and only removes partitions.
LEMMA CountedFrame ==
  ASSUME Counted, TypeOK', UNCHANGED <<latest, count, nlogs>>, observed' => observed,
         Partition' \subseteq Partition, \A i \in Partition' : Held(i)' = Held(i)
  PROVE  Counted'
<1>1. \A i \in Partition' : count'[i] = SumLogs(nlogs', Held(i)')
  BY Zenon DEF Counted
<1>. QED  BY <1>1, Zenon DEF Counted

LEMMA PrepareCounted ==
  ASSUME IInv, Counted, preparePartition
  PROVE  Counted'
<1>1. /\ UNCHANGED <<oldest, count, bnMin, bnMax, height, nlogs, table, pruning, dropping, pc, lo, hi, parts, res, calm, pops>>
      /\ ready' = TRUE
  BY Zenon DEF preparePartition, blocks, reader
<1>2. \A i : Held(i)' = Held(i)
  BY <1>1, Zenon DEF Held
<1>3. CASE latest' = latest /\ tables' = tables /\ observed' = observed
  <2>1. TypeOK'
    BY <1>1, <1>3, Zenon DEF Counted, TypeOK
  <2>2. Partition' = Partition
    BY <1>1, <1>3, Zenon DEF Partition
  <2>. QED  BY <1>1, <1>2, <1>3, <2>1, <2>2, CountedFrame, Zenon
<1>4. CASE latest < LastIndex /\ latest' = latest + 1 /\ tables' = tables \cup {latest + 1} /\ observed' = TRUE
  <2>1. latest \in -1 .. LastIndex /\ oldest \in 0 .. LastIndex + 1
    BY Zenon DEF Counted, TypeOK
  <2>2. latest' \in -1 .. LastIndex /\ latest' \in Index /\ latest' >= 0 /\ latest' > latest
    BY ONLY <1>4, <2>1, LogPartitionsAssumption DEF Index
  <2>3. TypeOK'
    <3>1. tables' \subseteq Index
      BY <1>4, <2>2, Zenon DEF Counted, TypeOK
    <3>. QED  BY <1>1, <1>4, <2>2, <3>1, Zenon DEF Counted, TypeOK
  <2>4. \A i \in Partition' : i \in Partition \/ i = latest'
    BY ONLY <1>1, <1>4, <2>1 DEF Partition
  <2>5. \A i \in Index : i > latest' => i > latest
    BY ONLY <1>4, <2>1, LogPartitionsAssumption DEF Index
  <2>6. count[latest'] = 0 /\ SumLogs(nlogs, Held(latest')) = 0
    <3>1. \A b \in Bn : table[b] # latest'
      <4>1. \A b \in Bn : table[b] # Nil => table[b] <= latest
        BY Zenon DEF IInv, Rows
      <4>2. latest' # Nil /\ ~(latest' <= latest)
        BY ONLY <1>4, <2>1, LogPartitionsAssumption
      <4>. QED  BY <4>1, <4>2, Zenon
    <3>2. \A b \in Held(latest') : nlogs[b] = 0
      BY <3>1, Zenon DEF Held
    <3>. QED  BY <2>2, <3>2, RowsNone, Zenon DEF Counted
  <2>7. \A i \in Partition' : count'[i] = SumLogs(nlogs', Held(i)')
    BY <1>1, <1>2, <2>4, <2>6, Zenon DEF Counted
  <2>. QED  BY <1>1, <2>2, <2>3, <2>5, <2>7, Zenon DEF Counted
<1>. QED  BY <1>3, <1>4, Zenon DEF preparePartition

\* The logs that a batch adds are counted once, in the latest partition.
LEMMA AddCounted ==
  ASSUME IInv, Counted, Add
  PROVE  Counted'
<1>1. PICK n \in 1 .. MaxBatch :
        /\ height + n <= LastBn
        /\ \E logs \in [height + 1 .. height + n -> 0 .. MaxLogs] :
             /\ nlogs' = [b \in Bn |-> IF b \in DOMAIN logs THEN logs[b] ELSE nlogs[b]]
             /\ table' = [b \in Bn |-> IF b \in DOMAIN logs /\ logs[b] > 0 THEN latest ELSE table[b]]
             /\ count' = [count EXCEPT ![latest] = @ + SumLogs(logs, DOMAIN logs)]
        /\ expandBnRange(height + 1, height + n) /\ height' = height + n
  BY Zenon DEF Add
<1>2. PICK logs \in [height + 1 .. height + n -> 0 .. MaxLogs] :
        /\ nlogs' = [b \in Bn |-> IF b \in DOMAIN logs THEN logs[b] ELSE nlogs[b]]
        /\ table' = [b \in Bn |-> IF b \in DOMAIN logs /\ logs[b] > 0 THEN latest ELSE table[b]]
        /\ count' = [count EXCEPT ![latest] = @ + SumLogs(logs, DOMAIN logs)]
  BY <1>1, Zenon
<1>3. /\ UNCHANGED <<oldest, latest, tables, observed, pruning, dropping, pc, lo, hi, parts, res, calm, pops>>
      /\ ready /\ ready' = FALSE
  BY Zenon DEF Add, pruner, reader
<1>4. height \in -1 .. LastBn /\ latest \in -1 .. LastIndex /\ oldest \in Nat /\ oldest <= latest
  BY <1>3, Zenon DEF IInv, Types, Indexes
<1>5. latest \in Index /\ latest \in Partition
  BY ONLY <1>4, LogPartitionsAssumption DEF Index, Partition
<1>. DEFINE new == height + 1 .. height + n
            fresh == {b \in new : logs[b] > 0}
            stale == {b \in new : ~(logs[b] > 0)}
<1>6. DOMAIN logs = new /\ new \subseteq Bn /\ height' \in -1 .. LastBn /\ \A b \in new : ~(b <= height)
  <2>1. DOMAIN logs = new
    BY Zenon
  <2>2. new \subseteq Bn /\ \A b \in new : ~(b <= height)
    BY ONLY <1>1, <1>4, LogPartitionsAssumption, n \in 1 .. MaxBatch DEF Bn
  <2>3. height' \in -1 .. LastBn
    BY ONLY <1>1, <1>4, LogPartitionsAssumption, n \in 1 .. MaxBatch
  <2>. QED  BY <2>1, <2>2, <2>3, Zenon
<1>7. \A b \in new : logs[b] \in 0 .. MaxLogs /\ (~(logs[b] > 0) => logs[b] = 0)
  <2>1. \A b \in new : logs[b] \in 0 .. MaxLogs
    BY Zenon
  <2>2. \A x \in 0 .. MaxLogs : ~(x > 0) => x = 0
    BY LogPartitionsAssumption
  <2>. QED  BY <2>1, <2>2, Zenon
<1>. HIDE DEF new
<1>8. SumLogs(logs, new) = SumLogs(logs, fresh) /\ SumLogs(logs, new) \in Nat
  <2>1. new = fresh \cup stale /\ fresh \cap stale = {} /\ fresh \in SUBSET Bn /\ stale \in SUBSET Bn
    BY <1>6, Zenon
  <2>2. SumLogs(logs, stale) = 0
    BY <1>7, RowsNone, Zenon
  <2>. HIDE DEF fresh, stale
  <2>3. SumLogs(logs, new) = SumLogs(logs, fresh) + SumLogs(logs, stale) /\ SumLogs(logs, fresh) \in Nat
    BY <2>1, RowsSplit, RowsFinite, Zenon
  <2>. QED  BY ONLY <2>2, <2>3
<1>9. \A b \in new : table[b] \notin Partition
  <2>1. \A b \in Bn : table[b] \in Partition => b <= height
    BY Zenon DEF IInv, Rows
  <2>. QED  BY <1>6, <2>1, Zenon
<1>10. \A b \in Bn : /\ nlogs'[b] = IF b \in new THEN logs[b] ELSE nlogs[b]
                     /\ table'[b] = IF b \in fresh THEN latest ELSE table[b]
  BY <1>2, <1>6, Zenon
<1>11. ASSUME NEW i \in Partition, i # latest
       PROVE  count'[i] = SumLogs(nlogs', Held(i)')
  <2>1. Held(i)' = Held(i)
    BY <1>9, <1>10, <1>11, Zenon DEF Held
  <2>2. \A b \in Held(i) : nlogs'[b] = nlogs[b]
    BY <1>9, <1>10, Zenon DEF Held
  <2>3. SumLogs(nlogs', Held(i)) = SumLogs(nlogs, Held(i))
    BY <2>2, RowsSame, Zenon
  <2>4. i \in Index /\ count'[i] = count[i]
    BY <1>2, <1>11, Numbers, Zenon DEF IInv, Counted, TypeOK
  <2>. QED  BY <2>1, <2>3, <2>4, Zenon DEF Counted
<1>12. count'[latest] = SumLogs(nlogs', Held(latest)')
  <2>1. Held(latest)' = Held(latest) \cup fresh
    BY <1>3, <1>6, <1>9, <1>10, Zenon DEF Held
  <2>2. Held(latest) \cap fresh = {} /\ Held(latest) \in SUBSET Bn /\ fresh \in SUBSET Bn
    BY <1>5, <1>6, <1>9, Zenon DEF Held
  <2>3. SumLogs(nlogs', Held(latest)) = SumLogs(nlogs, Held(latest))
    <3>1. \A b \in Held(latest) : nlogs'[b] = nlogs[b]
      BY <1>5, <1>9, <1>10, Zenon DEF Held
    <3>. QED  BY <3>1, RowsSame, Zenon
  <2>4. SumLogs(nlogs', fresh) = SumLogs(logs, fresh)
    <3>1. \A b \in fresh : nlogs'[b] = logs[b]
      BY <1>6, <1>10, Zenon
    <3>. QED  BY <3>1, RowsSame, Zenon
  <2>. HIDE DEF fresh
  <2>5. SumLogs(nlogs', Held(latest) \cup fresh) = SumLogs(nlogs', Held(latest)) + SumLogs(nlogs', fresh)
    BY <2>2, RowsSplit, Zenon
  <2>6. count'[latest] = count[latest] + SumLogs(logs, new) /\ count[latest] = SumLogs(nlogs, Held(latest))
    BY <1>2, <1>5, <1>6, Zenon DEF Counted, TypeOK
  <2>. QED  BY <1>8, <2>1, <2>3, <2>4, <2>5, <2>6, Zenon
<1>13. TypeOK'
  <2>1. nlogs' \in [Bn -> 0 .. MaxLogs] /\ table' \in [Bn -> Index \cup {Nil}]
    <3>1. \A b \in Bn : nlogs'[b] \in 0 .. MaxLogs /\ table'[b] \in Index \cup {Nil}
      BY <1>5, <1>7, <1>10, Zenon DEF Counted, TypeOK
    <3>. QED  BY <1>2, <3>1, Zenon
  <2>2. count' \in [Index -> Nat]
    <3>1. count[latest] + SumLogs(logs, new) \in Nat
      <4>1. count[latest] \in Nat
        BY <1>5, Zenon DEF Counted, TypeOK
      <4>. QED  BY ONLY <1>8, <4>1
    <3>. QED  BY <1>2, <1>6, <3>1, Zenon DEF Counted, TypeOK
  <2>3. bnMin' \in [Index -> Bn \cup {Nil}] /\ bnMax' \in [Index -> Bn \cup {Nil}]
    <3>1. IInv'
      BY AddStep, Zenon
    <3>. QED  BY <3>1, Zenon DEF IInv, Types
  <2>. QED  BY <1>3, <1>6, <2>1, <2>2, <2>3, Zenon DEF Counted, TypeOK
<1>14. \A i \in Index : i > latest' => count'[i] = 0
  <2>1. \A i \in Index : i > latest => i # latest
    BY ONLY <1>4, LogPartitionsAssumption DEF Index
  <2>. QED  BY <1>2, <1>3, <2>1, Zenon DEF Counted, TypeOK
<1>15. Partition' = Partition
  BY <1>3, Zenon DEF Partition
<1>16. \A i \in Partition' : count'[i] = SumLogs(nlogs', Held(i)')
  BY <1>3, <1>11, <1>12, <1>15, Zenon
<1>. QED  BY <1>3, <1>13, <1>14, <1>16, Zenon DEF Counted

\* What a pop takes out of the tables it takes out of the counts.
LEMMA PopCounted ==
  ASSUME IInv, Counted, Popn
  PROVE  Counted'
<1>1. /\ UNCHANGED <<oldest, latest, tables, ready, observed, pruning, dropping, pc, lo, hi, parts, res>>
      /\ calm' = FALSE /\ pops < MaxPops /\ pops' = pops + 1
  BY Zenon DEF Popn, pruner, reader
<1>2. PICK b \in 1 .. height :
        /\ deltaUpdateCount(b)
        /\ table' = [c \in Bn |-> IF c >= b /\ table[c] \in Shrunk(b) THEN Nil ELSE table[c]]
        /\ nlogs' = [c \in Bn |-> IF c >= b THEN 0 ELSE nlogs[c]]
        /\ height' = b - 1
  BY Zenon DEF Popn
<1>3. Types /\ Ranges /\ Rows
  BY Zenon DEF IInv
<1>4. b \in Nat /\ height' \in -1 .. LastBn
  <2>1. height \in -1 .. LastBn
    BY <1>3, Zenon DEF Types
  <2>. QED  BY ONLY <1>2, <2>1, LogPartitionsAssumption
<1>5. Partition' = Partition /\ Partition \subseteq Index /\ Nil \notin Index /\ Bn \subseteq Nat
  BY <1>1, <1>3, Numbers, Zenon DEF Partition
<1>6. \A i \in Index : i \in Shrunk(b) <=> HasRange(i) /\ bnMax[i] >= b
  BY <1>3, <1>4, ShrunkAll, Zenon
<1>7. \A c \in Bn : /\ table'[c] = IF c >= b /\ table[c] \in Shrunk(b) THEN Nil ELSE table[c]
                    /\ nlogs'[c] = IF c >= b THEN 0 ELSE nlogs[c]
  BY <1>2, Zenon
<1>8. ASSUME NEW i \in Partition, i \notin Shrunk(b)
      PROVE  count'[i] = SumLogs(nlogs', Held(i)')
  <2>1. ASSUME NEW c \in Held(i) PROVE ~(c >= b)
    <3>1. HasRange(i) /\ c <= bnMax[i] /\ c \in Bn
      BY <1>3, Zenon DEF Held, Rows
    <3>2. ~(bnMax[i] >= b) /\ bnMax[i] \in Bn
      BY <1>3, <1>5, <1>6, <1>8, <3>1, Numbers, Zenon DEF Ranges, HasRange
    <3>3. c \in Nat /\ bnMax[i] \in Nat
      BY <1>5, <3>1, <3>2, Zenon
    <3>. QED  BY ONLY <1>4, <3>1, <3>2, <3>3
  <2>2. Held(i)' = Held(i)
    BY <1>5, <1>7, <1>8, Zenon DEF Held
  <2>3. \A c \in Held(i) : nlogs'[c] = nlogs[c]
    BY <1>7, <2>1, Zenon DEF Held
  <2>4. SumLogs(nlogs', Held(i)) = SumLogs(nlogs, Held(i))
    BY <2>3, RowsSame, Zenon
  <2>5. count'[i] = count[i]
    BY <1>2, <1>5, <1>8, Zenon DEF deltaUpdateCount
  <2>. QED  BY <2>2, <2>4, <2>5, Zenon DEF Counted
<1>9. ASSUME NEW i \in Partition, i \in Shrunk(b)
      PROVE  count'[i] = SumLogs(nlogs', Held(i)')
  <2>. DEFINE kept == {c \in Held(i) : ~(c >= b)}
              gone == Deleted(i, b)
  <2>1. Held(i)' = kept
    BY <1>5, <1>7, <1>9, Zenon DEF Held
  <2>2. Held(i) = kept \cup gone /\ kept \cap gone = {} /\ kept \in SUBSET Bn /\ gone \in SUBSET Bn
    BY Zenon DEF Held, Deleted
  <2>3. \A c \in kept : nlogs'[c] = nlogs[c]
    BY <1>7, Zenon DEF Held
  <2>4. count'[i] = Max({0, count[i] - SumLogs(nlogs, gone)})
    BY <1>2, <1>5, <1>9, Zenon DEF deltaUpdateCount
  <2>. HIDE DEF kept, gone
  <2>5. SumLogs(nlogs', kept) = SumLogs(nlogs, kept)
    BY <2>3, RowsSame, Zenon
  <2>6. /\ count[i] = SumLogs(nlogs, kept) + SumLogs(nlogs, gone)
        /\ SumLogs(nlogs, kept) \in Nat /\ SumLogs(nlogs, gone) \in Nat
    <3>1. count[i] = SumLogs(nlogs, Held(i))
      BY Zenon DEF Counted
    <3>2. SumLogs(nlogs, kept \cup gone) = SumLogs(nlogs, kept) + SumLogs(nlogs, gone)
      BY <2>2, RowsSplit, Zenon
    <3>3. SumLogs(nlogs, kept) \in Nat /\ SumLogs(nlogs, gone) \in Nat
      BY <2>2, RowsFinite, Zenon
    <3>. QED  BY <2>2, <3>1, <3>2, <3>3, Zenon
  <2>7. count[i] - SumLogs(nlogs, gone) = SumLogs(nlogs, kept)
    BY ONLY <2>6
  <2>8. Max({0, SumLogs(nlogs, kept)}) = SumLogs(nlogs, kept)
    BY ONLY <2>6, MaxZero
  <2>. QED  BY <2>1, <2>4, <2>5, <2>7, <2>8, Zenon
<1>10. \A i \in Partition' : count'[i] = SumLogs(nlogs', Held(i)')
  BY <1>5, <1>8, <1>9, Zenon
<1>11. TypeOK'
  <2>1. nlogs' \in [Bn -> 0 .. MaxLogs] /\ table' \in [Bn -> Index \cup {Nil}]
    <3>1. 0 \in 0 .. MaxLogs
      BY ONLY LogPartitionsAssumption
    <3>2. \A c \in Bn : nlogs'[c] \in 0 .. MaxLogs /\ table'[c] \in Index \cup {Nil}
      BY <1>7, <3>1, Zenon DEF Counted, TypeOK
    <3>. QED  BY <1>2, <3>2, Zenon
  <2>2. count' \in [Index -> Nat]
    <3>1. ASSUME NEW i \in Index PROVE count'[i] \in Nat
      <4>1. CASE i \in Shrunk(b)
        <5>1. i \in Partition
          BY <4>1, Zenon DEF Shrunk
        <5>2. count'[i] = SumLogs(nlogs', Held(i)') /\ Held(i)' \in SUBSET Bn
          BY <4>1, <5>1, <1>9, Zenon DEF Held
        <5>. QED  BY <5>2, RowsFinite, Zenon
      <4>2. CASE i \notin Shrunk(b)
        BY <1>2, <4>2, Zenon DEF deltaUpdateCount, Counted, TypeOK
      <4>. QED  BY <4>1, <4>2, Zenon
    <3>. QED  BY <1>2, <3>1, Zenon DEF deltaUpdateCount
  <2>3. bnMin' \in [Index -> Bn \cup {Nil}] /\ bnMax' \in [Index -> Bn \cup {Nil}]
    <3>1. IInv'
      BY PopStep, Zenon
    <3>. QED  BY <3>1, Zenon DEF IInv, Types
  <2>4. pops' \in 0 .. MaxPops
    <3>1. pops \in 0 .. MaxPops
      BY Zenon DEF Counted, TypeOK
    <3>. QED  BY ONLY <1>1, <3>1, LogPartitionsAssumption
  <2>. QED  BY <1>1, <1>4, <2>1, <2>2, <2>3, <2>4, Zenon DEF Counted, TypeOK
<1>12. \A i \in Index : i > latest' => count'[i] = 0
  <2>1. \A i \in Index : i > latest => i \notin Partition
    <3>1. latest \in -1 .. LastIndex /\ oldest \in 0 .. LastIndex + 1
      BY Zenon DEF Counted, TypeOK
    <3>. QED  BY ONLY <3>1, LogPartitionsAssumption DEF Index, Partition
  <2>2. \A i \in Index : i \notin Partition => count'[i] = count[i]
    BY <1>2, Zenon DEF deltaUpdateCount, Shrunk
  <2>. QED  BY <1>1, <2>1, <2>2, Zenon DEF Counted
<1>. QED  BY <1>1, <1>10, <1>11, <1>12, Zenon DEF Counted

\* A partition whose row is pruned is one the counts say nothing of.
LEMMA PruneRowCounted ==
  ASSUME IInv, Counted, PruneRow
  PROVE  Counted'
<1>1. /\ UNCHANGED <<latest, count, bnMin, bnMax, height, nlogs, table, tables, ready, observed, pruning, pc, lo, hi, parts, res, pops>>
      /\ calm' = FALSE /\ oldest' = oldest + 1 /\ dropping' = oldest /\ pruning # Nil
      /\ pruning - oldest > MaxArchive
  BY Zenon DEF PruneRow, blocks, reader
<1>2. /\ pruning \in Index /\ pruning <= latest
      /\ oldest \in 0 .. LastIndex + 1 /\ latest \in -1 .. LastIndex
  BY <1>1, Zenon DEF IInv, Indexes, Counted, TypeOK
<1>3. oldest' \in 0 .. LastIndex + 1 /\ dropping' \in Index /\ Partition' \subseteq Partition
  <2>1. oldest + 1 \in 0 .. LastIndex + 1 /\ oldest \in Index
    BY ONLY <1>1, <1>2, LogPartitionsAssumption DEF Index
  <2>2. Partition' \subseteq Partition
    BY ONLY <1>1, <1>2 DEF Partition
  <2>. QED  BY <1>1, <2>1, <2>2, Zenon
<1>4. TypeOK'
  BY <1>1, <1>3, Zenon DEF Counted, TypeOK
<1>5. \A i : Held(i)' = Held(i)
  BY <1>1, Zenon DEF Held
<1>. QED  BY <1>1, <1>3, <1>4, <1>5, CountedFrame, Zenon

\* The table that is dropped is not one of a partition.
LEMMA PruneTableCounted ==
  ASSUME IInv, Counted, PruneTable
  PROVE  Counted'
<1>1. /\ UNCHANGED <<oldest, latest, count, bnMin, bnMax, height, nlogs, ready, observed, pruning, pc, lo, hi, parts, res, calm, pops>>
      /\ dropping # Nil /\ dropping' = Nil /\ tables' = tables \ {dropping}
      /\ table' = [b \in Bn |-> IF table[b] = dropping THEN Nil ELSE table[b]]
  BY Zenon DEF PruneTable, router, reader
<1>2. dropping \in Index /\ dropping < oldest /\ oldest \in 0 .. LastIndex + 1 /\ latest \in -1 .. LastIndex
  BY <1>1, Zenon DEF IInv, Indexes, Counted, TypeOK
<1>3. dropping \notin Partition /\ Nil \notin Partition
  BY ONLY <1>2, LogPartitionsAssumption DEF Index, Partition
<1>4. Partition' = Partition
  BY <1>1, Zenon DEF Partition
<1>5. \A i \in Partition : Held(i)' = Held(i)
  BY <1>1, <1>3, Zenon DEF Held
<1>6. TypeOK'
  <2>1. table' \in [Bn -> Index \cup {Nil}]
    BY <1>1, Zenon DEF Counted, TypeOK
  <2>. QED  BY <1>1, <2>1, Zenon DEF Counted, TypeOK
<1>. QED  BY <1>1, <1>4, <1>5, <1>6, CountedFrame, Zenon

\* The steps that touch neither the router nor the tables nor the reader.
LEMMA QuietCounted ==
  ASSUME IInv, Counted, AddFails \/ Prune \/ PruneTableFails \/ PruneEnd \/ Restart \/ UNCHANGED vars
  PROVE  Counted'
<1>1. observed => latest \in Index
  <2>1. latest \in -1 .. LastIndex /\ (observed => latest >= 0)
    BY Zenon DEF Counted, TypeOK
  <2>2. latest \in -1 .. LastIndex /\ latest >= 0 => latest \in Index
    BY ONLY LogPartitionsAssumption DEF Index
  <2>. QED  BY <2>1, <2>2, Zenon
<1>2. /\ UNCHANGED <<oldest, latest, count, bnMin, bnMax, height, nlogs, table, tables, pc, lo, hi, parts, res, calm, pops>>
      /\ ready' \in BOOLEAN /\ observed' \in BOOLEAN /\ (observed' => observed)
      /\ pruning' \in Index \cup {Nil} /\ dropping' \in Index \cup {Nil}
  <2>1. CASE AddFails
    BY <2>1, Zenon DEF AddFails, router, blocks, reader, pruner, Counted, TypeOK
  <2>2. CASE Prune
    BY <1>1, <2>2, Zenon DEF Prune, router, blocks, reader, pruner, Counted, TypeOK
  <2>3. CASE PruneTableFails
    BY <2>3, Zenon DEF PruneTableFails, router, blocks, reader, pruner, Counted, TypeOK
  <2>4. CASE PruneEnd
    BY <2>4, Zenon DEF PruneEnd, router, blocks, reader, pruner, Counted, TypeOK
  <2>5. CASE Restart
    BY <2>5, Zenon DEF Restart, router, blocks, reader, pruner, Counted, TypeOK
  <2>6. CASE UNCHANGED vars
    BY <2>6, Zenon DEF vars, router, blocks, reader, pruner, Counted, TypeOK
  <2>. QED  BY <2>1, <2>2, <2>3, <2>4, <2>5, <2>6, Zenon
<1>3. TypeOK'
  BY <1>2, Zenon DEF Counted, TypeOK
<1>4. Partition' = Partition /\ \A i : Held(i)' = Held(i)
  BY <1>2, Zenon DEF Partition, Held
<1>. QED  BY <1>2, <1>3, <1>4, CountedFrame, Zenon

\* The reader changes nothing but its own state.
LEMMA ReaderCounted ==
  ASSUME IInv, Counted, GetLogs \/ searchRange \/ searchOverlapPartitions \/ QueryPart \/ Return
  PROVE  Counted'
<1>1. /\ UNCHANGED <<oldest, latest, count, bnMin, bnMax, height, nlogs, table, tables, ready, observed, pruning, dropping, pops>>
      /\ calm' \in BOOLEAN
  <2>1. CASE GetLogs
    BY <2>1, Zenon DEF GetLogs, router, blocks, pruner
  <2>2. CASE searchRange
    BY <2>2, Zenon DEF searchRange, Unmoved, router, blocks, pruner, Counted, TypeOK
  <2>3. CASE searchOverlapPartitions
    BY <2>3, Zenon DEF searchOverlapPartitions, Unmoved, router, blocks, pruner, Counted, TypeOK
  <2>4. CASE QueryPart
    BY <2>4, Zenon DEF QueryPart, Unmoved, router, blocks, pruner, Counted, TypeOK
  <2>5. CASE Return
    BY <2>5, Zenon DEF Return, Unmoved, router, blocks, pruner, Counted, TypeOK
  <2>. QED  BY <2>1, <2>2, <2>3, <2>4, <2>5, Zenon
<1>2. 0 \in Bn /\ Partition \subseteq Index
  <2>1. 0 \in Bn
    BY ONLY LogPartitionsAssumption DEF Bn
  <2>. QED  BY <2>1, Numbers, Zenon DEF IInv
<1>3. /\ pc' \in {"idle", "range", "search", "query", "done"}
      /\ lo' \in Bn /\ hi' \in Bn /\ parts' \subseteq Index /\ res' \subseteq Bn
  <2>1. Leave => /\ pc' \in {"idle", "range", "search", "query", "done"}
                 /\ lo' \in Bn /\ hi' \in Bn /\ parts' \subseteq Index /\ res' \subseteq Bn
    BY <1>2, Zenon DEF Leave
  <2>2. CASE GetLogs
    <3>1. height \in -1 .. LastBn /\ hi' \in 0 .. height /\ lo' \in 0 .. hi'
      BY <2>2, Zenon DEF GetLogs, Counted, TypeOK
    <3>2. hi' \in Bn /\ lo' \in Bn
      BY ONLY <3>1, LogPartitionsAssumption DEF Bn
    <3>. QED  BY <2>2, <3>2, Zenon DEF GetLogs
  <2>3. CASE searchRange
    BY <2>1, <2>3, Zenon DEF searchRange, Counted, TypeOK
  <2>4. CASE searchOverlapPartitions
    BY <1>2, <2>4, Zenon DEF searchOverlapPartitions, Counted, TypeOK
  <2>5. CASE QueryPart
    <3>1. lo \in Bn /\ hi \in Bn
      BY Zenon DEF Counted, TypeOK
    <3>2. lo .. hi \subseteq Bn
      BY ONLY <3>1, LogPartitionsAssumption DEF Bn
    <3>. QED  BY <2>1, <2>5, <3>2, Zenon DEF QueryPart, Counted, TypeOK
  <2>6. CASE Return
    BY <2>1, <2>6, Zenon DEF Return
  <2>. QED  BY <2>2, <2>3, <2>4, <2>5, <2>6, Zenon
<1>4. TypeOK'
  BY <1>1, <1>3, Zenon DEF Counted, TypeOK
<1>5. Partition' = Partition /\ \A i : Held(i)' = Held(i)
  BY <1>1, Zenon DEF Partition, Held
<1>. QED  BY <1>1, <1>4, <1>5, CountedFrame, Zenon

LEMMA NextCounted == IInv /\ Counted /\ [Next]_vars => Counted'
<1>. SUFFICES ASSUME IInv, Counted, [Next]_vars PROVE Counted'
  OBVIOUS
<1>1. CASE preparePartition \/ Add \/ Popn
  BY <1>1, PrepareCounted, AddCounted, PopCounted, Zenon
<1>2. CASE PruneRow \/ PruneTable
  BY <1>2, PruneRowCounted, PruneTableCounted, Zenon
<1>3. CASE AddFails \/ Prune \/ PruneTableFails \/ PruneEnd \/ Restart \/ UNCHANGED vars
  BY <1>3, QuietCounted, Zenon
<1>4. CASE GetLogs \/ searchRange \/ searchOverlapPartitions \/ QueryPart \/ Return
  BY <1>4, ReaderCounted, Zenon
<1>. QED  BY <1>1, <1>2, <1>3, <1>4, Zenon DEF Next

\* The variables of the writer, the pruner and the reader keep their types:
\* the pruner never takes up an index that no partition has had, and no row
\* names a table of none.
THEOREM TypesHold == Spec => []TypeOK
<1>1. Counted => TypeOK
  BY Zenon DEF Counted
<1>. QED  BY <1>1, InitIInv, NextIInv, InitCounted, NextCounted, PTL DEF Spec

\* The count that makes autoPartition open a new partition is the number of
\* logs in the table, after any batch, rollback, pop of many blocks and prune:
\* what deltaUpdateCount adds and subtracts is what the tables gain and lose.
THEOREM CountsHold == Spec => []CountsMatch
<1>1. Counted => CountsMatch
  BY Zenon DEF Counted, CountsMatch, Held
<1>. QED  BY <1>1, InitIInv, NextIInv, InitCounted, NextCounted, PTL DEF Spec
=============================================================================
