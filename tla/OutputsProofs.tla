------------------------------- MODULE OutputsProofs -------------------------------
(***************************************************************************)
(* What packs and readers at one path see of each other, for any number of *)
(* packs, readers and blocks, and a signal or a failure at every step.     *)
(***************************************************************************)
EXTENDS Outputs, TLAPS

\* A pack that has looked at the archive's path and has not ended.
Writers == {"looked", "created", "direct", "writing", "persist"}

\* The first blocks of the archive of one pack.
Filled(n, i) == [b \in 1 .. n |-> i]

Whole(i) == data[i] = Filled(Blocks, i)

\* A path that is a link stays one, and every pack that looked knows it.
PathInv ==
  /\ dest = "link" => node = Old
  /\ \A p \in Packs :
       /\ pc[p] \in Writers => (saw[p].kind = "link" <=> dest = "link")
       /\ pc[p] = "direct" => saw[p].kind = "link"
       /\ pc[p] \in {"created", "writing", "persist"} => saw[p].kind # "link"

\* A file takes the archive's place when its pack has written all of it.
Written(p) ==
  /\ pc[p] \in {"start", "looked", "created"} => written[p] = 0 /\ data[p] = <<>>
  /\ pc[p] = "writing" => data[p] = Filled(written[p], p)
  /\ pc[p] = "persist" => Whole(p)

WholeInv == (dest = "file" => Whole(node)) /\ \A p \in Packs : Written(p)

\* A reader has a whole file open, and has read it up to where it is.
ReadInv ==
  \A r \in Readers : reading[r].at # "idle" =>
    /\ dest = "file" /\ Whole(reading[r].node)
    /\ Len(reading[r].got) <= Blocks
    /\ reading[r].got = Filled(Len(reading[r].got), reading[r].node)
    /\ reading[r].at = "read" => Len(reading[r].got) = Blocks

\* Bytes written at a place in a file give a file.
LEMMA WriteAtType ==
  ASSUME NEW S, NEW d \in Seq(S), NEW k \in Nat \ {0}, NEW p \in S, Hole \in S
  PROVE  WriteAt(d, k, p) \in Seq(S)
<1> DEFINE n == IF k > Len(d) THEN k ELSE Len(d)
           w == [i \in 1 .. n |-> IF i = k THEN p ELSE IF i <= Len(d) THEN d[i] ELSE Hole]
<1>1. n \in Nat
  OBVIOUS
<1>2. \A i \in 1 .. n : w[i] \in S
  OBVIOUS
<1>3. w \in [1 .. n -> S]
  BY <1>2
<1>4. w \in Seq(S)
  BY <1>1, <1>3
<1>5. QED
  BY <1>4 DEF WriteAt

\* Writing on behind the blocks written so far, and reading on behind those read.
LEMMA FilledOn ==
  ASSUME NEW k \in Nat, NEW p
  PROVE  /\ WriteAt(Filled(k, p), k + 1, p) = Filled(k + 1, p)
         /\ Append(Filled(k, p), p) = Filled(k + 1, p)
         /\ Len(Filled(k, p)) = k
         /\ \A b \in 1 .. k : Filled(k, p)[b] = p
         /\ Filled(0, p) = <<>>
<1>1. Len(Filled(k, p)) = k /\ \A b \in 1 .. k : Filled(k, p)[b] = p
  BY DEF Filled
<1>2. Append(Filled(k, p), p) = Filled(k + 1, p)
  BY DEF Filled
<1>3. WriteAt(Filled(k, p), k + 1, p) = Filled(k + 1, p)
  <2>1. \A i \in 1 .. k + 1 : (IF i = k + 1 THEN p ELSE IF i <= k THEN Filled(k, p)[i] ELSE Hole) = p
    BY <1>1
  <2>2. WriteAt(Filled(k, p), k + 1, p)
          = [i \in 1 .. k + 1 |-> IF i = k + 1 THEN p ELSE IF i <= k THEN Filled(k, p)[i] ELSE Hole]
    BY <1>1 DEF WriteAt
  <2>3. QED
    BY <2>1, <2>2 DEF Filled
<1>4. Filled(0, p) = <<>>
  BY DEF Filled
<1>5. QED
  BY <1>1, <1>2, <1>3, <1>4

\* The type invariant, `TypeOK`.
THEOREM TypeCorrect == Spec => []TypeOK
<1> USE OutputsAssumption
<1>1. Init => TypeOK
  <2> SUFFICES ASSUME Init PROVE TypeOK
    OBVIOUS
  <2>1. [b \in 1 .. Blocks |-> Old] \in Seq(Inodes \cup {Hole})
    BY DEF Inodes
  <2>2. data \in [Inodes -> Seq(Inodes \cup {Hole})]
    BY <2>1 DEF Init
  <2>3. reading \in [Readers -> [node : Inodes, got : Seq(Inodes \cup {Hole}),
                                at : {"idle", "open", "read"}]]
    BY DEF Init, NotReading, Inodes
  <2>4. tree \subseteq Inodes
    BY DEF Init, Inodes
  <2>5. QED
    BY <2>2, <2>3, <2>4 DEF Init, TypeOK, States, Running, Kinds, Inodes
<1>2. TypeOK /\ [Next]_vars => TypeOK'
  <2> SUFFICES ASSUME TypeOK, [Next]_vars PROVE TypeOK'
    OBVIOUS
  <2> USE DEF TypeOK, destVars, Go
  <2>1. ASSUME NEW p \in Packs, LookArchive(p) PROVE TypeOK'
    <3>1. Found \in [kind : Kinds, mode : {"open", "private"}]
      BY DEF Found
    <3>2. QED
      BY <2>1, <3>1 DEF LookArchive, States, Running
  <2>2. ASSUME NEW p \in Packs, OpenStraight(p) PROVE TypeOK'
    BY <2>2 DEF OpenStraight, States, Running
  <2>3. ASSUME NEW p \in Packs, WriteBlock(p) PROVE TypeOK'
    <3>1. PICK f \in {Old, p} : data' = [data EXCEPT ![f] = WriteAt(data[f], written[p] + 1, p)]
      BY <2>3 DEF WriteBlock, Inodes
    <3>2. f \in Inodes /\ p \in Inodes \cup {Hole} /\ written[p] + 1 \in Nat \ {0}
      BY DEF Inodes
    <3>3. WriteAt(data[f], written[p] + 1, p) \in Seq(Inodes \cup {Hole})
      BY <3>2, WriteAtType
    <3>4. data' \in [Inodes -> Seq(Inodes \cup {Hole})]
      BY <3>1, <3>2, <3>3
    <3>5. written' \in [Packs -> 0 .. Blocks]
      BY <2>3 DEF WriteBlock
    <3>6. QED
      BY <2>3, <3>4, <3>5 DEF WriteBlock
  <2>4. ASSUME NEW p \in Packs,
               EndWrite(p) \/ CreateSibling(p) \/ Persist(p) \/ FailArchive(p) \/ Kill(p)
        PROVE  TypeOK'
    <3>1. CASE EndWrite(p) \/ Kill(p)
      BY <3>1 DEF EndWrite, Kill, States, Running
    <3>2. CASE CreateSibling(p)
      BY <3>2 DEF CreateSibling, States, Running
    <3>3. CASE Persist(p)
      BY <3>3 DEF Persist, States, Running, Kinds, Inodes
    <3>4. CASE FailArchive(p)
      BY <3>4 DEF FailArchive, Dropped, States, Running
    <3>5. QED
      BY <2>4, <3>1, <3>2, <3>3, <3>4
  <2>5. ASSUME NEW p \in Packs, CarryMode(p) PROVE TypeOK'
    <3>1. Carried(p) \in {"open", "private"} /\ p \in Inodes
      BY DEF Carried, Inodes
    <3>2. QED
      BY <2>5, <3>1 DEF CarryMode, States, Running
  <2>6. ASSUME NEW p \in Packs, CheckDir(p) PROVE TypeOK'
    <3>1. Found \in [kind : Kinds, mode : {"open", "private"}]
      BY DEF Found
    <3>2. {Old} \cup {q \in Packs : pc[q] \notin Running} \in SUBSET Inodes
      BY DEF Inodes
    <3>3. QED
      BY <2>6, <3>1, <3>2 DEF CheckDir, States, Running
  <2>7. ASSUME NEW p \in Packs, ClaimDir(p) \/ EndStage(p) PROVE TypeOK'
    BY <2>7 DEF ClaimDir, EndStage, States, Running, Kinds
  <2>8. ASSUME NEW p \in Packs, StageFile(p) PROVE TypeOK'
    BY <2>8 DEF StageFile, Inodes
  <2>9. ASSUME NEW r \in Readers, OpenArchive(r) PROVE TypeOK'
    BY <2>9 DEF OpenArchive
  <2>10. ASSUME NEW r \in Readers, ReadBlock(r) PROVE TypeOK'
    <3> DEFINE file == data[reading[r].node]
               k    == Len(reading[r].got)
    <3>1. file \in Seq(Inodes \cup {Hole}) /\ k \in Nat
      OBVIOUS
    <3>2. CASE k < Len(file) /\ reading' = [reading EXCEPT ![r].got = Append(@, file[k + 1])]
      <4>1. file[k + 1] \in Inodes \cup {Hole}
        BY <3>1, <3>2
      <4>2. Append(reading[r].got, file[k + 1]) \in Seq(Inodes \cup {Hole})
        BY <4>1
      <4>3. reading' = [reading EXCEPT ![r].got = Append(reading[r].got, file[k + 1])]
        BY <3>2
      <4> HIDE DEF file, k
      <4>4. QED
        BY <2>10, <4>2, <4>3 DEF ReadBlock
    <3>3. CASE reading' = [reading EXCEPT ![r].at = "read"]
      BY <2>10, <3>3 DEF ReadBlock
    <3>4. QED
      BY <2>10, <3>2, <3>3 DEF ReadBlock
  <2>11. CASE UNCHANGED vars
    BY <2>11 DEF vars
  <2>12. QED
    BY <2>1, <2>2, <2>3, <2>4, <2>5, <2>6, <2>7, <2>8, <2>9, <2>10, <2>11 DEF Next
<1>3. QED
  BY <1>1, <1>2, PTL DEF Spec

--------------------------------------------------------------------------------
\* What packs do to the path, the files and the reading ones.
LEMMA PathHolds == TypeOK /\ PathInv /\ [Next]_vars => PathInv'
<1> SUFFICES ASSUME TypeOK, PathInv, [Next]_vars PROVE PathInv'
  OBVIOUS
<1> USE DEF PathInv, Writers, Go, destVars
<1>1. ASSUME NEW p \in Packs, LookArchive(p) PROVE PathInv'
  BY <1>1 DEF LookArchive, Found, TypeOK
<1>2. ASSUME NEW p \in Packs, OpenStraight(p) PROVE PathInv'
  BY <1>2 DEF OpenStraight, WrittenStraight, TypeOK
<1>3. ASSUME NEW p \in Packs, CreateSibling(p) PROVE PathInv'
  BY <1>3 DEF CreateSibling, WrittenStraight, TypeOK
<1>4. ASSUME NEW p \in Packs, CarryMode(p) \/ WriteBlock(p) PROVE PathInv'
  BY <1>4 DEF CarryMode, WriteBlock, TypeOK
<1>5. ASSUME NEW p \in Packs, EndWrite(p) \/ FailArchive(p) PROVE PathInv'
  BY <1>5 DEF EndWrite, FailArchive, TypeOK
<1>6. ASSUME NEW p \in Packs, Persist(p) PROVE PathInv'
  BY <1>6 DEF Persist, TypeOK
<1>7. ASSUME NEW p \in Packs, CheckDir(p) PROVE PathInv'
  BY <1>7 DEF CheckDir, TypeOK
<1>8. ASSUME NEW p \in Packs, ClaimDir(p) PROVE PathInv'
  BY <1>8 DEF ClaimDir, TypeOK
<1>9. ASSUME NEW p \in Packs, StageFile(p) \/ EndStage(p) \/ Kill(p) PROVE PathInv'
  BY <1>9 DEF StageFile, EndStage, Kill, TypeOK
<1>10. ASSUME NEW r \in Readers, OpenArchive(r) \/ ReadBlock(r) PROVE PathInv'
  BY <1>10 DEF OpenArchive, ReadBlock
<1>11. CASE UNCHANGED vars
  BY <1>11 DEF vars
<1>12. QED
  BY <1>1, <1>2, <1>3, <1>4, <1>5, <1>6, <1>7, <1>8, <1>9, <1>10, <1>11 DEF Next

\* A whole file is written by nobody, and a path that is a file stays one.
LEMMA WholeStays ==
  ASSUME TypeOK, PathInv, WholeInv, [Next]_vars, dest = "file"
  PROVE  /\ dest' = "file"
         /\ \A i \in Inodes : Whole(i) => data'[i] = data[i]
<1>1. dest' = "file"
  BY DEF Next, vars, destVars, LookArchive, OpenStraight, CreateSibling, CarryMode, WriteBlock,
         EndWrite, Persist, FailArchive, CheckDir, ClaimDir, StageFile, EndStage, Kill,
         OpenArchive, ReadBlock
<1>2. ASSUME NEW p \in Packs, OpenStraight(p) PROVE FALSE
  BY <1>2 DEF OpenStraight, WrittenStraight, PathInv, Writers
<1>3. ASSUME NEW p \in Packs, WriteBlock(p), NEW i \in Inodes, Whole(i) PROVE data'[i] = data[i]
  <2>1. pc[p] = "writing" /\ written[p] < Blocks
    BY <1>3 DEF WriteBlock, PathInv, Writers
  <2>2. data' = [data EXCEPT ![p] = WriteAt(data[p], written[p] + 1, p)]
    BY <1>3, <2>1 DEF WriteBlock
  <2>3. i # p
    <3> SUFFICES ASSUME i = p PROVE FALSE
      OBVIOUS
    <3>1. Filled(written[p], p) = Filled(Blocks, p)
      BY <1>3, <2>1 DEF WholeInv, Written, Whole
    <3>2. Len(Filled(written[p], p)) = written[p] /\ Len(Filled(Blocks, p)) = Blocks
      BY FilledOn, OutputsAssumption DEF TypeOK
    <3>3. QED
      BY <2>1, <3>1, <3>2, OutputsAssumption DEF TypeOK
  <2>4. QED
    BY <2>2, <2>3 DEF TypeOK
<1>4. CASE \A p \in Packs : ~OpenStraight(p) /\ ~WriteBlock(p)
  <2>1. data' = data
    BY <1>4 DEF Next, vars, destVars, LookArchive, CreateSibling, CarryMode, EndWrite, Persist,
                FailArchive, CheckDir, ClaimDir, StageFile, EndStage, Kill, OpenArchive, ReadBlock
  <2>2. QED
    BY <1>1, <2>1
<1>5. QED
  BY <1>1, <1>2, <1>3, <1>4

\* The files are what their packs wrote.
LEMMA FilesHold == TypeOK /\ PathInv /\ WholeInv /\ [Next]_vars => WholeInv'
<1> SUFFICES ASSUME TypeOK, PathInv, WholeInv, [Next]_vars PROVE WholeInv'
  OBVIOUS
<1>1. ASSUME dest = "file", node' = node PROVE dest' = "file" /\ Whole(node)'
  BY <1>1, WholeStays DEF WholeInv, Whole, TypeOK
<1>2. ASSUME NEW q \in Packs, data'[q] = data[q], pc'[q] = pc[q], written'[q] = written[q]
      PROVE  Written(q)'
  BY <1>2 DEF WholeInv, Written, Whole
<1>3. ASSUME NEW p \in Packs, OpenStraight(p) PROVE WholeInv'
  <2>1. dest = "link" /\ node = Old
    BY <1>3 DEF OpenStraight, WrittenStraight, PathInv, Writers
  <2>2. data' = [data EXCEPT ![Old] = <<>>] /\ dest' = dest /\ written' = written
    BY <1>3, <2>1 DEF OpenStraight
  <2>3. \A q \in Packs : data'[q] = data[q]
    BY <2>2, OutputsAssumption DEF TypeOK
  <2>4. ASSUME NEW q \in Packs PROVE Written(q)'
    <3>1. CASE q = p
      BY <1>3, <3>1 DEF OpenStraight, Go, Written, TypeOK
    <3>2. CASE q # p
      BY <1>2, <1>3, <2>2, <2>3, <3>2 DEF OpenStraight, Go, TypeOK
    <3>3. QED
      BY <3>1, <3>2
  <2>5. QED
    BY <2>1, <2>2, <2>4 DEF WholeInv
<1>4. ASSUME NEW p \in Packs, WriteBlock(p) PROVE WholeInv'
  <2>1. CASE pc[p] = "direct"
    <3>1. dest = "link" /\ data' = [data EXCEPT ![Old] = WriteAt(data[Old], written[p] + 1, p)]
      BY <1>4, <2>1 DEF WriteBlock, PathInv, Writers
    <3>2. \A q \in Packs : data'[q] = data[q]
      BY <3>1, OutputsAssumption DEF TypeOK
    <3>3. ASSUME NEW q \in Packs PROVE Written(q)'
      <4>1. CASE q = p
        BY <1>4, <2>1, <4>1 DEF WriteBlock, Written
      <4>2. CASE q # p
        BY <1>2, <1>4, <3>2, <4>2 DEF WriteBlock, TypeOK
      <4>3. QED
        BY <4>1, <4>2
    <3>4. QED
      BY <1>4, <3>1, <3>3 DEF WriteBlock, WholeInv
  <2>2. CASE pc[p] = "writing"
    <3>1. data' = [data EXCEPT ![p] = WriteAt(data[p], written[p] + 1, p)]
      BY <1>4, <2>2 DEF WriteBlock
    <3>2. WriteAt(data[p], written[p] + 1, p) = Filled(written[p] + 1, p)
      <4>1. written[p] \in Nat /\ data[p] = Filled(written[p], p)
        BY <2>2, OutputsAssumption DEF WholeInv, Written, TypeOK
      <4>2. QED
        BY <4>1, FilledOn
    <3>3. Written(p)'
      BY <1>4, <2>2, <3>1, <3>2 DEF WriteBlock, TypeOK, Inodes, Written
    <3>4. ASSUME NEW q \in Packs \ {p} PROVE Written(q)'
      BY <1>2, <1>4, <3>1 DEF WriteBlock, TypeOK
    <3>5. dest' = dest /\ node' = node
      BY <1>4 DEF WriteBlock
    <3>6. QED
      BY <1>1, <3>3, <3>4, <3>5 DEF WholeInv
  <2>3. QED
    BY <1>4, <2>1, <2>2 DEF WriteBlock
<1>5. ASSUME NEW p \in Packs,
             \/ LookArchive(p) \/ CreateSibling(p) \/ CarryMode(p) \/ EndWrite(p) \/ FailArchive(p)
             \/ CheckDir(p) \/ ClaimDir(p) \/ StageFile(p) \/ EndStage(p) \/ Kill(p)
      PROVE  WholeInv'
  <2>1. /\ data' = data /\ node' = node /\ dest' \in {dest, "dir"}
        /\ \A q \in Packs \ {p} : pc'[q] = pc[q] /\ written'[q] = written[q]
    BY <1>5 DEF LookArchive, CreateSibling, CarryMode, EndWrite, FailArchive, CheckDir, ClaimDir,
                StageFile, EndStage, Kill, Go, destVars, TypeOK
  <2>2. Written(p)'
    <3>1. CASE LookArchive(p) \/ CreateSibling(p) \/ CarryMode(p)
      <4>1. /\ pc[p] \in {"start", "looked", "created"} /\ written'[p] = written[p]
            /\ pc'[p] \in {"looked", "created", "writing"}
        BY <3>1 DEF LookArchive, CreateSibling, CarryMode, Go, TypeOK
      <4>2. written[p] = 0 /\ data[p] = <<>>
        BY <4>1 DEF WholeInv, Written
      <4>3. QED
        BY <2>1, <4>1, <4>2, FilledOn DEF Written
    <3>2. CASE EndWrite(p)
      <4>1. /\ pc[p] \in {"direct", "writing"} /\ written[p] = Blocks
            /\ pc'[p] = IF pc[p] = "direct" THEN "done" ELSE "persist"
        BY <3>2 DEF EndWrite, Go, TypeOK
      <4>2. pc[p] = "writing" => data[p] = Filled(Blocks, p)
        BY <4>1 DEF WholeInv, Written
      <4>3. QED
        <5>1. pc'[p] = "done" \/ (pc'[p] = "persist" /\ data'[p] = Filled(Blocks, p))
          BY <2>1, <4>1, <4>2
        <5>2. QED
          BY <5>1 DEF Written, Whole
    <3>3. CASE FailArchive(p) \/ Kill(p) \/ CheckDir(p) \/ ClaimDir(p) \/ StageFile(p) \/ EndStage(p)
      <4>1. pc'[p] \in {"failed", "killed", "absent", "staging", "done"}
        BY <3>3 DEF FailArchive, Kill, CheckDir, ClaimDir, StageFile, EndStage, Go, TypeOK
      <4>2. QED
        BY <4>1 DEF Written
    <3>4. QED
      BY <1>5, <3>1, <3>2, <3>3
  <2>3. QED
    BY <1>1, <1>2, <2>1, <2>2 DEF WholeInv
<1>6. ASSUME NEW p \in Packs, Persist(p) PROVE WholeInv'
  <2>1. /\ data' = data /\ node' = p /\ Whole(p) /\ pc'[p] = "done"
        /\ \A q \in Packs \ {p} : pc'[q] = pc[q] /\ written'[q] = written[q]
    BY <1>6 DEF Persist, Go, TypeOK, WholeInv, Written
  <2>2. Written(p)' /\ Whole(node)'
    BY <2>1 DEF Written, Whole
  <2>3. QED
    BY <1>2, <2>1, <2>2 DEF WholeInv
<1>7. CASE UNCHANGED <<dest, node, data, pc, written>>
  BY <1>7, <1>2 DEF WholeInv, Whole
<1>8. QED
  BY <1>3, <1>4, <1>5, <1>6, <1>7 DEF Next, vars, destVars, OpenArchive, ReadBlock

\* What a reader got stays what it was to get.
LEMMA ReadingHolds ==
  TypeOK /\ PathInv /\ WholeInv /\ ReadInv /\ [Next]_vars => ReadInv'
<1> SUFFICES ASSUME TypeOK, PathInv, WholeInv, ReadInv, [Next]_vars, NEW r \in Readers,
                    reading'[r].at # "idle"
             PROVE  /\ dest' = "file" /\ Whole(reading[r].node)'
                    /\ Len(reading'[r].got) <= Blocks
                    /\ reading'[r].got = Filled(Len(reading'[r].got), reading'[r].node)
                    /\ reading'[r].at = "read" => Len(reading'[r].got) = Blocks
  BY DEF ReadInv
<1>1. CASE reading'[r] = reading[r]
  BY <1>1, WholeStays DEF ReadInv, Whole, TypeOK
<1>2. CASE OpenArchive(r)
  <2>1. /\ dest = "file" /\ dest' = dest /\ data' = data /\ Whole(node)
        /\ reading'[r] = [node |-> node, got |-> <<>>, at |-> "open"]
    BY <1>2 DEF OpenArchive, destVars, WholeInv, TypeOK
  <2>2. reading'[r].node = node /\ reading'[r].got = <<>> /\ reading'[r].at = "open"
    BY <2>1
  <2>3. Len(<<>>) = 0 /\ <<>> = Filled(0, node)
    BY FilledOn
  <2>4. Whole(reading[r].node)'
    BY <2>1, <2>2 DEF Whole
  <2>5. QED
    BY <2>1, <2>2, <2>3, <2>4, OutputsAssumption
<1>3. CASE ReadBlock(r)
  <2> PICK n \in Inodes, k \in Nat : n = reading[r].node /\ k = Len(reading[r].got)
    <3>1. reading[r].node \in Inodes /\ Len(reading[r].got) \in Nat
      BY DEF TypeOK
    <3>2. QED
      BY <3>1
  <2>1. /\ dest = "file" /\ dest' = dest /\ data' = data /\ data[n] = Filled(Blocks, n)
        /\ reading[r].got = Filled(k, n) /\ k \in Nat /\ k <= Blocks
    BY <1>3 DEF ReadBlock, ReadInv, Whole, destVars, TypeOK
  <2>2. Len(data[n]) = Blocks /\ \A b \in 1 .. Blocks : data[n][b] = n
    <3>1. Len(Filled(Blocks, n)) = Blocks /\ \A b \in 1 .. Blocks : Filled(Blocks, n)[b] = n
      BY FilledOn, OutputsAssumption
    <3>2. QED
      BY <2>1, <3>1
  <2>3. CASE k < Len(data[n]) /\ reading' = [reading EXCEPT ![r].got = Append(@, data[n][k + 1])]
    <3>1. /\ reading'[r].got = Append(reading[r].got, n)
          /\ reading'[r].node = n /\ reading'[r].at = "open"
      <4>1. data[n][k + 1] = n
        BY <2>1, <2>2, <2>3, OutputsAssumption
      <4>2. reading' = [reading EXCEPT ![r].got = Append(reading[r].got, n)]
        BY <2>3, <4>1
      <4>3. reading[r].at = "open"
        BY <1>3 DEF ReadBlock
      <4>4. QED
        BY <4>2, <4>3 DEF TypeOK
    <3>2. Append(Filled(k, n), n) = Filled(k + 1, n) /\ Len(Filled(k + 1, n)) = k + 1
      BY <2>1, FilledOn
    <3>3. reading'[r].got = Filled(k + 1, n) /\ Len(reading'[r].got) = k + 1
      BY <2>1, <3>1, <3>2
    <3>4. k + 1 <= Blocks
      BY <2>2, <2>3, OutputsAssumption
    <3>5. Whole(reading[r].node)'
      BY <2>1, <3>1 DEF Whole
    <3>6. QED
      BY <2>1, <3>1, <3>3, <3>4, <3>5
  <2>4. CASE k >= Len(data[n]) /\ reading' = [reading EXCEPT ![r].at = "read"]
    <3>1. reading'[r].got = reading[r].got /\ reading'[r].node = n
      BY <2>4 DEF TypeOK
    <3>2. k = Blocks
      BY <2>1, <2>2, <2>4, OutputsAssumption
    <3>3. QED
      BY <2>1, <3>1, <3>2, OutputsAssumption DEF Whole
  <2>5. QED
    BY <1>3, <2>3, <2>4 DEF ReadBlock
<1>4. QED
  BY <1>1, <1>2, <1>3 DEF Next, vars, destVars, LookArchive, OpenStraight, CreateSibling,
     CarryMode, WriteBlock, EndWrite, Persist, FailArchive, CheckDir, ClaimDir, StageFile,
     EndStage, Kill, OpenArchive, ReadBlock, TypeOK

\* The files and the readers agree, at every step.
THEOREM FilesAgree == Spec => [](PathInv /\ WholeInv /\ ReadInv)
<1>1. Init => PathInv /\ WholeInv /\ ReadInv
  <2> SUFFICES ASSUME Init PROVE PathInv /\ WholeInv /\ ReadInv
    OBVIOUS
  <2>1. PathInv /\ ReadInv
    BY DEF Init, PathInv, Writers, ReadInv, NotReading
  <2>2. Whole(node)
    BY DEF Init, Inodes, Whole, Filled
  <2>3. ASSUME NEW p \in Packs PROVE Written(p)
    <3>1. pc[p] = "start" /\ written[p] = 0
      BY DEF Init
    <3>2. data[p] = <<>>
      BY OutputsAssumption DEF Init, Inodes
    <3>3. QED
      BY <3>1, <3>2 DEF Written
  <2>4. QED
    BY <2>1, <2>2, <2>3 DEF WholeInv
<1>2. QED
  BY <1>1, TypeCorrect, PathHolds, FilesHold, ReadingHolds, PTL DEF Spec

\* A reader that reached the end of an archive has every block of one archive.
THEOREM WholeArchivesRead == Spec => []ReaderSeesWhole
<1>1. TypeOK /\ ReadInv => ReaderSeesWhole
  <2> SUFFICES ASSUME TypeOK, ReadInv, NEW r \in Readers, reading[r].at = "read"
               PROVE  \E i \in Inodes : reading[r].got = Filled(Blocks, i)
    BY DEF ReaderSeesWhole, Filled
  <2>1. reading[r].node \in Inodes
    BY DEF TypeOK
  <2>2. reading[r].got = Filled(Blocks, reading[r].node)
    BY DEF ReadInv
  <2>3. QED
    BY <2>1, <2>2
<1>2. QED
  BY <1>1, TypeCorrect, FilesAgree, PTL

--------------------------------------------------------------------------------
\* A path with a private archive has one at every moment, and every pack that looked knows it;
\* what it writes is as private.
PrivateInv ==
  mode[Old] = "private" =>
    /\ dest = "file" /\ mode[node] = "private"
    /\ \A p \in Packs :
         /\ pc[p] \in Writers => saw[p] = [kind |-> "file", mode |-> "private"]
         /\ pc[p] \in {"writing", "persist"} \/ data[p] # <<>> => mode[p] = "private"

\* No byte of an archive that replaces a private one is in a file others can read.
THEOREM PrivateStaysPrivate == Spec => []NeverLooser
<1>1. Init => PrivateInv
  BY OutputsAssumption DEF Init, PrivateInv, Writers, Inodes
<1>2. TypeOK /\ PathInv /\ PrivateInv /\ [Next]_vars => PrivateInv'
  <2> SUFFICES ASSUME TypeOK, PathInv, PrivateInv, [Next]_vars, mode'[Old] = "private"
               PROVE  PrivateInv'
    BY DEF PrivateInv
  <2> USE DEF PrivateInv, TypeOK, Go, Writers
  <2>1. mode[Old] = "private"
    <3>1. ASSUME NEW p \in Packs, CarryMode(p) PROVE mode'[Old] = mode[Old]
      BY <3>1, OutputsAssumption DEF CarryMode
    <3>2. CASE \A p \in Packs : ~CarryMode(p)
      BY <3>2 DEF Next, vars, destVars, LookArchive, OpenStraight, CreateSibling, WriteBlock,
         EndWrite, Persist, FailArchive, CheckDir, ClaimDir, StageFile, EndStage, Kill,
         OpenArchive, ReadBlock
    <3>3. QED
      BY <3>1, <3>2
  <2>2. ASSUME NEW p \in Packs, LookArchive(p) PROVE PrivateInv'
    <3>1. saw'[p] = [kind |-> "file", mode |-> "private"]
      BY <2>1, <2>2 DEF LookArchive, Found
    <3>2. QED
      BY <2>1, <2>2, <3>1 DEF LookArchive, destVars
  <2>3. ASSUME NEW p \in Packs, OpenStraight(p) PROVE FALSE
    BY <2>1, <2>3 DEF OpenStraight, WrittenStraight
  <2>4. ASSUME NEW p \in Packs, CarryMode(p) PROVE PrivateInv'
    <3>1. Carried(p) = "private"
      BY <2>1, <2>4 DEF CarryMode, Carried
    <3>2. mode' = [mode EXCEPT ![p] = "private"] /\ pc[p] = "created"
      BY <2>4, <3>1 DEF CarryMode
    <3>3. mode'[p] = "private" /\ \A i \in Inodes : mode[i] = "private" => mode'[i] = "private"
      BY <3>2 DEF Inodes
    <3>4. \A q \in Packs : q \in Inodes
      BY DEF Inodes
    <3>5. QED
      BY <2>1, <2>4, <3>3, <3>4 DEF CarryMode
  <2>5. ASSUME NEW p \in Packs, WriteBlock(p) PROVE PrivateInv'
    <3>1. pc[p] = "writing"
      BY <2>1, <2>5 DEF WriteBlock, PathInv
    <3>2. data' = [data EXCEPT ![p] = WriteAt(data[p], written[p] + 1, p)]
      BY <2>5, <3>1 DEF WriteBlock
    <3>3. QED
      BY <2>1, <2>5, <3>1, <3>2 DEF WriteBlock
  <2>6. ASSUME NEW p \in Packs, CreateSibling(p) \/ EndWrite(p) \/ FailArchive(p) PROVE PrivateInv'
    BY <2>1, <2>6 DEF CreateSibling, EndWrite, FailArchive, destVars
  <2>7. ASSUME NEW p \in Packs, Persist(p) PROVE PrivateInv'
    BY <2>1, <2>7 DEF Persist
  <2>8. ASSUME NEW p \in Packs, CheckDir(p) \/ ClaimDir(p) PROVE PrivateInv'
    BY <2>1, <2>8 DEF CheckDir, ClaimDir, destVars
  <2>9. ASSUME NEW p \in Packs, StageFile(p) \/ EndStage(p) \/ Kill(p) PROVE PrivateInv'
    BY <2>1, <2>9 DEF StageFile, EndStage, Kill, destVars
  <2>10. CASE UNCHANGED <<pc, saw, dest, node, mode, data>>
    BY <2>1, <2>10
  <2>11. QED
    BY <2>2, <2>3, <2>4, <2>5, <2>6, <2>7, <2>8, <2>9, <2>10
       DEF Next, vars, destVars, OpenArchive, ReadBlock
<1>3. PrivateInv => NeverLooser
  BY DEF PrivateInv, NeverLooser
<1>4. QED
  BY <1>1, <1>2, <1>3, TypeCorrect, FilesAgree, PTL DEF Spec

\* A sibling is of a pack that is writing it, or that a signal ended.
SiblingInv == \A p \in siblings : pc[p] \in {"created", "writing", "persist", "killed"}

\* Only a signal leaves a sibling beside the archive.
THEOREM SiblingsAreSwept == Spec => []SiblingsSwept
<1>1. Init => SiblingInv
  BY DEF Init, SiblingInv
<1>2. TypeOK /\ SiblingInv /\ [Next]_vars => SiblingInv'
  <2> SUFFICES ASSUME TypeOK, SiblingInv, [Next]_vars PROVE SiblingInv'
    OBVIOUS
  <2> USE DEF SiblingInv, TypeOK, Go
  <2>1. ASSUME NEW p \in Packs, LookArchive(p) \/ OpenStraight(p) \/ CreateSibling(p) \/ CarryMode(p)
        PROVE  SiblingInv'
    <3>1. CASE LookArchive(p) \/ OpenStraight(p)
      <4>1. siblings' = siblings /\ p \notin siblings /\ \A q \in Packs \ {p} : pc'[q] = pc[q]
        BY <3>1 DEF LookArchive, OpenStraight, destVars
      <4>2. QED
        BY <4>1
    <3>2. CASE CreateSibling(p) \/ CarryMode(p)
      <4>1. siblings' \subseteq siblings \cup {p} /\ \A q \in Packs \ {p} : pc'[q] = pc[q]
        BY <3>2 DEF CreateSibling, CarryMode
      <4>2. pc'[p] \in {"created", "writing"}
        BY <3>2 DEF CreateSibling, CarryMode
      <4>3. QED
        BY <4>1, <4>2
    <3>3. QED
      BY <2>1, <3>1, <3>2
  <2>2. ASSUME NEW p \in Packs, WriteBlock(p) \/ EndWrite(p) PROVE SiblingInv'
    <3>1. CASE WriteBlock(p)
      BY <3>1 DEF WriteBlock, destVars
    <3>2. CASE EndWrite(p)
      <4>1. p \in siblings => pc'[p] = "persist"
        BY <3>2 DEF EndWrite
      <4>2. siblings' = siblings /\ \A q \in Packs \ {p} : pc'[q] = pc[q]
        BY <3>2 DEF EndWrite, destVars
      <4>3. QED
        BY <4>1, <4>2
    <3>3. QED
      BY <2>2, <3>1, <3>2
  <2>3. ASSUME NEW p \in Packs, Persist(p) \/ FailArchive(p) \/ Kill(p) PROVE SiblingInv'
    <3>1. /\ siblings' \subseteq siblings
          /\ Kill(p) \/ siblings' \subseteq siblings \ {p}
          /\ \A q \in Packs \ {p} : pc'[q] = pc[q]
      BY <2>3 DEF Persist, FailArchive, Dropped, Kill, destVars
    <3>2. Kill(p) => pc'[p] = "killed"
      BY DEF Kill
    <3>3. QED
      BY <3>1, <3>2
  <2>4. ASSUME NEW p \in Packs, CheckDir(p) \/ ClaimDir(p) \/ StageFile(p) \/ EndStage(p)
        PROVE  SiblingInv'
    BY <2>4 DEF CheckDir, ClaimDir, StageFile, EndStage, destVars
  <2>5. CASE UNCHANGED <<pc, siblings>>
    BY <2>5
  <2>6. QED
    BY <2>1, <2>2, <2>3, <2>4, <2>5 DEF Next, vars, destVars, OpenArchive, ReadBlock
<1>3. SiblingInv => SiblingsSwept
  BY DEF SiblingInv, SiblingsSwept, Running
<1>4. QED
  BY <1>1, <1>2, <1>3, TypeCorrect, PTL DEF Spec

--------------------------------------------------------------------------------
\* Files are staged into a directory only; a pack that was over stays over, and none of its files
\* is where a pack that found it over stages, or is to.
MergeInv ==
  /\ tree # {} => dest = "dir"
  /\ \A p \in Packs :
       /\ pc[p] = "staging" => dest = "dir"
       /\ p \in tree => pc[p] # "start"
       /\ \A q \in Packs \cap ended[p] : pc[q] \notin Running
       /\ pc[p] \in {"absent", "staging"} \/ p \in tree => tree \cap ended[p] = {}

\* No file of a pack that was over when this one looked is in the tree it stages.
THEOREM NothingStaleStays == Spec => []NothingStaleIsMerged
<1>1. Init => MergeInv
  BY OutputsAssumption DEF Init, MergeInv
<1>2. TypeOK /\ MergeInv /\ [Next]_vars => MergeInv'
  <2> SUFFICES ASSUME TypeOK, MergeInv, [Next]_vars PROVE MergeInv'
    OBVIOUS
  <2> USE DEF MergeInv, TypeOK, Go, Running
  <2>1. ASSUME NEW p \in Packs, LookArchive(p) \/ OpenStraight(p) \/ CreateSibling(p) \/ CarryMode(p)
        PROVE  MergeInv'
    BY <2>1 DEF LookArchive, OpenStraight, CreateSibling, CarryMode, destVars
  <2>2. ASSUME NEW p \in Packs, WriteBlock(p) \/ EndWrite(p) \/ Persist(p) PROVE MergeInv'
    BY <2>2 DEF WriteBlock, EndWrite, Persist, destVars
  <2>3. ASSUME NEW p \in Packs, FailArchive(p) \/ Kill(p) \/ EndStage(p) PROVE MergeInv'
    BY <2>3 DEF FailArchive, Kill, EndStage, destVars
  <2>4. ASSUME NEW p \in Packs, CheckDir(p) PROVE MergeInv'
    BY <2>4, OutputsAssumption DEF CheckDir, EmptyDirectory, destVars
  <2>5. ASSUME NEW p \in Packs, ClaimDir(p) PROVE MergeInv'
    BY <2>5 DEF ClaimDir
  <2>6. ASSUME NEW p \in Packs, StageFile(p) PROVE MergeInv'
    BY <2>6 DEF StageFile, destVars
  <2>7. CASE UNCHANGED <<pc, dest, tree, ended>>
    BY <2>7
  <2>8. QED
    BY <2>1, <2>2, <2>3, <2>4, <2>5, <2>6, <2>7 DEF Next, vars, destVars, OpenArchive, ReadBlock
<1>3. TypeOK /\ MergeInv => NothingStaleIsMerged
  BY DEF MergeInv, NothingStaleIsMerged
<1>4. QED
  BY <1>1, <1>2, <1>3, TypeCorrect, PTL DEF Spec
================================================================================
