---------------------------- MODULE StorageProofs ----------------------------
(***************************************************************************)
(* A confirmed transaction stays in the journal and Open reads it back,    *)
(* Open tells every half-written state from damage, no process takes a     *)
(* whole frame away, and the file implements the list of AppendLog: for    *)
(* any number of processes, sizes, crashes, failures and losses of power.  *)
(* The end of every accepted job fits behind what is written, whatever     *)
(* sizes the jobs have and however many transactions are made.             *)
(***************************************************************************)
EXTENDS Journal, Reserve, TLAPS, SequenceTheorems, FiniteSetTheorems, WellFoundedInduction

-----------------------------------------------------------------------------
(* The inductive invariants.  The first is about handles and the file they hold. *)

Out == {"closed", "mkdir", "lock"}
Before == Out \cup {"create", "header", "entry", "check"}
Reading == {"scan", "truncate", "tail", "open", "write"}

Rising(r) == \A i \in DOMAIN r : \A j \in 0..i : EndOf(r, j) <= EndOf(r, i)

(* Size of the frame begun last, which is the one being written. *)
Newest == FrameSize + frames[Len(frames)].len

(* k bytes of the newest frame are in the file and the rest is still to be written. *)
Writing(p) ==
    LET k == off[p] - End(mem[p]) IN
    /\ frames # <<>> /\ frames[Len(frames)].seq = Len(mem[p]) + 1
    /\ k >= 0 /\ Len(buf[p]) = Newest - k
    /\ \A i \in 1..k : file[End(mem[p]) + i] = Byte(Len(frames), i)
    /\ \A i \in 1..Len(buf[p]) : buf[p][i] = Byte(Len(frames), k + i)

WritingHeader(p) ==
    /\ Len(file) = off[p] /\ Len(buf[p]) = HeaderSize - off[p]
    /\ \A i \in 1..off[p] : file[i] = Byte(0, i)
    /\ \A i \in 1..Len(buf[p]) : buf[p][i] = Byte(0, off[p] + i)

AtEnd(p) == pc[p] \in {"scan", "truncate", "tail"} \/ (pc[p] = "open" /\ ~poisoned[p])
AtLast(p) == pc[p] \in {"tail", "write"} \/ (pc[p] = "open" /\ ~poisoned[p])

Handle(p) ==
    /\ pc[p] \notin Out => owner = p
    /\ pc[p] \in Before => mem[p] = <<>>
    /\ pc[p] \in Out \cup {"create"} => off[p] = 0
    /\ pc[p] # "open" => ~poisoned[p]
    /\ pc[p] = "header" => WritingHeader(p)
    /\ pc[p] \in Reading => Holds(file, mem[p])
    /\ Indexed(mem[p]) /\ Rising(mem[p])
    /\ AtEnd(p) => off[p] = End(mem[p])
    /\ AtLast(p) => off[p] = Len(file)
    /\ pc[p] = "write" => Writing(p)

(* A journal that does not exist is empty and nobody has it open. *)
Fresh ==
    names.journal = "absent" =>
        file = <<>> /\ stable = <<>> /\ \A p \in Procs : pc[p] \in Out \cup {"create"}

HandleInv == TypeOK /\ Fresh /\ \A p \in Procs : Handle(p)

(* The second is about what is confirmed: it is in the file and on the device, and who reads the
   file comes across it. *)
SameUpTo(n) ==
    /\ n <= Len(file) /\ n <= Len(stable)
    /\ \A k \in 1..n : file[k] = stable[k]

Confirmed ==
    acked # <<>> => /\ Indexed(acked) /\ Rising(acked)
                    /\ Holds(file, acked) /\ SameUpTo(End(acked))

Finds(p) ==
    /\ pc[p] = "header" => acked = <<>>
    /\ \A i \in DOMAIN acked : i <= Len(mem[p]) => mem[p][i] = acked[i]
    /\ pc[p] \in Reading \ {"scan"} => Len(acked) <= Len(mem[p])

AckedInv == Confirmed /\ \A p \in Procs : Finds(p)

(* The third is about the end of the file on a device that keeps the order of writes: behind the
   frames that are whole there is at most the beginning of one of the frames fr.  A file that is
   being written is as its writer has it (Handle). *)
Chain(fr, r) ==
    \A i \in DOMAIN r : /\ r[i].frame \in DOMAIN fr
                        /\ fr[r[i].frame] = [seq |-> i, len |-> r[i].len]
                        /\ r[i].offset = EndOf(r, i - 1)

Begins(fr, b, at) ==
    \/ at = Len(b)
    \/ \E f \in DOMAIN fr : /\ Len(b) - at < FrameSize + fr[f].len
                            /\ \A i \in 1..Len(b) - at : b[at + i] = Byte(f, i)

Place == [frame : Nat, offset : Nat, len : Nat]

Reads(fr, b, r) ==
    /\ r \in Seq(Place) /\ Chain(fr, r) /\ Rising(r) /\ Holds(b, r)
    /\ End(r) <= Len(b) /\ Begins(fr, b, End(r))

Tidy(fr, b) == HeaderOK(b) => \E r : Reads(fr, b, r)

Starts(r, s) == Len(r) <= Len(s) /\ \A i \in DOMAIN r : r[i] = s[i]

TidyInv ==
    device = "ordered" =>
        /\ (\A p \in Procs : pc[p] \notin {"header", "write"}) => Tidy(frames, file)
        /\ Tidy(frames, stable)
        /\ \A p \in Procs : pc[p] = "scan" => \E r : Reads(frames, file, r) /\ Starts(mem[p], r)

(* The fourth is about the frames a reader finds: a process that cuts the file cuts no whole one,
   and those on the device are in the file. *)
WholeInv ==
    /\ losses \in Nat
    /\ \A p \in Procs : pc[p] = "truncate" => Torn(file, off[p])
    /\ IsPrefix(Whole(stable), Whole(file))

(* The fifth is about bytes: what the accepted jobs still need fits behind what is written. *)
JobRecords == [state : {"queued", "running", "cancelling"}, len : Nat]

(* The longest record a submission or output may make, and what a change of state has added. *)
Longest == MaxCommitBytes - MetadataReserve - 8192
Added(state) == IF state = "queued" THEN 0 ELSE IF state = "running" THEN 60 ELSE 80

AccountsInv ==
    /\ size \in Nat /\ size >= HeaderBytes
    /\ size + TerminalReserve(jobs) <= HardBytes
    /\ jobs \in Seq(JobRecords)
    /\ \A i \in DOMAIN jobs : jobs[i].len >= 1 /\ jobs[i].len <= Longest + Added(jobs[i].state)
    /\ Pending(jobs) <= MaxPending
    /\ \A i \in Active : \A k \in Active : i = k
    /\ paused \in BOOLEAN /\ denied = {}

-----------------------------------------------------------------------------
(* Steps: facts about sizes, entries and lists of entries. *)

LEMMA JournalConstants ==
    /\ HeaderSize \in Nat /\ PrefixSize \in Nat /\ FrameSize \in Nat /\ MaxPayload \in Nat
    /\ HeaderSize > 0 /\ PrefixSize > 0 /\ FrameSize > 0 /\ MaxPayload > 0
    /\ PrefixSize < FrameSize /\ NoProc \notin Procs
BY JournalAssumption

LEMMA Ends ==
    ASSUME NEW r \in Seq(Place)
    PROVE  /\ \A i \in 0..Len(r) : EndOf(r, i) \in Nat
           /\ End(r) \in Nat /\ Len(r) \in Nat /\ DOMAIN r = 1..Len(r)
<1>1. Len(r) \in Nat /\ DOMAIN r = 1..Len(r) OBVIOUS
<1>2. ASSUME NEW i \in 0..Len(r) PROVE EndOf(r, i) \in Nat
  <2>1. CASE i = 0 BY <2>1, JournalConstants DEF EndOf
  <2>2. CASE i # 0
    <3>1. i \in 1..Len(r) BY <1>1, <2>2
    <3>2. r[i] \in Place BY <3>1
    <3>3. r[i].offset \in Nat /\ r[i].len \in Nat BY <3>2 DEF Place
    <3> QED BY <2>2, <3>3, JournalConstants DEF EndOf
  <2> QED BY <2>1, <2>2
<1>3. End(r) \in Nat BY <1>1, <1>2 DEF End
<1> QED BY <1>1, <1>2, <1>3

(* No frame of a list lies behind its end, and the header is before it. *)
LEMMA Highest ==
    ASSUME NEW r \in Seq(Place), Rising(r)
    PROVE  \A i \in 0..Len(r) : EndOf(r, i) <= End(r)
<1>1. Len(r) \in Nat /\ DOMAIN r = 1..Len(r) BY Ends
<1>2. CASE Len(r) = 0
  <2>1. \A i \in 0..Len(r) : i = Len(r) BY <1>2
  <2>2. End(r) \in Nat BY Ends
  <2> QED BY <2>1, <2>2 DEF End
<1>3. CASE Len(r) # 0
  <2>1. Len(r) \in DOMAIN r BY <1>1, <1>3
  <2> QED BY <2>1 DEF Rising, End
<1> QED BY <1>2, <1>3

(* What holds the frames of r is decided up to the end of r. *)
LEMMA HoldsUpTo ==
    ASSUME NEW r \in Seq(Place), Rising(r), NEW b, NEW c, Len(b) \in Nat, Len(c) \in Nat,
           Holds(b, r), End(r) <= Len(c), \A k \in 1..End(r) : c[k] = b[k]
    PROVE  Holds(c, r)
<1>1. End(r) \in Nat /\ \A i \in 0..Len(r) : EndOf(r, i) \in Nat /\ EndOf(r, i) <= End(r)
  BY Ends, Highest
<1>2. EndOf(r, 0) = HeaderSize /\ 0 \in 0..Len(r) BY Ends DEF EndOf
<1>3. HeaderSize <= End(r) BY <1>1, <1>2
<1>4. HeaderOK(c)
  <2>1. HeaderSize \in Nat BY JournalConstants
  <2>2. \A i \in 1..HeaderSize : i \in 1..End(r) BY <2>1, <1>1, <1>3
  <2>3. \A i \in 1..HeaderSize : c[i] = Byte(0, i) BY <2>2 DEF Holds, HeaderOK
  <2>4. Len(c) >= HeaderSize BY <1>1, <1>3, <2>1
  <2> QED BY <2>3, <2>4 DEF HeaderOK
<1>5. ASSUME NEW i \in DOMAIN r PROVE Stored(r[i], c)
  <2>1. i \in 1..Len(r) /\ Len(r) \in Nat BY Ends
  <2>2. r[i] \in Place BY <2>1
  <2>3. r[i].offset \in Nat /\ r[i].len \in Nat BY <2>2 DEF Place
  <2>4. r[i].offset + FrameSize + r[i].len <= End(r) BY <1>1, <2>1 DEF EndOf
  <2>5. ASSUME NEW k \in 1..FrameSize + r[i].len PROVE c[r[i].offset + k] = Byte(r[i].frame, k)
    <3>1. r[i].offset + k \in 1..End(r)
      <4>1. End(r) \in Nat /\ FrameSize \in Nat BY <1>1, JournalConstants
      <4>2. k \in Nat /\ 1 <= k /\ k <= FrameSize + r[i].len BY <2>3, <4>1
      <4>3. r[i].offset + k <= r[i].offset + FrameSize + r[i].len BY <2>3, <4>1, <4>2
      <4>4. r[i].offset + k \in Nat /\ 1 <= r[i].offset + k BY <2>3, <4>2
      <4>5. r[i].offset + FrameSize + r[i].len \in Nat BY <2>3, <4>1, SMTT(30)
      <4> QED BY <2>4, <4>1, <4>3, <4>4, <4>5
    <3> QED BY <3>1 DEF Holds, Stored
  <2> QED BY <2>3, <2>4, <2>5, <1>1, JournalConstants DEF Stored
<1> QED BY <1>4, <1>5 DEF Holds

LEMMA AppendEnds ==
    ASSUME NEW r \in Seq(Place), NEW e \in Place
    PROVE  /\ Append(r, e) \in Seq(Place) /\ Len(Append(r, e)) = Len(r) + 1
           /\ \A i \in 0..Len(r) : EndOf(Append(r, e), i) = EndOf(r, i)
           /\ End(Append(r, e)) = e.offset + FrameSize + e.len
           /\ Append(r, e)[Len(r) + 1] = e
           /\ \A i \in 1..Len(r) : Append(r, e)[i] = r[i]
<1>1. Len(r) \in Nat BY Ends
<1>2. /\ Append(r, e) \in Seq(Place) /\ Len(Append(r, e)) = Len(r) + 1
      /\ Append(r, e)[Len(r) + 1] = e
      /\ \A i \in 1..Len(r) : Append(r, e)[i] = r[i]
  BY <1>1
<1>3. \A i \in 0..Len(r) : EndOf(Append(r, e), i) = EndOf(r, i) BY <1>1, <1>2 DEF EndOf
<1>4. End(Append(r, e)) = e.offset + FrameSize + e.len BY <1>1, <1>2 DEF EndOf, End
<1> QED BY <1>2, <1>3, <1>4

(* One more frame, right behind the others. *)
LEMMA AppendChains ==
    ASSUME NEW r \in Seq(Place), NEW e \in Place, Indexed(r), Rising(r), e.offset = End(r),
           frames[e.frame] = [seq |-> Len(r) + 1, len |-> e.len]
    PROVE  Indexed(Append(r, e)) /\ Rising(Append(r, e))
<1> DEFINE s == Append(r, e)
<1>1. /\ s \in Seq(Place) /\ Len(s) = Len(r) + 1 /\ s[Len(r) + 1] = e
      /\ \A i \in 1..Len(r) : s[i] = r[i]
      /\ \A i \in 0..Len(r) : EndOf(s, i) = EndOf(r, i)
      /\ End(s) = e.offset + FrameSize + e.len
  BY AppendEnds
<1>2. /\ Len(r) \in Nat /\ DOMAIN r = 1..Len(r) /\ DOMAIN s = 1..Len(r) + 1 /\ End(r) \in Nat
      /\ \A i \in 0..Len(r) : EndOf(r, i) \in Nat /\ EndOf(r, i) <= End(r)
  BY <1>1, Ends, Highest
<1>3. e.offset \in Nat /\ e.len \in Nat BY DEF Place
<1>4. EndOf(s, Len(r) + 1) = End(s) BY <1>1 DEF End
<1> HIDE DEF s
<1>5. ASSUME NEW i \in DOMAIN s
      PROVE  /\ frames[s[i].frame] = [seq |-> i, len |-> s[i].len]
             /\ s[i].offset = EndOf(s, i - 1)
             /\ \A j \in 0..i : EndOf(s, j) <= EndOf(s, i)
  <2>1. CASE i \in 1..Len(r)
    <3>1. /\ frames[r[i].frame] = [seq |-> i, len |-> r[i].len]
          /\ r[i].offset = EndOf(r, i - 1)
          /\ \A j \in 0..i : EndOf(r, j) <= EndOf(r, i)
      BY <2>1, <1>2 DEF Indexed, Rising
    <3>2. i - 1 \in 0..Len(r) /\ i \in 0..Len(r) /\ \A j \in 0..i : j \in 0..Len(r) BY <2>1, <1>2
    <3> QED BY <1>1, <2>1, <3>1, <3>2
  <2>2. CASE i = Len(r) + 1
    <3>1. i - 1 = Len(r) /\ Len(r) \in 0..Len(r) BY <2>2, <1>2
    <3>2. s[i].offset = EndOf(s, i - 1) BY <1>1, <2>2, <3>1 DEF End
    <3>3. ASSUME NEW j \in 0..i PROVE EndOf(s, j) <= EndOf(s, i)
      <4>1. CASE j \in 0..Len(r)
        <5>1. EndOf(s, j) <= e.offset /\ EndOf(s, j) \in Nat BY <4>1, <1>1, <1>2
        <5> QED BY <5>1, <1>1, <1>3, <1>4, <2>2, JournalConstants
      <4>2. CASE j = i
        <5>1. EndOf(s, i) \in Nat BY <1>1, <1>3, <1>4, <2>2, JournalConstants
        <5> QED BY <5>1, <4>2
      <4> QED BY <4>1, <4>2, <2>2, <1>2
    <3>4. frames[s[i].frame] = [seq |-> i, len |-> s[i].len] BY <1>1, <2>2
    <3> QED BY <3>2, <3>3, <3>4
  <2> QED BY <2>1, <2>2, <1>2
<1>6. Indexed(s) BY <1>5 DEF Indexed
<1>7. Rising(s) BY <1>5 DEF Rising
<1> QED BY <1>6, <1>7 DEF s

LEMMA AppendHolds ==
    ASSUME NEW r \in Seq(Place), NEW e \in Place, NEW b, Holds(b, r), Stored(e, b)
    PROVE  Holds(b, Append(r, e))
<1>1. /\ DOMAIN Append(r, e) = 1..Len(r) + 1 /\ Len(r) \in Nat /\ DOMAIN r = 1..Len(r)
      /\ Append(r, e)[Len(r) + 1] = e /\ \A i \in 1..Len(r) : Append(r, e)[i] = r[i]
  BY AppendEnds, Ends
<1>2. ASSUME NEW i \in DOMAIN Append(r, e) PROVE Stored(Append(r, e)[i], b)
  <2>1. CASE i \in 1..Len(r) BY <1>1, <2>1 DEF Holds
  <2>2. CASE i = Len(r) + 1 BY <1>1, <2>2
  <2> QED BY <1>1, <2>1, <2>2
<1> QED BY <1>2 DEF Holds

-----------------------------------------------------------------------------
(* Steps: what typed states are made of, and what one frame tells. *)

LEMMA Frames ==
    ASSUME TypeOK
    PROVE  /\ Len(frames) \in Nat /\ DOMAIN frames = 1..Len(frames)
           /\ \A f \in 1..Len(frames) : /\ frames[f].seq \in Nat /\ frames[f].len \in 1..MaxPayload
                                        /\ frames[f].len \in Nat
                                        /\ frames[f] = [seq |-> frames[f].seq, len |-> frames[f].len]
           /\ Seq(Entries) \subseteq Seq(Place) /\ Entries \subseteq Place
<1> DEFINE Begun == [seq : Nat, len : 1..MaxPayload]
<1>1. frames \in Seq(Begun) BY DEF TypeOK
<1> HIDE DEF Begun
<1>2. Len(frames) \in Nat /\ DOMAIN frames = 1..Len(frames) BY <1>1
<1>3. ASSUME NEW f \in 1..Len(frames)
      PROVE  /\ frames[f].seq \in Nat /\ frames[f].len \in 1..MaxPayload /\ frames[f].len \in Nat
             /\ frames[f] = [seq |-> frames[f].seq, len |-> frames[f].len]
  <2>1. frames[f] \in Begun BY <1>1
  <2> QED BY <2>1, JournalConstants DEF Begun
<1>4. Entries \subseteq Place BY <1>2, JournalConstants DEF Entries, Place
<1>5. Seq(Entries) \subseteq Seq(Place) BY <1>4
<1> QED BY <1>2, <1>3, <1>4, <1>5

LEMMA Parts ==
    ASSUME TypeOK, NEW p \in Procs
    PROVE  /\ off[p] \in Nat /\ off[p] <= Len(file)
           /\ mem[p] \in Seq(Entries) /\ mem[p] \in Seq(Place)
           /\ buf[p] \in Seq(Octets) /\ Len(buf[p]) \in Nat
           /\ Len(file) \in Nat /\ Len(stable) \in Nat
           /\ DOMAIN file = 1..Len(file) /\ DOMAIN stable = 1..Len(stable)
           /\ acked \in Seq(Place) /\ poisoned[p] \in BOOLEAN
<1>1. mem[p] \in Seq(Entries) /\ acked \in Seq(Entries) BY DEF TypeOK
<1>2. buf[p] \in Seq(Octets) /\ file \in Seq(Octets) /\ stable \in Seq(Octets) BY DEF TypeOK
<1>3. off[p] \in Nat /\ off[p] <= Len(file) /\ poisoned[p] \in BOOLEAN BY DEF TypeOK
<1>4. Len(buf[p]) \in Nat /\ Len(file) \in Nat /\ Len(stable) \in Nat
      /\ DOMAIN file = 1..Len(file) /\ DOMAIN stable = 1..Len(stable)
  BY <1>2
<1> QED BY <1>1, <1>2, <1>3, <1>4, Frames

LEMMA OctetParts ==
    ASSUME NEW b \in Seq(Octets), NEW i \in 1..Len(b)
    PROVE  b[i].of \in 0..Len(frames) /\ b[i].at \in Nat /\ b[i] \in Octets
<1>1. b[i] \in Octets OBVIOUS
<1> QED BY <1>1 DEF Octets

(* What is whole at a place is an entry that is stored there. *)
LEMMA CompleteEntry ==
    ASSUME TypeOK, NEW b \in Seq(Octets), NEW at \in Nat, Complete(b, at)
    PROVE  LET f == FrameAt(b, at) e == Entry(f, at) IN
           /\ f \in 1..Len(frames) /\ e \in Entries /\ Stored(e, b)
           /\ e.frame = f /\ e.offset = at /\ e.len = frames[f].len
           /\ SizeAt(b, at) = FrameSize + e.len /\ SizeAt(b, at) \in Nat
           /\ at + SizeAt(b, at) <= Len(b)
<1> DEFINE f == FrameAt(b, at)  e == Entry(f, at)
<1>1. Len(b) \in Nat BY DEF Octets
<1>2. at + 1 \in 1..Len(b) BY <1>1, JournalConstants DEF Complete, Left
<1>3. f \in 0..Len(frames) BY <1>2, OctetParts DEF FrameAt
<1>4. f # 0 BY DEF Complete, PrefixOK
<1>5. f \in 1..Len(frames) BY <1>3, <1>4, Frames
<1>6. frames[f].len \in 1..MaxPayload /\ frames[f].len \in Nat BY <1>5, Frames
<1>7. e.frame = f /\ e.offset = at /\ e.len = frames[f].len BY DEF Entry
<1>8. e \in Entries BY <1>5, <1>6, Frames DEF Entry, Entries
<1>9. SizeAt(b, at) = FrameSize + e.len BY <1>7 DEF SizeAt
<1> HIDE DEF f, e
<1>10. SizeAt(b, at) \in Nat BY <1>6, <1>7, <1>9, JournalConstants
<1>11. at + SizeAt(b, at) <= Len(b) BY <1>1, <1>10 DEF Complete, Left
<1>12. at + FrameSize + e.len <= Len(b) BY <1>6, <1>7, <1>9, <1>11, JournalConstants
<1>13. \A i \in 1..FrameSize + e.len : b[at + i] = Byte(f, i) BY <1>9 DEF Complete, f
<1>14. Stored(e, b) BY <1>7, <1>12, <1>13 DEF Stored
<1> QED BY <1>5, <1>7, <1>8, <1>9, <1>10, <1>11, <1>14 DEF f, e

(* Frames begun later take nothing from a list. *)
LEMMA IndexedKeeps ==
    ASSUME TypeOK, NEW r \in Seq(Entries), Indexed(r), \A f \in 1..Len(frames) : frames'[f] = frames[f]
    PROVE  \A i \in DOMAIN r : /\ frames'[r[i].frame] = [seq |-> i, len |-> r[i].len]
                               /\ r[i].offset = EndOf(r, i - 1)
<1> TAKE i \in DOMAIN r
<1>1. r[i] \in Entries OBVIOUS
<1>2. r[i].frame \in 1..Len(frames) BY <1>1, Frames DEF Entries
<1> QED BY <1>2 DEF Indexed

(* The frame that has been written and is synced. *)
LEMMA Written ==
    ASSUME TypeOK, NEW p \in Procs, Handle(p), pc[p] = "write", buf[p] = <<>>
    PROVE  LET e == LastEntry(p) IN
           /\ e.frame = Len(frames) /\ e.offset = End(mem[p]) /\ e.len = frames[Len(frames)].len
           /\ e \in Entries /\ Stored(e, file)
           /\ off[p] = e.offset + FrameSize + e.len /\ off[p] = Len(file)
           /\ frames[e.frame] = [seq |-> Len(mem[p]) + 1, len |-> e.len]
<1> DEFINE f == Len(frames)  n == frames[f].len  e == LastEntry(p)  a == End(mem[p])
<1>1. Writing(p) /\ off[p] = Len(file) BY DEF Handle, AtLast
<1>2. a \in Nat BY Parts, Ends
<1>3. f \in Nat /\ f \in 1..Len(frames)
  <2>1. frames # <<>> BY <1>1 DEF Writing
  <2> QED BY <2>1, Frames
<1>4. n \in 1..MaxPayload /\ n \in Nat BY <1>3, Frames
<1>5. off[p] - a >= 0 /\ Len(buf[p]) = Newest - (off[p] - a) BY <1>1 DEF Writing
<1>6. Len(buf[p]) = 0 /\ off[p] \in Nat BY Parts
<1>7. Newest = FrameSize + n BY DEF Newest
<1> HIDE DEF n, f, a
<1>8. off[p] - a = FrameSize + n /\ off[p] = a + FrameSize + n
  BY <1>2, <1>4, <1>5, <1>6, <1>7, JournalConstants
<1>9. \A i \in 1..FrameSize + n : file[a + i] = Byte(f, i) BY <1>1, <1>8 DEF Writing, a, f
<1>10. file[off[p]] = Byte(f, FrameSize + n)
  <2>1. FrameSize + n \in 1..FrameSize + n BY <1>4, JournalConstants
  <2>2. file[a + (FrameSize + n)] = Byte(f, FrameSize + n) BY <1>9, <2>1
  <2>3. a + (FrameSize + n) = off[p] BY <1>2, <1>4, <1>8, JournalConstants
  <2> QED BY <2>2, <2>3
<1>11. file[off[p]].of = f BY <1>10 DEF Byte
<1>12. e = Entry(f, off[p] - FrameSize - n) BY <1>11 DEF LastEntry, n
<1>13. off[p] - FrameSize - n = a BY <1>2, <1>4, <1>8, JournalConstants
<1>14. e.frame = f /\ e.offset = a /\ e.len = n BY <1>12, <1>13 DEF Entry, n
<1>15. e \in Entries BY <1>2, <1>3, <1>4, <1>12, <1>13, Frames DEF Entry, Entries, n
<1>16. a + FrameSize + n <= Len(file) BY <1>1, <1>6, <1>8
<1> HIDE DEF e
<1>17. Stored(e, file) BY <1>9, <1>14, <1>16 DEF Stored
<1>18. frames[f] = [seq |-> Len(mem[p]) + 1, len |-> n]
  <2>1. frames[f].seq = Len(mem[p]) + 1 BY <1>1 DEF Writing, f
  <2> QED BY <2>1, <1>3, Frames DEF n
<1> QED BY <1>1, <1>8, <1>14, <1>15, <1>17, <1>18 DEF e, f, n, a

-----------------------------------------------------------------------------
(* Steps: types. *)

LEMMA SameSets ==
    ASSUME UNCHANGED frames
    PROVE  Octets' = Octets /\ Entries' = Entries
BY DEF Octets, Entries

LEMMA HeaderType == TypeOK => Header \in Seq(Octets) /\ Len(Header) = HeaderSize
<1> SUFFICES ASSUME TypeOK PROVE Header \in Seq(Octets) /\ Len(Header) = HeaderSize
  OBVIOUS
<1>1. \A i \in 1..HeaderSize : Byte(0, i) \in Octets
  BY Frames, JournalConstants DEF Byte, Octets
<1>2. HeaderSize \in Nat BY JournalConstants
<1> QED BY <1>1, <1>2 DEF Header

(* A process that leaves, and a place that is changed, break no type. *)
LEMMA LeaveType ==
    ASSUME TypeOK, NEW p \in Procs, Leave(p), UNCHANGED <<names, file, stable, frames, acked>>
    PROVE  TypeOK'
<1>1. Octets' = Octets /\ Entries' = Entries BY SameSets
<1>2. Len(file) \in Nat BY Parts
<1> QED BY <1>1, <1>2 DEF TypeOK, Leave, Go

LEMMA OpenType ==
    ASSUME TypeOK, NEW p \in Procs,
           MkdirAll(p) \/ syncParent(p) \/ lockDirectory(p) \/ openFile(p) \/ headerSync(p)
              \/ syncDirectory(p) \/ readHeader(p) \/ endScan(p) \/ tailSync(p)
    PROVE  TypeOK'
<1>1. CASE MkdirAll(p)
  <2>1. Octets' = Octets /\ Entries' = Entries BY <1>1, SameSets DEF MkdirAll
  <2> QED BY <1>1, <2>1 DEF TypeOK, MkdirAll, Go
<1>2. CASE syncParent(p)
  <2>1. Octets' = Octets /\ Entries' = Entries BY <1>2, SameSets DEF syncParent
  <2> QED BY <1>2, <2>1 DEF TypeOK, syncParent, Go
<1>3. CASE lockDirectory(p)
  <2>1. Octets' = Octets /\ Entries' = Entries BY <1>3, SameSets DEF lockDirectory
  <2> QED BY <1>3, <2>1 DEF TypeOK, lockDirectory, Go
<1>4. CASE openFile(p)
  <2>1. Octets' = Octets /\ Entries' = Entries BY <1>4, SameSets DEF openFile
  <2>2. Header \in Seq(Octets) BY HeaderType
  <2>3. names' \in [{"dir", "journal"} -> {"absent", "volatile", "durable"}] BY <1>4 DEF TypeOK, openFile
  <2>4. buf' \in [Procs -> Seq(Octets)] BY <1>4, <2>2 DEF TypeOK, openFile
  <2>5. pc' \in [Procs -> {"closed", "mkdir", "lock", "create", "header", "entry", "check", "scan",
                            "truncate", "tail", "open", "write"}]
    BY <1>4 DEF TypeOK, openFile, Go
  <2>6. UNCHANGED <<file, stable, owner, off, mem, poisoned, frames, acked>> BY <1>4 DEF openFile
  <2> QED BY <2>1, <2>3, <2>4, <2>5, <2>6 DEF TypeOK
<1>5. CASE headerSync(p)
  <2>1. Octets' = Octets /\ Entries' = Entries BY <1>5, SameSets DEF headerSync
  <2> QED BY <1>5, <2>1 DEF TypeOK, headerSync, Go
<1>6. CASE syncDirectory(p)
  <2>1. Octets' = Octets /\ Entries' = Entries BY <1>6, SameSets DEF syncDirectory
  <2> QED BY <1>6, <2>1 DEF TypeOK, syncDirectory, Go
<1>7. CASE readHeader(p)
  <2>1. Octets' = Octets /\ Entries' = Entries BY <1>7, SameSets DEF readHeader
  <2>2. HeaderSize \in Nat /\ HeaderSize <= Len(file) BY <1>7, JournalConstants, Parts DEF readHeader, HeaderOK
  <2> QED BY <1>7, <2>1, <2>2 DEF TypeOK, readHeader, Go
<1>8. CASE endScan(p)
  <2>1. Octets' = Octets /\ Entries' = Entries BY <1>8, SameSets DEF endScan
  <2> QED BY <1>8, <2>1 DEF TypeOK, endScan, Go
<1>9. CASE tailSync(p)
  <2>1. Octets' = Octets /\ Entries' = Entries BY <1>9, SameSets DEF tailSync
  <2> QED BY <1>9, <2>1 DEF TypeOK, tailSync, Go
<1> QED BY <1>1, <1>2, <1>3, <1>4, <1>5, <1>6, <1>7, <1>8, <1>9

(* A piece that is written at the end of the file. *)
LEMMA WriteGrows ==
    ASSUME TypeOK, NEW p \in Procs, writeFull(p), off[p] = Len(file)
    PROVE  /\ file' \in Seq(Octets) /\ Len(file') = Len(file) + 1
           /\ file'[Len(file) + 1] = buf[p][1]
           /\ \A i \in 1..Len(file) : file'[i] = file[i]
           /\ off'[p] = off[p] + 1 /\ buf'[p] \in Seq(Octets) /\ Len(buf'[p]) = Len(buf[p]) - 1
           /\ \A i \in 1..Len(buf'[p]) : buf'[p][i] = buf[p][i + 1]
           /\ Len(buf[p]) > 0
<1>1. buf[p] \in Seq(Octets) /\ buf[p] # <<>> /\ Len(file) \in Nat /\ off[p] \in Nat /\ file \in Seq(Octets)
  BY Parts DEF writeFull, TypeOK
<1>2. /\ Len(buf[p]) \in Nat /\ Len(buf[p]) > 0 /\ Head(buf[p]) = buf[p][1] /\ Head(buf[p]) \in Octets
      /\ Tail(buf[p]) \in Seq(Octets) /\ Len(Tail(buf[p])) = Len(buf[p]) - 1
      /\ \A i \in 1..Len(Tail(buf[p])) : Tail(buf[p])[i] = buf[p][i + 1]
  BY <1>1
<1>3. off' = [off EXCEPT ![p] = off[p] + 1] /\ buf' = [buf EXCEPT ![p] = Tail(buf[p])] BY DEF writeFull
<1>4. off'[p] = off[p] + 1 /\ buf'[p] = Tail(buf[p]) BY <1>3 DEF TypeOK
<1>5. file' = [i \in 1..Len(file) + 1 |-> IF i = Len(file) + 1 THEN Head(buf[p])
                                          ELSE IF i > Len(file) THEN Hole ELSE file[i]]
  BY <1>1 DEF writeFull
<1>6. Len(file) + 1 \in Nat /\ Len(file) + 1 \in 1..Len(file) + 1 BY <1>1
<1>7. ASSUME NEW i \in 1..Len(file) PROVE i \in 1..Len(file) + 1 /\ i # Len(file) + 1 /\ ~(i > Len(file))
  BY <1>1
<1>8. file'[Len(file) + 1] = buf[p][1] BY <1>2, <1>5, <1>6
<1>9. \A i \in 1..Len(file) : file'[i] = file[i] BY <1>5, <1>7
<1>10. \A i \in 1..Len(file) + 1 : file'[i] \in Octets
  <2> TAKE i \in 1..Len(file) + 1
  <2>1. CASE i = Len(file) + 1 BY <2>1, <1>2, <1>8
  <2>2. CASE i \in 1..Len(file)
    <3>1. file[i] \in Octets BY <2>2, <1>1
    <3> QED BY <2>2, <3>1, <1>9
  <2> QED BY <2>1, <2>2, <1>1
<1>11. file' \in Seq(Octets) /\ Len(file') = Len(file) + 1
  <2>1. DOMAIN file' = 1..Len(file) + 1 /\ file' = [i \in 1..Len(file) + 1 |-> file'[i]] BY <1>5
  <2> QED BY <2>1, <1>6, <1>10
<1> QED BY <1>2, <1>4, <1>8, <1>9, <1>11

LEMMA WriteType ==
    ASSUME TypeOK, NEW p \in Procs, \A q \in Procs : Handle(q), writeFull(p)
    PROVE  TypeOK' /\ off[p] = Len(file)
<1>1. off[p] = Len(file)
  <2>1. CASE pc[p] = "header" BY <2>1 DEF Handle, WritingHeader
  <2>2. CASE pc[p] = "write" BY <2>2 DEF Handle, AtLast
  <2> QED BY <2>1, <2>2 DEF writeFull
<1>2. Octets' = Octets /\ Entries' = Entries BY SameSets DEF writeFull
<1>3. /\ file' \in Seq(Octets) /\ Len(file') = Len(file) + 1
      /\ off'[p] = off[p] + 1 /\ buf'[p] \in Seq(Octets)
  BY <1>1, WriteGrows
<1>4. off' \in [Procs -> Nat] /\ buf' \in [Procs -> Seq(Octets)]
  <2>1. off' = [off EXCEPT ![p] = off'[p]] /\ buf' = [buf EXCEPT ![p] = buf'[p]]
    BY DEF writeFull, TypeOK
  <2>2. off'[p] \in Nat BY <1>3, Parts
  <2> QED BY <2>1, <2>2, <1>3 DEF TypeOK
<1>5. \A q \in Procs : off'[q] <= Len(file')
  <2> TAKE q \in Procs
  <2>1. off[q] \in Nat /\ Len(file) \in Nat /\ off[q] <= Len(file) BY Parts
  <2>2. CASE q = p BY <2>1, <2>2, <1>1, <1>3
  <2>3. CASE q # p
    <3>1. off'[q] = off[q] BY <2>3 DEF writeFull, TypeOK
    <3> QED BY <3>1, <2>1, <1>3
  <2> QED BY <2>2, <2>3
<1> QED BY <1>1, <1>2, <1>3, <1>4, <1>5 DEF TypeOK, writeFull

LEMMA ReadType ==
    ASSUME TypeOK, NEW p \in Procs, readFrame(p)
    PROVE  TypeOK'
<1>1. Octets' = Octets /\ Entries' = Entries BY SameSets DEF readFrame
<1> DEFINE e == Entry(FrameAt(file, off[p]), off[p])
<1>2. off[p] \in Nat /\ mem[p] \in Seq(Entries) /\ file \in Seq(Octets) /\ Len(file) \in Nat BY Parts DEF TypeOK
<1>3. Complete(file, off[p]) BY DEF readFrame
<1>4. e \in Entries /\ SizeAt(file, off[p]) \in Nat /\ off[p] + SizeAt(file, off[p]) <= Len(file)
  BY <1>2, <1>3, CompleteEntry
<1>5. mem' = [mem EXCEPT ![p] = Append(mem[p], e)] /\ off' = [off EXCEPT ![p] = off[p] + SizeAt(file, off[p])]
  BY DEF readFrame
<1> HIDE DEF e
<1>6. Append(mem[p], e) \in Seq(Entries) BY <1>2, <1>4
<1>7. off[p] + SizeAt(file, off[p]) \in Nat BY <1>2, <1>4
<1> QED BY <1>1, <1>4, <1>5, <1>6, <1>7, SMTT(30) DEF TypeOK, readFrame

LEMMA TruncateType ==
    ASSUME TypeOK, NEW p \in Procs, \A q \in Procs : Handle(q), truncate(p)
    PROVE  /\ TypeOK' /\ Len(file') = off[p]
           /\ \A i \in 1..off[p] : file'[i] = file[i]
<1>1. Octets' = Octets /\ Entries' = Entries BY SameSets DEF truncate
<1>2. off[p] \in Nat /\ Len(file) \in Nat /\ off[p] <= Len(file) /\ file \in Seq(Octets) BY Parts DEF TypeOK
<1>3. file' = SubSeq(file, 1, off[p]) BY DEF truncate
<1>4. file' \in Seq(Octets) /\ Len(file') = off[p] /\ \A i \in 1..off[p] : file'[i] = file[i]
  BY <1>2, <1>3
<1>5. \A q \in Procs : off[q] <= off[p]
  <2> TAKE q \in Procs
  <2>1. CASE q = p BY <2>1, <1>2
  <2>2. CASE q # p
    <3>1. pc[p] \notin Out /\ owner = p BY DEF truncate, Handle, Out
    <3>2. pc[q] \in Out BY <2>2, <3>1 DEF Handle
    <3>3. off[q] = 0 BY <3>2 DEF Handle
    <3> QED BY <3>3, <1>2
  <2> QED BY <2>1, <2>2
<1>6. off' = off BY DEF truncate
<1>7. pc' \in [Procs -> {"closed", "mkdir", "lock", "create", "header", "entry", "check", "scan",
                         "truncate", "tail", "open", "write"}]
  BY DEF TypeOK, truncate, Go
<1> QED BY <1>1, <1>4, <1>5, <1>6, <1>7 DEF TypeOK, truncate

(* A frame is begun: the sets of bytes and entries grow. *)
LEMMA BeginGrows ==
    ASSUME TypeOK, NEW p \in Procs, NEW n \in 1..MaxPayload, beginAppend(p, n)
    PROVE  /\ frames' \in Seq([seq : Nat, len : 1..MaxPayload]) /\ Len(frames') = Len(frames) + 1
           /\ \A f \in 1..Len(frames) : frames'[f] = frames[f]
           /\ frames'[Len(frames) + 1] = [seq |-> Len(mem[p]) + 1, len |-> n]
           /\ Octets \subseteq Octets' /\ Entries \subseteq Entries'
           /\ buf'[p] \in Seq(Octets') /\ Len(buf'[p]) = FrameSize + n
           /\ \A i \in 1..FrameSize + n : buf'[p][i] = Byte(Len(frames) + 1, i)
           /\ FrameSize + n \in Nat
<1> DEFINE x == [seq |-> Len(mem[p]) + 1, len |-> n]  Begun == [seq : Nat, len : 1..MaxPayload]
<1>1. frames' = Append(frames, x) BY DEF beginAppend
<1>2. frames \in Seq(Begun) BY DEF TypeOK
<1>3. Len(mem[p]) \in Nat BY Parts, Ends
<1>4. x \in Begun BY <1>3
<1>5. Len(frames) \in Nat BY Frames
<1> HIDE DEF x, Begun
<1>6. /\ frames' \in Seq(Begun) /\ Len(frames') = Len(frames) + 1
      /\ \A f \in 1..Len(frames) : frames'[f] = frames[f]
      /\ frames'[Len(frames) + 1] = x
  BY <1>1, <1>2, <1>4, <1>5
<1>7. DOMAIN frames = 1..Len(frames) /\ DOMAIN frames' = 1..Len(frames) + 1 BY <1>2, <1>5, <1>6
<1>8. 0..Len(frames) \subseteq 0..Len(frames') /\ DOMAIN frames \subseteq DOMAIN frames' BY <1>5, <1>6, <1>7
<1>9. Octets \subseteq Octets' /\ Entries \subseteq Entries' BY <1>8 DEF Octets, Entries
<1>10. n \in Nat /\ FrameSize + n \in Nat BY JournalConstants
<1>11. buf'[p] = [i \in 1..FrameSize + n |-> Byte(Len(frames) + 1, i)] BY DEF beginAppend, TypeOK
<1>12. \A i \in 1..FrameSize + n : Byte(Len(frames) + 1, i) \in Octets' BY <1>5, <1>6, <1>10 DEF Byte, Octets
<1>13. buf'[p] \in Seq(Octets') /\ Len(buf'[p]) = FrameSize + n BY <1>10, <1>11, <1>12
<1> QED BY <1>6, <1>9, <1>10, <1>11, <1>13 DEF x, Begun

LEMMA BeginType ==
    ASSUME TypeOK, NEW p \in Procs, NEW n \in 1..MaxPayload, beginAppend(p, n)
    PROVE  TypeOK'
<1>1. /\ frames' \in Seq([seq : Nat, len : 1..MaxPayload])
      /\ Octets \subseteq Octets' /\ Entries \subseteq Entries' /\ buf'[p] \in Seq(Octets')
  BY BeginGrows
<1>2. Seq(Octets) \subseteq Seq(Octets') /\ Seq(Entries) \subseteq Seq(Entries') BY <1>1
<1>3. file \in Seq(Octets') /\ stable \in Seq(Octets') /\ acked \in Seq(Entries')
      /\ mem \in [Procs -> Seq(Entries')] /\ buf \in [Procs -> Seq(Octets')]
  BY <1>2 DEF TypeOK
<1>4. buf' = [buf EXCEPT ![p] = buf'[p]] BY DEF beginAppend, TypeOK
<1>5. buf' \in [Procs -> Seq(Octets')] BY <1>1, <1>3, <1>4
<1>6. pc' \in [Procs -> {"closed", "mkdir", "lock", "create", "header", "entry", "check", "scan",
                         "truncate", "tail", "open", "write"}]
  BY DEF TypeOK, beginAppend, Go
<1> QED BY <1>1, <1>3, <1>5, <1>6 DEF TypeOK, beginAppend

LEMMA SyncType ==
    ASSUME TypeOK, NEW p \in Procs, Handle(p), sync(p)
    PROVE  TypeOK' /\ mem'[p] = Append(mem[p], LastEntry(p)) /\ acked' = mem'[p]
<1>1. Octets' = Octets /\ Entries' = Entries BY SameSets DEF sync
<1>2. LastEntry(p) \in Entries BY Written DEF sync
<1>3. mem[p] \in Seq(Entries) BY Parts
<1>4. Append(mem[p], LastEntry(p)) \in Seq(Entries) BY <1>2, <1>3
<1>5. mem' = [mem EXCEPT ![p] = Append(mem[p], LastEntry(p))] BY DEF sync
<1>6. mem'[p] = Append(mem[p], LastEntry(p)) /\ mem' \in [Procs -> Seq(Entries)] BY <1>4, <1>5 DEF TypeOK
<1>7. acked' = mem'[p] BY DEF sync
<1>8. pc' \in [Procs -> {"closed", "mkdir", "lock", "create", "header", "entry", "check", "scan",
                         "truncate", "tail", "open", "write"}]
  BY DEF TypeOK, sync, Go
<1> QED BY <1>1, <1>4, <1>6, <1>7, <1>8 DEF TypeOK, sync

LEMMA FailType ==
    ASSUME TypeOK, NEW p \in Procs, appendFails(p)
    PROVE  TypeOK'
<1>1. Octets' = Octets /\ Entries' = Entries BY SameSets DEF appendFails
<1> QED BY <1>1 DEF TypeOK, appendFails, Go

-----------------------------------------------------------------------------
(* Steps: what is left after a power failure. *)

LEMMA SurvivorParts ==
    ASSUME NEW b \in Survivors
    PROVE  \/ \E n \in Lengths(file) : b = SubSeq(file, 1, n)
           \/ b = stable
           \/ device # "ordered" /\ \E n \in Lengths(file) \cup Lengths(stable) : b \in Mixed(n)
<1> DEFINE short == {SubSeq(file, 1, n) : n \in Lengths(file)}
           mixed == UNION {Mixed(n) : n \in Lengths(file) \cup Lengths(stable)}
<1>1. b \in short => \E n \in Lengths(file) : b = SubSeq(file, 1, n) OBVIOUS
<1>2. b \in mixed => \E n \in Lengths(file) \cup Lengths(stable) : b \in Mixed(n) OBVIOUS
<1>3. b \in short \cup {stable} \cup IF device = "ordered" THEN {} ELSE mixed BY DEF Survivors
<1> HIDE DEF short, mixed
<1> QED BY <1>1, <1>2, <1>3

LEMMA SurvivorsKeep ==
    ASSUME TypeOK, NEW b \in Survivors
    PROVE  /\ b \in Seq(Octets) /\ Len(b) \in Nat
           /\ \A m \in Nat : SameUpTo(m) => m <= Len(b) /\ \A i \in 1..m : b[i] = file[i]
           /\ device = "ordered" => b = stable \/ \E n \in 0..Len(file) : b = SubSeq(file, 1, n)
<1>1. /\ file \in Seq(Octets) /\ stable \in Seq(Octets) /\ Len(file) \in Nat /\ Len(stable) \in Nat
      /\ DOMAIN file = 1..Len(file) /\ DOMAIN stable = 1..Len(stable)
  BY DEF TypeOK
<1>2. ASSUME NEW m \in Nat, SameUpTo(m)
      PROVE  m <= Len(file) /\ m <= Len(stable) /\ \A i \in 1..m : i \in Settled /\ file[i] = stable[i]
  <2>1. m <= Len(file) /\ m <= Len(stable) /\ \A k \in 1..m : file[k] = stable[k] BY <1>2 DEF SameUpTo
  <2>2. ASSUME NEW i \in 1..m PROVE i \in Settled
    <3>1. i \in DOMAIN file /\ i <= Len(stable) BY <2>1, <1>1
    <3>2. \A k \in 1..i : k \in 1..m OBVIOUS
    <3> QED BY <2>1, <3>1, <3>2 DEF Settled
  <2> QED BY <2>1, <2>2
<1>3. ASSUME NEW n \in Nat, Settled \subseteq 1..n, NEW m \in Nat, SameUpTo(m)
      PROVE  m <= n
  <2>1. CASE m = 0 BY <2>1
  <2>2. CASE m # 0
    <3>1. m \in 1..m BY <2>2
    <3>2. m \in Settled BY <3>1, <1>2, <1>3
    <3>3. m \in 1..n BY <3>2, <1>3
    <3> QED BY <3>3
  <2> QED BY <2>1, <2>2
<1>4. ASSUME NEW n \in Lengths(file), b = SubSeq(file, 1, n)
      PROVE  /\ b \in Seq(Octets) /\ Len(b) \in Nat /\ n \in 0..Len(file)
             /\ \A m \in Nat : SameUpTo(m) => m <= Len(b) /\ \A i \in 1..m : b[i] = file[i]
  <2>1. n \in 0..Len(file) /\ n \in Nat /\ n <= Len(file) /\ Settled \subseteq 1..n BY <1>1 DEF Lengths
  <2>2. b \in Seq(Octets) /\ Len(b) = n /\ \A i \in 1..n : b[i] = file[i] BY <1>1, <1>4, <2>1
  <2>3. ASSUME NEW m \in Nat, SameUpTo(m) PROVE m <= Len(b) /\ \A i \in 1..m : b[i] = file[i]
    <3>1. m <= n BY <1>3, <2>1, <2>3
    <3>2. \A i \in 1..m : i \in 1..n BY <3>1, <2>1
    <3> QED BY <2>2, <3>1, <3>2
  <2> QED BY <2>1, <2>2, <2>3
<1>5. ASSUME b = stable
      PROVE  /\ b \in Seq(Octets) /\ Len(b) \in Nat
             /\ \A m \in Nat : SameUpTo(m) => m <= Len(b) /\ \A i \in 1..m : b[i] = file[i]
  BY <1>1, <1>2, <1>5
<1>6. ASSUME NEW n \in Lengths(file) \cup Lengths(stable),
             NEW new \in SUBSET ((1..n \cap DOMAIN file) \ Settled),
             NEW gone \in SUBSET ((1..n \cap DOMAIN stable) \ Settled),
             b = Mixture(n, new, gone)
      PROVE  /\ b \in Seq(Octets) /\ Len(b) \in Nat
             /\ \A m \in Nat : SameUpTo(m) => m <= Len(b) /\ \A i \in 1..m : b[i] = file[i]
  <2>1. n \in Nat /\ Settled \subseteq 1..n BY <1>1 DEF Lengths
  <2>2. DOMAIN b = 1..n /\ \A i \in 1..n : b[i] = IF i \in Settled \cup new THEN file[i]
                                     ELSE IF i \in gone \/ i > Len(stable) THEN Hole ELSE stable[i]
    BY <1>6 DEF Mixture
  <2>3. ASSUME NEW i \in 1..n PROVE b[i] \in Octets
    <3>1. CASE i \in Settled \cup new
      <4>1. i \in DOMAIN file BY <3>1 DEF Settled
      <4>2. file[i] \in Octets BY <4>1, <1>1
      <4> QED BY <4>2, <3>1, <2>2
    <3>2. CASE i \notin Settled \cup new /\ (i \in gone \/ i > Len(stable))
      <4>1. Hole \in Octets BY Frames DEF Hole, Byte, Octets
      <4> QED BY <4>1, <3>2, <2>2
    <3>3. CASE i \notin Settled \cup new /\ ~(i \in gone \/ i > Len(stable))
      <4>1. i \in 1..Len(stable) BY <3>3, <1>1, <2>1
      <4>2. stable[i] \in Octets BY <4>1, <1>1
      <4> QED BY <4>2, <3>3, <2>2
    <3> QED BY <3>1, <3>2, <3>3
  <2>4. b = [i \in 1..n |-> b[i]] BY <1>6 DEF Mixture
  <2>5. b \in Seq(Octets) /\ Len(b) = n BY <2>1, <2>3, <2>4
  <2>6. ASSUME NEW m \in Nat, SameUpTo(m) PROVE m <= Len(b) /\ \A i \in 1..m : b[i] = file[i]
    <3>1. m <= n BY <1>3, <2>1, <2>6
    <3>2. \A i \in 1..m : i \in 1..n /\ i \in Settled BY <3>1, <2>1, <1>2, <2>6
    <3> QED BY <2>2, <2>5, <3>1, <3>2
  <2> QED BY <2>1, <2>5, <2>6
<1>7. \/ \E n \in Lengths(file) : b = SubSeq(file, 1, n)
      \/ b = stable
      \/ /\ device # "ordered"
         /\ \E n \in Lengths(file) \cup Lengths(stable) :
               \E new \in SUBSET ((1..n \cap DOMAIN file) \ Settled) :
                  \E gone \in SUBSET ((1..n \cap DOMAIN stable) \ Settled) : b = Mixture(n, new, gone)
  <2>1. \/ \E n \in Lengths(file) : b = SubSeq(file, 1, n)
        \/ b = stable
        \/ device # "ordered" /\ \E n \in Lengths(file) \cup Lengths(stable) : b \in Mixed(n)
    BY SurvivorParts
  <2>2. ASSUME NEW n, b \in Mixed(n)
        PROVE  \E new \in SUBSET ((1..n \cap DOMAIN file) \ Settled) :
                  \E gone \in SUBSET ((1..n \cap DOMAIN stable) \ Settled) : b = Mixture(n, new, gone)
    BY <2>2 DEF Mixed
  <2> QED BY <2>1, <2>2
<1> QED BY <1>4, <1>5, <1>6, <1>7

LEMMA PowerType ==
    ASSUME TypeOK, PowerFails
    PROVE  TypeOK' /\ file' \in Seq(Octets)
<1>1. Octets' = Octets /\ Entries' = Entries BY SameSets DEF PowerFails
<1>2. file' \in Seq(Octets)
  <2>1. CASE file' \in Survivors BY <2>1, SurvivorsKeep
  <2>2. CASE file' = <<>> BY <2>2
  <2> QED BY <2>1, <2>2 DEF PowerFails
<1>3. stable' \in Seq(Octets) BY <1>2 DEF PowerFails
<1>4. names' \in [{"dir", "journal"} -> {"absent", "volatile", "durable"}]
  <2>1. CASE UNCHANGED names BY <2>1 DEF TypeOK
  <2>2. CASE ~UNCHANGED names
    <3>1. names' = [dir |-> IF names.dir = "volatile" THEN "absent" ELSE names.dir, journal |-> "absent"]
      BY <2>2 DEF PowerFails
    <3>2. names.dir \in {"absent", "volatile", "durable"} BY DEF TypeOK
    <3> QED BY <3>1, <3>2
  <2> QED BY <2>1, <2>2
<1>5. Len(file') \in Nat BY <1>2
<1>6. /\ pc' = [p \in Procs |-> "closed"] /\ buf' = [p \in Procs |-> <<>>]
      /\ off' = [p \in Procs |-> 0] /\ mem' = [p \in Procs |-> <<>>]
      /\ poisoned' = [p \in Procs |-> FALSE] /\ owner' = NoProc /\ UNCHANGED <<frames, acked>>
  BY DEF PowerFails
<1>7. buf' \in [Procs -> Seq(Octets)] /\ mem' \in [Procs -> Seq(Entries)]
  <2>1. <<>> \in Seq(Octets) /\ <<>> \in Seq(Entries) OBVIOUS
  <2> QED BY <1>6, <2>1
<1>8. pc' \in [Procs -> {"closed", "mkdir", "lock", "create", "header", "entry", "check", "scan",
                         "truncate", "tail", "open", "write"}]
      /\ off' \in [Procs -> Nat] /\ poisoned' \in [Procs -> BOOLEAN]
      /\ \A p \in Procs : off'[p] <= Len(file')
  BY <1>5, <1>6
<1>9. /\ frames' \in Seq([seq : Nat, len : 1..MaxPayload]) /\ acked' \in Seq(Entries)
      /\ owner' \in Procs \cup {NoProc}
  BY <1>6 DEF TypeOK
<1> QED BY <1>1, <1>2, <1>3, <1>4, <1>7, <1>8, <1>9 DEF TypeOK

LEMMA TypeNext ==
    ASSUME HandleInv, [Next]_vars
    PROVE  TypeOK'
<1>1. TypeOK /\ \A p \in Procs : Handle(p) BY DEF HandleInv
<1>2. ASSUME NEW p \in Procs,
             MkdirAll(p) \/ syncParent(p) \/ lockDirectory(p) \/ openFile(p) \/ headerSync(p)
                \/ syncDirectory(p) \/ readHeader(p) \/ endScan(p) \/ tailSync(p)
      PROVE  TypeOK'
  BY <1>1, <1>2, OpenType
<1>3. ASSUME NEW p \in Procs, refuse(p) \/ openFails(p) \/ Close(p) \/ Crash(p) PROVE TypeOK'
  <2>1. Leave(p) /\ UNCHANGED <<names, file, stable, frames, acked>>
    BY <1>3 DEF refuse, openFails, Close, Crash
  <2> QED BY <1>1, <2>1, LeaveType
<1>4. ASSUME NEW p \in Procs, writeFull(p) PROVE TypeOK' BY <1>1, <1>4, WriteType
<1>5. ASSUME NEW p \in Procs, readFrame(p) PROVE TypeOK' BY <1>1, <1>5, ReadType
<1>6. ASSUME NEW p \in Procs, truncate(p) PROVE TypeOK' BY <1>1, <1>6, TruncateType
<1>7. ASSUME NEW p \in Procs, NEW n \in 1..MaxPayload, beginAppend(p, n) PROVE TypeOK'
  BY <1>1, <1>7, BeginType
<1>8. ASSUME NEW p \in Procs, sync(p) PROVE TypeOK' BY <1>1, <1>8, SyncType
<1>9. ASSUME NEW p \in Procs, appendFails(p) PROVE TypeOK' BY <1>1, <1>9, FailType
<1>10. ASSUME PowerFails PROVE TypeOK' BY <1>1, <1>10, PowerType
<1>11. ASSUME UNCHANGED vars PROVE TypeOK'
  BY <1>1, <1>11 DEF TypeOK, vars, handle, Octets, Entries
<1> QED BY <1>2, <1>3, <1>4, <1>5, <1>6, <1>7, <1>8, <1>9, <1>10, <1>11 DEF Next

-----------------------------------------------------------------------------
(* Steps: handles. *)

Idle(p) == pc[p] \in Out /\ mem[p] = <<>> /\ off[p] = 0 /\ ~poisoned[p]

LEMMA IdleHandle ==
    ASSUME NEW p \in Procs, Idle(p)'
    PROVE  Handle(p)'
<1>1. DOMAIN mem'[p] = {} BY DEF Idle
<1> QED BY <1>1 DEF Idle, Handle, Out, Before, Reading, AtEnd, AtLast, Indexed, Rising

(* Only one process is inside. *)
LEMMA OthersIdle ==
    ASSUME \A q \in Procs : Handle(q), NEW p \in Procs, pc[p] \notin Out
    PROVE  \A q \in Procs \ {p} : Idle(q)
BY DEF Handle, Idle, Out, Before

LEMMA AloneInside ==
    ASSUME HandleInv, NEW p \in Procs, pc[p] \notin Out,
           \A q \in Procs \ {p} : /\ pc'[q] = pc[q] /\ mem'[q] = mem[q]
                                  /\ off'[q] = off[q] /\ poisoned'[q] = poisoned[q],
           Handle(p)'
    PROVE  \A q \in Procs : Handle(q)'
<1>1. ASSUME NEW q \in Procs \ {p} PROVE Handle(q)'
  <2>1. Idle(q) BY OthersIdle DEF HandleInv
  <2>2. Idle(q)' BY <2>1 DEF Idle
  <2> QED BY <2>2, IdleHandle
<1> QED BY <1>1

(* A step of a process that is not inside changes no file. *)
LEMMA OutsideKeeps ==
    ASSUME NEW q \in Procs, Handle(q), UNCHANGED <<file, frames>>, pc'[q] = pc[q], mem'[q] = mem[q],
           off'[q] = off[q], poisoned'[q] = poisoned[q], buf'[q] = buf[q],
           pc[q] \notin Out => owner' = q
    PROVE  Handle(q)'
BY DEF Handle, WritingHeader, Writing, Newest, AtEnd, AtLast, Indexed

LEMMA LeaveHandle ==
    ASSUME HandleInv, NEW p \in Procs, Leave(p), UNCHANGED <<file, frames>>
    PROVE  \A q \in Procs : Handle(q)'
<1>1. TypeOK BY DEF HandleInv
<1>2. Idle(p)' BY <1>1 DEF Leave, Go, Idle, Out, TypeOK
<1>3. Handle(p)' BY <1>2, IdleHandle
<1>4. ASSUME NEW q \in Procs \ {p} PROVE Handle(q)'
  <2>1. /\ pc'[q] = pc[q] /\ mem'[q] = mem[q] /\ off'[q] = off[q] /\ poisoned'[q] = poisoned[q]
        /\ buf'[q] = buf[q]
    BY <1>1 DEF Leave, Go, TypeOK
  <2>2. Handle(q) BY DEF HandleInv
  <2>3. pc[q] \notin Out => owner' = q
    <3>1. pc[q] \notin Out => owner = q BY <2>2 DEF Handle
    <3> QED BY <3>1 DEF Leave
  <2> QED BY <2>1, <2>2, <2>3, OutsideKeeps
<1> QED BY <1>3, <1>4

LEMMA EnterHandle ==
    ASSUME HandleInv, NEW p \in Procs, MkdirAll(p) \/ syncParent(p) \/ lockDirectory(p)
    PROVE  \A q \in Procs : Handle(q)'
<1>1. TypeOK BY DEF HandleInv
<1>2. /\ UNCHANGED <<file, frames, mem, off, poisoned, buf>> /\ pc[p] \in Out
      /\ \A q \in Procs \ {p} : pc'[q] = pc[q]
      /\ \/ pc'[p] \in Out /\ owner' = owner
         \/ pc'[p] = "create" /\ owner = NoProc /\ owner' = p
  BY <1>1 DEF MkdirAll, syncParent, lockDirectory, Go, TypeOK, Out
<1>3. Idle(p)
  BY <1>2 DEF HandleInv, Handle, Idle, Out, Before
<1>4. Handle(p)'
  <2>1. CASE pc'[p] \in Out
    <3>1. Idle(p)' BY <2>1, <1>2, <1>3 DEF Idle
    <3> QED BY <3>1, IdleHandle
  <2>2. CASE pc'[p] = "create" /\ owner' = p
    <3>1. mem'[p] = <<>> /\ off'[p] = 0 /\ ~poisoned'[p] BY <1>2, <1>3 DEF Idle
    <3>2. DOMAIN mem'[p] = {} BY <3>1
    <3> QED BY <2>2, <3>1, <3>2 DEF Handle, Out, Before, Reading, AtEnd, AtLast, Indexed, Rising
  <2> QED BY <1>2, <2>1, <2>2
<1>5. ASSUME NEW q \in Procs \ {p} PROVE Handle(q)'
  <2>1. Handle(q) BY DEF HandleInv
  <2>2. pc[q] \notin Out => owner' = q
    <3>1. pc[q] \notin Out => owner = q BY <2>1 DEF Handle
    <3>2. q # NoProc BY JournalConstants
    <3> QED BY <3>1, <3>2, <1>2
  <2> QED BY <1>2, <2>1, <2>2, OutsideKeeps
<1> QED BY <1>4, <1>5

(* The steps of Open, one by one. *)
LEMMA OpenHandle ==
    ASSUME HandleInv, TypeOK', NEW p \in Procs,
           openFile(p) \/ headerSync(p) \/ syncDirectory(p) \/ readHeader(p) \/ endScan(p) \/ tailSync(p)
    PROVE  \A q \in Procs : Handle(q)'
<1>1. TypeOK /\ Handle(p) BY DEF HandleInv
<1>2. /\ pc[p] \notin Out /\ UNCHANGED <<file, owner, mem, poisoned, frames>>
      /\ \A q \in Procs \ {p} : pc'[q] = pc[q] /\ off'[q] = off[q]
  BY <1>1 DEF openFile, headerSync, syncDirectory, readHeader, endScan, tailSync, Go, TypeOK, Out
<1>3. owner' = p BY <1>1, <1>2 DEF Handle
<1>4. Indexed(mem[p])' /\ Rising(mem[p])' BY <1>1, <1>2 DEF Handle, Indexed, Rising
<1>5. CASE openFile(p)
  <2>1. mem'[p] = <<>> /\ off'[p] = 0 /\ ~poisoned'[p]
    BY <1>1, <1>2, <1>5 DEF openFile, Handle, Before, Out
  <2>2. ASSUME names.journal = "absent" PROVE Handle(p)'
    <3>1. pc'[p] = "header" /\ buf'[p] = Header BY <1>1, <1>5, <2>2 DEF openFile, Go, TypeOK
    <3>2. file' = <<>> BY <1>2, <2>2 DEF HandleInv, Fresh
    <3>3. WritingHeader(p)'
      <4>1. Len(Header) = HeaderSize /\ HeaderSize \in Nat BY <1>1, HeaderType, JournalConstants
      <4>2. Len(file') = 0 /\ Len(buf'[p]) = HeaderSize - off'[p] BY <2>1, <3>1, <3>2, <4>1
      <4>3. \A i \in 1..HeaderSize : Header[i] = Byte(0, 0 + i) BY DEF Header
      <4>4. \A i \in 1..Len(buf'[p]) : buf'[p][i] = Byte(0, off'[p] + i) BY <2>1, <3>1, <4>1, <4>3
      <4>5. \A i \in 1..off'[p] : file'[i] = Byte(0, i) BY <2>1
      <4> QED BY <2>1, <4>2, <4>4, <4>5 DEF WritingHeader
    <3> QED BY <1>3, <1>4, <2>1, <3>1, <3>3 DEF Handle, AtEnd, AtLast, Out, Before, Reading
  <2>3. ASSUME names.journal # "absent" PROVE Handle(p)'
    <3>1. pc'[p] = "check" BY <1>1, <1>5, <2>3 DEF openFile, Go, TypeOK
    <3> QED BY <1>3, <1>4, <2>1, <3>1 DEF Handle, AtEnd, AtLast, Out, Before, Reading
  <2>4. Handle(p)' BY <2>2, <2>3
  <2>5. \A q \in Procs \ {p} : mem'[q] = mem[q] /\ poisoned'[q] = poisoned[q] BY <1>2
  <2> QED BY <1>2, <2>4, <2>5, AloneInside
<1>6. CASE headerSync(p) \/ syncDirectory(p)
  <2>1. mem'[p] = <<>> /\ ~poisoned'[p] BY <1>1, <1>2, <1>6 DEF headerSync, syncDirectory, Handle, Before, Out
  <2>2. pc'[p] \in {"entry", "check"} BY <1>1, <1>6 DEF headerSync, syncDirectory, Go, TypeOK
  <2>3. Handle(p)' BY <1>3, <1>4, <2>1, <2>2 DEF Handle, AtEnd, AtLast, Out, Before, Reading
  <2> QED BY <1>2, <2>3, AloneInside
<1>7. CASE readHeader(p)
  <2>1. mem'[p] = <<>> /\ ~poisoned'[p] BY <1>1, <1>2, <1>7 DEF readHeader, Handle, Before, Out
  <2>2. pc'[p] = "scan" /\ off'[p] = HeaderSize /\ HeaderOK(file) BY <1>1, <1>7 DEF readHeader, Go, TypeOK
  <2>3. DOMAIN mem'[p] = {} /\ Len(mem'[p]) = 0 BY <2>1
  <2>4. Holds(file, mem[p])' BY <1>2, <2>2, <2>3 DEF Holds
  <2>5. End(mem'[p]) = HeaderSize BY <2>3 DEF End, EndOf
  <2>6. Handle(p)' BY <1>3, <1>4, <2>1, <2>2, <2>4, <2>5 DEF Handle, AtEnd, AtLast, Out, Before, Reading
  <2> QED BY <1>2, <2>6, AloneInside
<1>8. CASE endScan(p) \/ tailSync(p)
  <2>1. /\ pc[p] \in {"scan", "tail"} /\ off' = off /\ pc'[p] \in {"truncate", "open"}
        /\ pc'[p] = "open" => pc[p] = "tail" \/ off[p] = Len(file)
    BY <1>1, <1>8 DEF endScan, tailSync, Go, TypeOK
  <2>2. /\ ~poisoned[p] /\ Holds(file, mem[p]) /\ off[p] = End(mem[p])
        /\ pc[p] = "tail" => off[p] = Len(file)
    BY <1>1, <2>1 DEF Handle, AtEnd, AtLast, Reading
  <2>3. Handle(p)' BY <1>2, <1>3, <1>4, <2>1, <2>2 DEF Handle, AtEnd, AtLast, Out, Before, Reading
  <2> QED BY <1>2, <2>3, AloneInside
<1> QED BY <1>5, <1>6, <1>7, <1>8

LEMMA WriteHandle ==
    ASSUME HandleInv, NEW p \in Procs, writeFull(p)
    PROVE  \A q \in Procs : Handle(q)'
<1>1. TypeOK /\ Handle(p) /\ \A q \in Procs : Handle(q) BY DEF HandleInv
<1>2. off[p] = Len(file) BY <1>1, WriteType
<1>3. /\ file' \in Seq(Octets) /\ Len(file') = Len(file) + 1
      /\ file'[Len(file) + 1] = buf[p][1]
      /\ \A i \in 1..Len(file) : file'[i] = file[i]
      /\ off'[p] = off[p] + 1 /\ Len(buf'[p]) = Len(buf[p]) - 1
      /\ \A i \in 1..Len(buf'[p]) : buf'[p][i] = buf[p][i + 1]
      /\ Len(buf[p]) > 0
  BY <1>1, <1>2, WriteGrows
<1>4. /\ pc[p] \in {"header", "write"} /\ pc[p] \notin Out
      /\ UNCHANGED <<pc, owner, mem, poisoned, frames>> /\ owner = p
      /\ \A q \in Procs \ {p} : off'[q] = off[q]
  BY <1>1 DEF writeFull, TypeOK, Handle, Out
<1>5. off[p] \in Nat /\ Len(file) \in Nat /\ Len(buf[p]) \in Nat /\ HeaderSize \in Nat /\ mem[p] \in Seq(Place)
  BY <1>1, Parts, JournalConstants
<1>6. Indexed(mem[p])' /\ Rising(mem[p])' /\ ~poisoned[p] BY <1>1, <1>4 DEF Handle, Indexed, Rising
<1>7. CASE pc[p] = "header"
  <2>1. WritingHeader(p) /\ mem[p] = <<>> BY <1>1, <1>7 DEF Handle, Before
  <2>2. \A i \in 1..off'[p] : file'[i] = Byte(0, i)
    <3> TAKE i \in 1..off'[p]
    <3>1. CASE i \in 1..Len(file)
      <4>1. i \in 1..off[p] BY <3>1, <1>2
      <4> QED BY <4>1, <3>1, <1>3, <2>1 DEF WritingHeader
    <3>2. CASE i = Len(file) + 1
      <4>1. 1 \in 1..Len(buf[p]) BY <1>3, <1>5
      <4>2. buf[p][1] = Byte(0, off[p] + 1) BY <2>1, <4>1 DEF WritingHeader
      <4> QED BY <4>2, <3>2, <1>2, <1>3
    <3> QED BY <3>1, <3>2, <1>2, <1>3, <1>5
  <2>3. \A i \in 1..Len(buf'[p]) : buf'[p][i] = Byte(0, off'[p] + i)
    <3> TAKE i \in 1..Len(buf'[p])
    <3>1. i + 1 \in 1..Len(buf[p]) BY <1>3, <1>5
    <3>2. buf[p][i + 1] = Byte(0, off[p] + (i + 1)) BY <3>1, <2>1 DEF WritingHeader
    <3>3. off[p] + (i + 1) = off'[p] + i
      <4>1. i \in Int /\ off'[p] = off[p] + 1 BY <1>3
      <4> QED BY <4>1, <1>5
    <3> QED BY <3>2, <3>3, <1>3
  <2>4. Len(file') = off'[p] /\ Len(buf'[p]) = HeaderSize - off'[p]
    <3>1. Len(buf[p]) = HeaderSize - off[p] BY <2>1 DEF WritingHeader
    <3>2. Len(file') = Len(file) + 1 /\ off'[p] = off[p] + 1 /\ Len(buf'[p]) = Len(buf[p]) - 1 BY <1>3
    <3>3. Len(buf'[p]) = (HeaderSize - off[p]) - 1 BY <3>1, <3>2
    <3>4. (HeaderSize - off[p]) - 1 = HeaderSize - (off[p] + 1) BY <1>5
    <3> QED BY <3>2, <3>3, <3>4, <1>2
  <2>5. WritingHeader(p)' BY <2>2, <2>3, <2>4 DEF WritingHeader
  <2>6. Handle(p)' BY <1>4, <1>6, <1>7, <2>1, <2>5 DEF Handle, AtEnd, AtLast, Out, Before, Reading
  <2> QED BY <1>4, <2>6, AloneInside
<1>8. CASE pc[p] = "write"
  <2> DEFINE a == End(mem[p])  f == Len(frames)  k == off[p] - a
  <2>1. Writing(p) /\ Holds(file, mem[p]) /\ Rising(mem[p]) BY <1>1, <1>8 DEF Handle, Reading
  <2>2. a \in Nat BY <1>5, Ends
  <2>3. k \in Nat /\ a + k = Len(file) BY <2>1, <2>2, <1>2, <1>5 DEF Writing
  <2>4. /\ frames # <<>> /\ frames[f].seq = Len(mem[p]) + 1 /\ Len(buf[p]) = Newest - k
        /\ \A i \in 1..k : file[a + i] = Byte(f, i)
        /\ \A i \in 1..Len(buf[p]) : buf[p][i] = Byte(f, k + i)
    BY <2>1 DEF Writing
  <2>5. Newest \in Nat
    <3>1. f \in 1..Len(frames)
      <4>1. f \in Nat BY <1>1, Frames
      <4> QED BY <4>1, <2>4, <1>1, Frames
    <3> QED BY <3>1, <1>1, Frames, JournalConstants DEF Newest
  <2>6. Newest' = Newest /\ End(mem'[p]) = a /\ Len(frames') = f BY <1>4 DEF Newest
  <2> HIDE DEF a, f, k
  <2>7. off'[p] - a = k + 1 BY <1>2, <1>3, <1>5, <2>2, <2>3
  <2>8. Len(buf'[p]) = Newest - (k + 1) BY <1>3, <1>5, <2>3, <2>4, <2>5
  <2>9. \A i \in 1..k + 1 : file'[a + i] = Byte(f, i)
    <3> TAKE i \in 1..k + 1
    <3>1. CASE i \in 1..k
      <4>1. a + i \in 1..Len(file) BY <3>1, <2>2, <2>3
      <4> QED BY <4>1, <3>1, <1>3, <2>4
    <3>2. CASE i = k + 1
      <4>1. 1 \in 1..Len(buf[p]) BY <1>3, <1>5
      <4>2. buf[p][1] = Byte(f, k + 1) BY <2>4, <4>1
      <4>3. a + i = Len(file) + 1 BY <3>2, <2>2, <2>3
      <4> QED BY <4>2, <4>3, <3>2, <1>3
    <3> QED BY <3>1, <3>2, <2>3
  <2>10. \A i \in 1..Len(buf'[p]) : buf'[p][i] = Byte(f, (k + 1) + i)
    <3> TAKE i \in 1..Len(buf'[p])
    <3>1. i + 1 \in 1..Len(buf[p]) BY <1>3, <1>5
    <3>2. buf[p][i + 1] = Byte(f, k + (i + 1)) BY <3>1, <2>4
    <3>3. k + (i + 1) = (k + 1) + i BY <2>3
    <3> QED BY <3>2, <3>3, <1>3
  <2>11. Writing(p)'
    <3>1. frames' # <<>> /\ frames'[Len(frames')].seq = Len(mem'[p]) + 1 BY <2>4, <1>4 DEF f
    <3>2. k + 1 >= 0 BY <2>3
    <3> QED BY <3>1, <3>2, <2>6, <2>7, <2>8, <2>9, <2>10 DEF Writing
  <2>12. Holds(file, mem[p])'
    <3>1. \A i \in 1..a : file'[i] = file[i]
      <4>1. \A i \in 1..a : i \in 1..Len(file) BY <2>2, <2>3
      <4> QED BY <4>1, <1>3
    <3>2. Len(file') \in Nat /\ a <= Len(file') BY <1>3, <1>5, <2>2, <2>3
    <3>3. Holds(file', mem[p]) BY <3>1, <3>2, <2>1, <1>5, HoldsUpTo DEF a
    <3> QED BY <3>3, <1>4
  <2>13. Len(file') = off'[p] BY <1>2, <1>3
  <2>14. Handle(p)'
    BY <1>4, <1>6, <1>8, <2>11, <2>12, <2>13 DEF Handle, AtEnd, AtLast, Out, Before, Reading
  <2> QED BY <1>4, <2>14, AloneInside
<1> QED BY <1>4, <1>7, <1>8

LEMMA ReadHandle ==
    ASSUME HandleInv, TypeOK', NEW p \in Procs, readFrame(p)
    PROVE  /\ \A q \in Procs : Handle(q)'
           /\ LET e == Entry(FrameAt(file, off[p]), off[p]) IN
              /\ e \in Entries /\ Stored(e, file) /\ e.offset = End(mem[p])
              /\ mem'[p] = Append(mem[p], e)
              /\ frames[e.frame] = [seq |-> Len(mem[p]) + 1, len |-> e.len]
<1> DEFINE e == Entry(FrameAt(file, off[p]), off[p])
<1>1. TypeOK /\ Handle(p) BY DEF HandleInv
<1>2. /\ pc[p] = "scan" /\ pc[p] \notin Out /\ UNCHANGED <<pc, file, owner, poisoned, frames>>
      /\ \A q \in Procs \ {p} : mem'[q] = mem[q] /\ off'[q] = off[q]
      /\ mem'[p] = Append(mem[p], e) /\ off'[p] = off[p] + SizeAt(file, off[p])
  BY <1>1 DEF readFrame, TypeOK, Out
<1>3. owner' = p /\ off[p] = End(mem[p]) /\ ~poisoned[p] /\ Holds(file, mem[p])
      /\ Indexed(mem[p]) /\ Rising(mem[p])
  BY <1>1, <1>2 DEF Handle, AtEnd, Reading
<1>4. off[p] \in Nat /\ mem[p] \in Seq(Place) /\ file \in Seq(Octets) BY <1>1, Parts DEF TypeOK
<1>5. /\ FrameAt(file, off[p]) \in 1..Len(frames) /\ e \in Entries /\ Stored(e, file)
      /\ e.frame = FrameAt(file, off[p]) /\ e.offset = off[p] /\ e.len = frames[FrameAt(file, off[p])].len
      /\ SizeAt(file, off[p]) = FrameSize + e.len
  BY <1>1, <1>4, CompleteEntry DEF readFrame
<1>6. frames[e.frame] = [seq |-> Len(mem[p]) + 1, len |-> e.len]
  <2>1. frames[e.frame].seq = Len(mem[p]) + 1 BY <1>5 DEF readFrame, Follows
  <2>2. e.frame \in 1..Len(frames) BY <1>5
  <2>3. frames[e.frame].len = e.len BY <1>5
  <2> HIDE DEF e
  <2>4. frames[e.frame] = [seq |-> frames[e.frame].seq, len |-> frames[e.frame].len] BY <1>1, <2>2, Frames
  <2> QED BY <2>1, <2>3, <2>4
<1>7. e \in Place BY <1>1, <1>5, Frames
<1> HIDE DEF e
<1>8. Indexed(mem'[p]) /\ Rising(mem'[p]) BY <1>2, <1>3, <1>4, <1>5, <1>6, <1>7, AppendChains
<1>9. Holds(file, mem'[p]) BY <1>2, <1>3, <1>4, <1>5, <1>7, AppendHolds
<1>10. off'[p] = End(mem'[p])
  <2>1. End(mem'[p]) = e.offset + FrameSize + e.len BY <1>2, <1>4, <1>7, AppendEnds
  <2>2. e.len \in Nat BY <1>7 DEF Place
  <2> QED BY <2>1, <2>2, <1>2, <1>4, <1>5, JournalConstants
<1>11. Indexed(mem[p])' /\ Rising(mem[p])' BY <1>2, <1>8 DEF Indexed, Rising
<1>12. Handle(p)'
  BY <1>2, <1>3, <1>9, <1>10, <1>11 DEF Handle, AtEnd, AtLast, Out, Before, Reading
<1>13. \A q \in Procs : Handle(q)' BY <1>2, <1>12, AloneInside
<1> QED BY <1>2, <1>3, <1>5, <1>6, <1>13 DEF e

LEMMA TruncateHandle ==
    ASSUME HandleInv, NEW p \in Procs, truncate(p)
    PROVE  \A q \in Procs : Handle(q)'
<1>1. TypeOK /\ Handle(p) /\ \A q \in Procs : Handle(q) BY DEF HandleInv
<1>2. Len(file') = off[p] /\ \A i \in 1..off[p] : file'[i] = file[i] BY <1>1, TruncateType
<1>3. /\ pc[p] = "truncate" /\ pc'[p] = "tail" /\ UNCHANGED <<owner, mem, off, poisoned, frames>>
      /\ \A q \in Procs \ {p} : pc'[q] = pc[q]
      /\ pc[p] \notin Out
  BY <1>1 DEF truncate, Go, TypeOK, Out
<1>4. owner' = p /\ off[p] = End(mem[p]) /\ ~poisoned[p] /\ Holds(file, mem[p])
      /\ Indexed(mem[p]) /\ Rising(mem[p])
  BY <1>1, <1>3 DEF Handle, AtEnd, Reading, Out
<1>5. off[p] \in Nat /\ mem[p] \in Seq(Place) /\ Len(file) \in Nat BY <1>1, Parts
<1>6. Holds(file', mem[p]) BY <1>2, <1>4, <1>5, HoldsUpTo
<1>7. Indexed(mem[p])' /\ Rising(mem[p])' /\ Holds(file, mem[p])' BY <1>3, <1>4, <1>6 DEF Indexed, Rising
<1>8. Handle(p)' BY <1>2, <1>3, <1>4, <1>7 DEF Handle, AtEnd, AtLast, Out, Before, Reading
<1> QED BY <1>3, <1>8, AloneInside

LEMMA BeginHandle ==
    ASSUME HandleInv, NEW p \in Procs, NEW n \in 1..MaxPayload, beginAppend(p, n)
    PROVE  \A q \in Procs : Handle(q)'
<1>1. TypeOK /\ Handle(p) BY DEF HandleInv
<1>2. /\ pc[p] = "open" /\ ~poisoned[p] /\ pc'[p] = "write"
      /\ UNCHANGED <<file, owner, mem, off, poisoned>>
      /\ \A q \in Procs \ {p} : pc'[q] = pc[q]
      /\ pc[p] \notin Out
  BY <1>1 DEF beginAppend, Go, TypeOK, Out
<1>3. owner' = p /\ off[p] = End(mem[p]) /\ off[p] = Len(file) /\ Holds(file, mem[p])
      /\ Indexed(mem[p]) /\ Rising(mem[p])
  BY <1>1, <1>2 DEF Handle, AtEnd, AtLast, Reading, Out
<1>4. /\ Len(frames') = Len(frames) + 1 /\ \A f \in 1..Len(frames) : frames'[f] = frames[f]
      /\ frames' \in Seq([seq : Nat, len : 1..MaxPayload])
      /\ frames'[Len(frames) + 1] = [seq |-> Len(mem[p]) + 1, len |-> n]
      /\ Len(buf'[p]) = FrameSize + n /\ FrameSize + n \in Nat
      /\ \A i \in 1..FrameSize + n : buf'[p][i] = Byte(Len(frames) + 1, i)
  BY <1>1, BeginGrows
<1>5. off[p] \in Nat /\ mem[p] \in Seq(Entries) /\ Len(frames) \in Nat BY <1>1, Parts, Frames
<1>6. Indexed(mem[p])' /\ Rising(mem[p])' /\ Holds(file, mem[p])'
  <2>1. \A i \in DOMAIN mem[p] : /\ frames'[mem[p][i].frame] = [seq |-> i, len |-> mem[p][i].len]
                                 /\ mem[p][i].offset = EndOf(mem[p], i - 1)
    BY <1>1, <1>3, <1>4, <1>5, IndexedKeeps
  <2> QED BY <1>2, <1>3, <2>1 DEF Indexed, Rising
<1>7. Writing(p)'
  <2>1. frames' # <<>> /\ frames'[Len(frames')].seq = Len(mem'[p]) + 1
    <3>1. Len(frames') # 0 BY <1>4, <1>5
    <3> QED BY <3>1, <1>2, <1>4
  <2>2. Newest' = FrameSize + n BY <1>4 DEF Newest
  <2>3. off'[p] - End(mem'[p]) = 0 BY <1>2, <1>3, <1>5
  <2>4. Len(buf'[p]) = Newest' - 0 BY <2>2, <1>4
  <2>5. \A i \in 1..Len(buf'[p]) : buf'[p][i] = Byte(Len(frames'), 0 + i) BY <1>4
  <2>6. \A i \in 1..0 : file'[End(mem'[p]) + i] = Byte(Len(frames'), i) OBVIOUS
  <2> QED BY <2>1, <2>3, <2>4, <2>5, <2>6 DEF Writing
<1>8. Handle(p)' BY <1>2, <1>3, <1>6, <1>7 DEF Handle, AtEnd, AtLast, Out, Before, Reading
<1> QED BY <1>2, <1>8, AloneInside

LEMMA SyncHandle ==
    ASSUME HandleInv, NEW p \in Procs, sync(p)
    PROVE  /\ \A q \in Procs : Handle(q)'
           /\ Indexed(mem'[p]) /\ Rising(mem'[p]) /\ Holds(file, mem'[p]) /\ End(mem'[p]) = Len(file)
<1> DEFINE e == LastEntry(p)
<1>1. TypeOK /\ Handle(p) BY DEF HandleInv
<1>2. /\ pc[p] = "write" /\ pc'[p] = "open" /\ UNCHANGED <<file, owner, off, poisoned, frames>>
      /\ \A q \in Procs \ {p} : pc'[q] = pc[q] /\ mem'[q] = mem[q]
      /\ pc[p] \notin Out
  BY <1>1 DEF sync, Go, TypeOK, Out
<1>3. owner' = p /\ ~poisoned[p] /\ Holds(file, mem[p]) /\ Indexed(mem[p]) /\ Rising(mem[p])
  BY <1>1, <1>2 DEF Handle, Reading, Out
<1>4. /\ e.offset = End(mem[p]) /\ e \in Entries /\ Stored(e, file)
      /\ off[p] = e.offset + FrameSize + e.len /\ off[p] = Len(file)
      /\ frames[e.frame] = [seq |-> Len(mem[p]) + 1, len |-> e.len]
  BY <1>1, Written DEF sync
<1>5. mem'[p] = Append(mem[p], e) BY <1>1, SyncType
<1>6. mem[p] \in Seq(Place) /\ e \in Place BY <1>1, <1>4, Parts, Frames
<1> HIDE DEF e
<1>7. Indexed(mem'[p]) /\ Rising(mem'[p]) BY <1>3, <1>4, <1>5, <1>6, AppendChains
<1>8. Holds(file, mem'[p]) BY <1>3, <1>4, <1>5, <1>6, AppendHolds
<1>9. End(mem'[p]) = Len(file) BY <1>4, <1>5, <1>6, AppendEnds
<1>10. Indexed(mem[p])' /\ Rising(mem[p])' /\ Holds(file, mem[p])' BY <1>2, <1>7, <1>8 DEF Indexed, Rising
<1>11. Handle(p)' BY <1>2, <1>3, <1>4, <1>9, <1>10 DEF Handle, AtEnd, AtLast, Out, Before, Reading
<1>12. \A q \in Procs : off'[q] = off[q] /\ poisoned'[q] = poisoned[q] BY <1>2
<1> QED BY <1>2, <1>7, <1>8, <1>9, <1>11, <1>12, AloneInside

LEMMA FailHandle ==
    ASSUME HandleInv, NEW p \in Procs, appendFails(p)
    PROVE  \A q \in Procs : Handle(q)'
<1>1. TypeOK /\ Handle(p) BY DEF HandleInv
<1>2. /\ pc[p] = "write" /\ pc'[p] = "open" /\ poisoned'[p] /\ UNCHANGED <<file, owner, mem, off, frames>>
      /\ \A q \in Procs \ {p} : pc'[q] = pc[q] /\ poisoned'[q] = poisoned[q]
      /\ pc[p] \notin Out
  BY <1>1 DEF appendFails, Go, TypeOK, Out
<1>3. owner' = p /\ Indexed(mem[p])' /\ Rising(mem[p])' /\ Holds(file, mem[p])'
  BY <1>1, <1>2 DEF Handle, Reading, Out, Indexed, Rising
<1>4. Handle(p)' BY <1>2, <1>3 DEF Handle, AtEnd, AtLast, Out, Before, Reading
<1> QED BY <1>2, <1>4, AloneInside

LEMMA NothingSurvives ==
    ASSUME TypeOK, file = <<>>, stable = <<>>, NEW b \in Survivors
    PROVE  b = <<>>
<1>1. Len(file) = 0 /\ Len(stable) = 0 /\ Len(b) \in Nat /\ b \in Seq(Octets) BY SurvivorsKeep
<1>2. Lengths(file) \cup Lengths(stable) \subseteq {0} BY <1>1 DEF Lengths
<1>3. CASE b = stable BY <1>3
<1>4. ASSUME NEW n \in Lengths(file), b = SubSeq(file, 1, n) PROVE b = <<>>
  <2>1. n = 0 BY <1>2
  <2> QED BY <2>1, <1>4
<1>5. ASSUME NEW n \in Lengths(file) \cup Lengths(stable), b \in Mixed(n) PROVE b = <<>>
  <2>1. n = 0 BY <1>2
  <2>2. DOMAIN b = 1..0
    <3>1. PICK new, gone : b = Mixture(n, new, gone) BY <1>5 DEF Mixed
    <3> QED BY <2>1, <3>1 DEF Mixture
  <2>3. Len(b) = 0 BY <2>2, <1>1
  <2> QED BY <2>3, <1>1
<1> QED BY <1>3, <1>4, <1>5, SurvivorParts
LEMMA PowerHandle ==
    ASSUME PowerFails
    PROVE  \A q \in Procs : Handle(q)'
<1> TAKE q \in Procs
<1>1. Idle(q)' BY DEF PowerFails, Idle, Out
<1> QED BY <1>1, IdleHandle

(* Who created the file is past the point where it was absent. *)
LEMMA FreshNext ==
    ASSUME HandleInv, [Next]_vars
    PROVE  Fresh'
<1>1. TypeOK /\ Fresh /\ names \in [{"dir", "journal"} -> {"absent", "volatile", "durable"}]
  BY DEF HandleInv, TypeOK
<1>2. ASSUME NEW p \in Procs, MkdirAll(p) \/ syncParent(p) \/ lockDirectory(p) \/ openFails(p) \/ Crash(p)
      PROVE  Fresh'
  <2>1. /\ names'.journal = names.journal /\ UNCHANGED <<file, stable>>
        /\ \A q \in Procs : pc'[q] \in {pc[q], "closed", "mkdir", "lock", "create"}
    BY <1>1, <1>2 DEF MkdirAll, syncParent, lockDirectory, openFails, Crash, Leave, Go, TypeOK
  <2> QED BY <1>1, <2>1 DEF Fresh, Out
<1>3. ASSUME NEW p \in Procs, openFile(p) PROVE Fresh'
  <2>1. CASE names.journal = "absent"
    <3>1. names'.journal = "volatile" BY <1>1, <1>3, <2>1 DEF openFile
    <3> QED BY <3>1 DEF Fresh
  <2>2. CASE names.journal # "absent" BY <1>3, <2>2 DEF openFile, Fresh
  <2> QED BY <2>1, <2>2
<1>4. ASSUME NEW p \in Procs, syncDirectory(p) PROVE Fresh'
  <2>1. names'.journal = "durable" BY <1>1, <1>4 DEF syncDirectory
  <2> QED BY <2>1 DEF Fresh
<1>5. ASSUME NEW p \in Procs, pc[p] \notin Out \cup {"create"}, UNCHANGED names PROVE Fresh'
  BY <1>1, <1>5 DEF Fresh
<1>6. ASSUME NEW p \in Procs,
             headerSync(p) \/ readHeader(p) \/ readFrame(p) \/ endScan(p) \/ refuse(p) \/ truncate(p)
                \/ tailSync(p) \/ writeFull(p) \/ sync(p) \/ appendFails(p) \/ Close(p)
      PROVE  Fresh'
  <2>1. pc[p] \in {"header", "check", "scan", "truncate", "tail", "write", "open"} /\ UNCHANGED names
    BY <1>6 DEF headerSync, readHeader, readFrame, endScan, refuse, truncate, tailSync, writeFull, sync,
                appendFails, Close
  <2> QED BY <2>1, <1>5 DEF Out
<1>7. ASSUME NEW p \in Procs, NEW n \in 1..MaxPayload, beginAppend(p, n) PROVE Fresh'
  BY <1>5, <1>7 DEF beginAppend, Out
<1>8. ASSUME PowerFails PROVE Fresh'
  <2>1. \A q \in Procs : pc'[q] \in Out \cup {"create"} BY <1>8 DEF PowerFails, Out
  <2>2. CASE file' = <<>>
    <3>1. stable' = <<>> BY <2>2, <1>8 DEF PowerFails
    <3> QED BY <2>1, <2>2, <3>1 DEF Fresh
  <2>3. CASE file' \in Survivors /\ UNCHANGED names
    <3> SUFFICES ASSUME names.journal = "absent" PROVE file' = <<>> /\ stable' = <<>>
      BY <2>1, <2>3 DEF Fresh
    <3>1. file = <<>> /\ stable = <<>> BY <1>1 DEF Fresh
    <3>2. file' = <<>> BY <3>1, <2>3, <1>1, NothingSurvives
    <3> QED BY <3>2, <1>8 DEF PowerFails
  <2> QED BY <2>2, <2>3, <1>8 DEF PowerFails
<1>9. ASSUME UNCHANGED vars PROVE Fresh' BY <1>1, <1>9 DEF vars, handle, Fresh
<1> QED BY <1>2, <1>3, <1>4, <1>6, <1>7, <1>8, <1>9 DEF Next

LEMMA HandleNext == HandleInv /\ [Next]_vars => HandleInv'
<1> SUFFICES ASSUME HandleInv, [Next]_vars PROVE HandleInv'
  OBVIOUS
<1>1. TypeOK' BY TypeNext
<1>2. Fresh' BY FreshNext
<1>3. ASSUME NEW p \in Procs, MkdirAll(p) \/ syncParent(p) \/ lockDirectory(p)
      PROVE  \A q \in Procs : Handle(q)'
  BY <1>3, EnterHandle
<1>4. ASSUME NEW p \in Procs, openFile(p) \/ headerSync(p) \/ syncDirectory(p) \/ readHeader(p)
                                 \/ endScan(p) \/ tailSync(p)
      PROVE  \A q \in Procs : Handle(q)'
  BY <1>1, <1>4, OpenHandle
<1>5. ASSUME NEW p \in Procs, refuse(p) \/ openFails(p) \/ Close(p) \/ Crash(p)
      PROVE  \A q \in Procs : Handle(q)'
  <2>1. Leave(p) /\ UNCHANGED <<file, frames>> BY <1>5 DEF refuse, openFails, Close, Crash
  <2> QED BY <2>1, LeaveHandle
<1>6. ASSUME NEW p \in Procs, writeFull(p) PROVE \A q \in Procs : Handle(q)' BY <1>6, WriteHandle
<1>7. ASSUME NEW p \in Procs, readFrame(p) PROVE \A q \in Procs : Handle(q)' BY <1>1, <1>7, ReadHandle
<1>8. ASSUME NEW p \in Procs, truncate(p) PROVE \A q \in Procs : Handle(q)' BY <1>8, TruncateHandle
<1>9. ASSUME NEW p \in Procs, NEW n \in 1..MaxPayload, beginAppend(p, n) PROVE \A q \in Procs : Handle(q)'
  BY <1>9, BeginHandle
<1>10. ASSUME NEW p \in Procs, sync(p) PROVE \A q \in Procs : Handle(q)' BY <1>10, SyncHandle
<1>11. ASSUME NEW p \in Procs, appendFails(p) PROVE \A q \in Procs : Handle(q)' BY <1>11, FailHandle
<1>12. ASSUME PowerFails PROVE \A q \in Procs : Handle(q)' BY <1>12, PowerHandle
<1>13. ASSUME UNCHANGED vars PROVE \A q \in Procs : Handle(q)'
  <2> TAKE q \in Procs
  <2>1. Handle(q) /\ (pc[q] \notin Out => owner = q) BY DEF HandleInv, Handle
  <2> QED BY <2>1, <1>13, OutsideKeeps DEF vars, handle
<1>14. \A q \in Procs : Handle(q)'
  BY <1>3, <1>4, <1>5, <1>6, <1>7, <1>8, <1>9, <1>10, <1>11, <1>12, <1>13 DEF Next
<1> QED BY <1>1, <1>2, <1>14 DEF HandleInv

LEMMA HandleInit == Init => HandleInv
<1> SUFFICES ASSUME Init PROVE HandleInv
  OBVIOUS
<1>1. TypeOK
  <2>1. <<>> \in Seq(Octets) /\ <<>> \in Seq(Entries) /\ <<>> \in Seq([seq : Nat, len : 1..MaxPayload])
        /\ Len(<<>>) = 0
    OBVIOUS
  <2>2. [p \in Procs |-> <<>>] \in [Procs -> Seq(Octets)] /\ [p \in Procs |-> <<>>] \in [Procs -> Seq(Entries)]
    BY <2>1
  <2> QED BY <2>1, <2>2 DEF Init, TypeOK
<1>2. Fresh BY DEF Init, Fresh, Out
<1>3. ASSUME NEW p \in Procs PROVE Handle(p)
  <2>1. pc[p] = "closed" /\ mem[p] = <<>> /\ off[p] = 0 /\ ~poisoned[p] /\ DOMAIN mem[p] = {} BY DEF Init
  <2> QED BY <2>1 DEF Handle, Out, Before, Reading, AtEnd, AtLast, Indexed, Rising
<1> QED BY <1>1, <1>2, <1>3 DEF HandleInv

(* What a process has open it has alone, what it knows of the file is there, and what it writes
   it writes at the end. *)
THEOREM HandleInvariant == Spec => []HandleInv
BY HandleInit, HandleNext, PTL DEF Spec

-----------------------------------------------------------------------------
(* Steps: what is confirmed. *)

(* Two entries stored at one place are one: its first byte names the frame. *)
LEMMA SameEntry ==
    ASSUME TypeOK, NEW b, NEW d \in Entries, NEW e \in Entries, Stored(d, b), Stored(e, b),
           d.offset = e.offset, frames[d.frame].len = d.len, frames[e.frame].len = e.len
    PROVE  d = e
<1>1. d.len \in Nat /\ e.len \in Nat BY JournalConstants DEF Entries
<1>2. 1 \in 1..FrameSize + d.len /\ 1 \in 1..FrameSize + e.len BY <1>1, JournalConstants
<1>3. b[d.offset + 1] = Byte(d.frame, 1) /\ b[e.offset + 1] = Byte(e.frame, 1) BY <1>2 DEF Stored
<1>4. d.frame = e.frame BY <1>3 DEF Byte
<1> QED BY <1>4 DEF Entries

(* A frame that is stored is read: it is neither torn nor damaged. *)
LEMMA StoredComplete ==
    ASSUME TypeOK, NEW b, Len(b) \in Nat, NEW e \in Entries, Stored(e, b), frames[e.frame].len = e.len
    PROVE  ~Torn(b, e.offset) /\ Complete(b, e.offset) /\ FrameAt(b, e.offset) = e.frame
<1> DEFINE o == e.offset  n == e.len
<1>1. n \in Nat /\ o \in Nat /\ e.frame \in 1..Len(frames) BY JournalConstants, Frames DEF Entries
<1>2. o + FrameSize + n <= Len(b) /\ \A k \in 1..FrameSize + n : b[o + k] = Byte(e.frame, k) BY DEF Stored
<1>3. 1 \in 1..FrameSize + n /\ 1..PrefixSize \subseteq 1..FrameSize + n BY <1>1, JournalConstants
<1>4. FrameAt(b, o) = e.frame
  <2>1. b[o + 1] = Byte(e.frame, 1) BY <1>2, <1>3
  <2> QED BY <2>1 DEF FrameAt, Byte
<1>5. SizeAt(b, o) = FrameSize + n BY <1>4 DEF SizeAt
<1>6. PrefixOK(b, o)
  <2>1. e.frame # 0 BY <1>1, Frames
  <2> QED BY <1>2, <1>3, <1>4, <2>1 DEF PrefixOK
<1> HIDE DEF o, n
<1>7. Left(b, o) >= FrameSize + n /\ Left(b, o) >= FrameSize BY <1>1, <1>2, JournalConstants DEF Left
<1>8. SizeAt(b, o) <= Left(b, o) /\ ~(SizeAt(b, o) > Left(b, o))
  <2>1. FrameSize + n \in Nat /\ Left(b, o) \in Int BY <1>1, JournalConstants DEF Left
  <2> QED BY <2>1, <1>5, <1>7
<1>9. Complete(b, o) BY <1>2, <1>4, <1>5, <1>6, <1>7, <1>8 DEF Complete
<1>10. ~Torn(b, o) BY <1>7, <1>8 DEF Torn
<1> QED BY <1>4, <1>9, <1>10 DEF o

(* Lists that begin alike end alike there. *)
LEMMA AlikeEnds ==
    ASSUME NEW r \in Seq(Place), NEW s \in Seq(Place), NEW n \in 0..Len(r), n <= Len(s),
           \A i \in 1..n : r[i] = s[i]
    PROVE  EndOf(r, n) = EndOf(s, n)
<1>1. CASE n = 0 BY <1>1 DEF EndOf
<1>2. CASE n # 0
  <2>1. n \in 1..n BY <1>2, Ends
  <2> QED BY <1>2, <2>1 DEF EndOf
<1> QED BY <1>1, <1>2

(* What comes next behind the first frames of a list is its next frame. *)
LEMMA NextEntry ==
    ASSUME TypeOK, NEW b, Len(b) \in Nat, NEW r \in Seq(Entries), NEW s \in Seq(Entries),
           Indexed(s), Holds(b, s), Len(r) < Len(s), \A i \in 1..Len(r) : r[i] = s[i]
    PROVE  LET e == s[Len(r) + 1] IN
           /\ e \in Entries /\ e.offset = End(r) /\ Stored(e, b)
           /\ frames[e.frame] = [seq |-> Len(r) + 1, len |-> e.len]
<1>1. r \in Seq(Place) /\ s \in Seq(Place) BY Frames
<1>2. Len(r) \in Nat /\ Len(s) \in Nat /\ DOMAIN s = 1..Len(s) BY <1>1, Ends
<1>3. Len(r) + 1 \in 1..Len(s) /\ (Len(r) + 1) - 1 = Len(r) /\ Len(r) \in 0..Len(r) BY <1>2
<1>4. EndOf(s, Len(r)) = End(r)
  <2>1. EndOf(r, Len(r)) = EndOf(s, Len(r)) BY <1>1, <1>2, <1>3, AlikeEnds
  <2> QED BY <2>1 DEF End
<1>5. s[Len(r) + 1].offset = EndOf(s, Len(r))
      /\ frames[s[Len(r) + 1].frame] = [seq |-> Len(r) + 1, len |-> s[Len(r) + 1].len]
  BY <1>2, <1>3 DEF Indexed
<1>6. s[Len(r) + 1] \in Entries BY <1>3
<1>7. Stored(s[Len(r) + 1], b) BY <1>2, <1>3 DEF Holds
<1> QED BY <1>4, <1>5, <1>6, <1>7

LEMMA AckedKeeps ==
    ASSUME AckedInv, UNCHANGED <<file, stable, frames, acked>>
    PROVE  Confirmed'
BY DEF AckedInv, Confirmed, SameUpTo, Indexed

LEMMA AckedTypes ==
    ASSUME TypeOK
    PROVE  acked \in Seq(Entries) /\ acked \in Seq(Place) /\ Len(acked) \in Nat
           /\ DOMAIN acked = 1..Len(acked) /\ End(acked) \in Nat
           /\ (acked = <<>> <=> Len(acked) = 0)
<1>1. acked \in Seq(Entries) BY DEF TypeOK
<1>2. acked \in Seq(Place) BY <1>1, Frames
<1> QED BY <1>1, <1>2, Ends

LEMMA ConfirmedNext ==
    ASSUME EntryLoss = FALSE, HandleInv, AckedInv, [Next]_vars
    PROVE  Confirmed'
<1>1. TypeOK /\ Confirmed /\ \A q \in Procs : Handle(q) /\ Finds(q) BY DEF HandleInv, AckedInv
<1>2. acked \in Seq(Entries) /\ acked \in Seq(Place) /\ End(acked) \in Nat /\ Len(acked) \in Nat
  BY <1>1, AckedTypes
<1>3. Len(file) \in Nat /\ Len(stable) \in Nat BY <1>1 DEF TypeOK
<1>4. ASSUME acked # <<>>
      PROVE  /\ Indexed(acked) /\ Rising(acked) /\ Holds(file, acked)
             /\ End(acked) <= Len(file) /\ End(acked) <= Len(stable)
             /\ \A k \in 1..End(acked) : file[k] = stable[k]
  BY <1>1, <1>4 DEF Confirmed, SameUpTo
<1>5. ASSUME NEW p \in Procs,
             MkdirAll(p) \/ syncParent(p) \/ lockDirectory(p) \/ openFile(p) \/ syncDirectory(p)
                \/ readHeader(p) \/ readFrame(p) \/ endScan(p) \/ refuse(p) \/ openFails(p)
                \/ appendFails(p) \/ Close(p) \/ Crash(p)
      PROVE  Confirmed'
  <2>1. UNCHANGED <<file, stable, frames, acked>>
    BY <1>5 DEF MkdirAll, syncParent, lockDirectory, openFile, syncDirectory, readHeader, readFrame,
                endScan, refuse, openFails, appendFails, Close, Crash
  <2> QED BY <2>1, AckedKeeps
<1>6. ASSUME NEW p \in Procs, headerSync(p) \/ tailSync(p) PROVE Confirmed'
  <2>1. stable' = file /\ UNCHANGED <<file, frames, acked>> BY <1>6 DEF headerSync, tailSync
  <2>2. acked # <<>> => SameUpTo(End(acked))' BY <2>1, <1>4 DEF SameUpTo
  <2> QED BY <2>1, <2>2, <1>4 DEF Confirmed, Indexed
<1>7. ASSUME NEW p \in Procs, NEW n \in 1..MaxPayload, beginAppend(p, n) PROVE Confirmed'
  <2>1. UNCHANGED <<file, stable, acked>> BY <1>7 DEF beginAppend
  <2>2. \A f \in 1..Len(frames) : frames'[f] = frames[f] BY <1>1, <1>7, BeginGrows
  <2>3. acked # <<>> => Indexed(acked)'
    <3> HAVE acked # <<>>
    <3>1. \A i \in DOMAIN acked : /\ frames'[acked[i].frame] = [seq |-> i, len |-> acked[i].len]
                                  /\ acked[i].offset = EndOf(acked, i - 1)
      BY <1>1, <1>2, <1>4, <2>2, IndexedKeeps
    <3> QED BY <2>1, <3>1 DEF Indexed
  <2> QED BY <1>1, <2>1, <2>3 DEF Confirmed, SameUpTo
<1>8. ASSUME NEW p \in Procs, sync(p) PROVE Confirmed'
  <2>1. /\ Indexed(mem'[p]) /\ Rising(mem'[p]) /\ Holds(file, mem'[p]) /\ End(mem'[p]) = Len(file)
    BY <1>8, SyncHandle
  <2>2. acked' = mem'[p] /\ stable' = file /\ UNCHANGED <<file, frames>> BY <1>8 DEF sync
  <2>3. SameUpTo(End(acked))' BY <2>1, <2>2, <1>3 DEF SameUpTo
  <2> QED BY <2>1, <2>2, <2>3 DEF Confirmed, Indexed
<1>9. ASSUME NEW p \in Procs, writeFull(p) PROVE Confirmed'
  <2>1. Len(file') = Len(file) + 1 /\ \A i \in 1..Len(file) : file'[i] = file[i]
    BY <1>1, <1>9, WriteType, WriteGrows
  <2>2. UNCHANGED <<stable, frames, acked>> BY <1>9 DEF writeFull
  <2>3. ASSUME acked # <<>> PROVE Holds(file', acked) /\ SameUpTo(End(acked))'
    <3>1. \A k \in 1..End(acked) : k \in 1..Len(file) BY <1>2, <1>3, <1>4, <2>3
    <3>2. Len(file') \in Nat /\ End(acked) <= Len(file') BY <1>2, <1>3, <1>4, <2>1, <2>3
    <3>3. \A k \in 1..End(acked) : file'[k] = file[k] BY <2>1, <3>1
    <3>4. Holds(file', acked) BY <1>2, <1>3, <1>4, <2>3, <3>2, <3>3, HoldsUpTo
    <3> QED BY <1>4, <2>2, <2>3, <3>2, <3>3, <3>4 DEF SameUpTo
  <2> QED BY <1>4, <2>2, <2>3 DEF Confirmed, Indexed
<1>10. ASSUME NEW p \in Procs, truncate(p) PROVE Confirmed'
  <2>1. Len(file') = off[p] /\ \A i \in 1..off[p] : file'[i] = file[i] BY <1>1, <1>10, TruncateType
  <2>2. UNCHANGED <<stable, frames, acked>> /\ pc[p] = "truncate" BY <1>10 DEF truncate
  <2>3. off[p] \in Nat /\ mem[p] \in Seq(Place) /\ off[p] = End(mem[p]) /\ Rising(mem[p])
    BY <1>1, <2>2, Parts DEF Handle, AtEnd
  <2>4. ASSUME acked # <<>> PROVE Holds(file', acked) /\ SameUpTo(End(acked))'
    <3>1. Len(acked) <= Len(mem[p]) BY <1>1, <2>2 DEF Finds, Reading
    <3>2. \A i \in 1..Len(acked) : mem[p][i] = acked[i]
      <4>1. DOMAIN acked = 1..Len(acked) /\ Len(mem[p]) \in Nat BY <1>2, <2>3, Ends
      <4>2. \A i \in DOMAIN acked : i <= Len(mem[p]) => mem[p][i] = acked[i] BY <1>1 DEF Finds
      <4>3. \A i \in 1..Len(acked) : i <= Len(mem[p]) BY <1>2, <3>1, <4>1
      <4> QED BY <4>1, <4>2, <4>3
    <3>3. Len(mem[p]) \in Nat BY <2>3, Ends
    <3>4. EndOf(mem[p], Len(acked)) = End(acked) BY <1>2, <2>3, <3>1, <3>2, <3>3, AlikeEnds DEF End
    <3>5. End(acked) <= off[p]
      <4>1. Len(acked) \in 0..Len(mem[p]) BY <1>2, <3>1, <3>3
      <4> QED BY <4>1, <2>3, <3>4, Highest
    <3>6. \A k \in 1..End(acked) : file'[k] = file[k]
      <4>1. \A k \in 1..End(acked) : k \in 1..off[p] BY <1>2, <2>3, <3>5
      <4> QED BY <4>1, <2>1
    <3>7. Holds(file', acked) BY <1>2, <1>3, <1>4, <2>1, <2>3, <2>4, <3>5, <3>6, HoldsUpTo
    <3> QED BY <1>4, <2>1, <2>2, <2>4, <3>5, <3>6, <3>7 DEF SameUpTo
  <2> QED BY <1>4, <2>2, <2>4 DEF Confirmed, Indexed
<1>11. ASSUME PowerFails PROVE Confirmed'
  <2>1. file' \in Survivors /\ stable' = file' /\ UNCHANGED <<frames, acked>> BY <1>11 DEF PowerFails
  <2>2. Len(file') \in Nat /\ \A m \in Nat : SameUpTo(m) => m <= Len(file') /\ \A i \in 1..m : file'[i] = file[i]
    BY <1>1, <2>1, SurvivorsKeep
  <2>3. ASSUME acked # <<>> PROVE Holds(file', acked) /\ SameUpTo(End(acked))'
    <3>1. SameUpTo(End(acked)) BY <1>1, <2>3 DEF Confirmed
    <3>2. End(acked) <= Len(file') /\ \A i \in 1..End(acked) : file'[i] = file[i] BY <1>2, <2>2, <3>1
    <3>3. Holds(file', acked) BY <1>2, <1>3, <1>4, <2>2, <2>3, <3>2, HoldsUpTo
    <3> QED BY <2>1, <3>2, <3>3 DEF SameUpTo
  <2> QED BY <1>4, <2>1, <2>3 DEF Confirmed, Indexed
<1>12. ASSUME UNCHANGED vars PROVE Confirmed' BY <1>12, AckedKeeps DEF vars
<1> QED BY <1>5, <1>6, <1>7, <1>8, <1>9, <1>10, <1>11, <1>12 DEF Next

LEMMA FindsIdle ==
    ASSUME NEW q \in Procs, TypeOK', Idle(q)'
    PROVE  Finds(q)'
<1>1. mem'[q] = <<>> /\ Len(mem'[q]) = 0 /\ pc'[q] \in Out BY DEF Idle
<1>2. ASSUME NEW i \in DOMAIN acked', i <= Len(mem'[q]) PROVE mem'[q][i] = acked'[i]
  <2>1. acked' \in Seq(Entries') BY DEF TypeOK
  <2>2. i \in 1..Len(acked') BY <1>2, <2>1
  <2> QED BY <1>1, <1>2, <2>2
<1> QED BY <1>1, <1>2 DEF Finds, Out, Reading

LEMMA FindsKeeps ==
    ASSUME NEW q \in Procs, Finds(q), UNCHANGED acked, mem'[q] = mem[q],
           \/ pc'[q] = pc[q]
           \/ pc'[q] \notin {"header", "truncate", "tail", "open", "write"}
           \/ pc[q] \in Reading \ {"scan"} /\ pc'[q] \in Reading
    PROVE  Finds(q)'
BY DEF Finds, Reading

LEMMA FindsNext ==
    ASSUME HandleInv, HandleInv', AckedInv, [Next]_vars
    PROVE  \A q \in Procs : Finds(q)'
<1>1. TypeOK /\ Confirmed /\ Fresh /\ \A q \in Procs : Handle(q) /\ Finds(q)
  BY DEF HandleInv, AckedInv
<1>2. acked \in Seq(Entries) /\ acked \in Seq(Place) /\ Len(acked) \in Nat /\ DOMAIN acked = 1..Len(acked)
      /\ (acked = <<>> <=> Len(acked) = 0)
  BY <1>1, AckedTypes
<1>3. Len(file) \in Nat /\ HeaderSize \in Nat /\ HeaderSize > 0 BY <1>1, JournalConstants DEF TypeOK
<1>4. ASSUME NEW p \in Procs, Leave(p), UNCHANGED acked PROVE \A q \in Procs : Finds(q)'
  <2> TAKE q \in Procs
  <2>1. CASE q = p
    <3>1. Idle(q)' BY <1>1, <1>4, <2>1 DEF Leave, Go, Idle, Out, TypeOK
    <3> QED BY <3>1, FindsIdle DEF HandleInv
  <2>2. CASE q # p
    <3>1. pc'[q] = pc[q] /\ mem'[q] = mem[q] BY <1>1, <1>4, <2>2 DEF Leave, Go, TypeOK
    <3> QED BY <3>1, <1>1, <1>4, FindsKeeps
  <2> QED BY <2>1, <2>2
<1>5. ASSUME NEW p \in Procs, refuse(p) \/ openFails(p) \/ Close(p) \/ Crash(p)
      PROVE  \A q \in Procs : Finds(q)'
  BY <1>4, <1>5 DEF refuse, openFails, Close, Crash
<1>6. ASSUME NEW p \in Procs,
             MkdirAll(p) \/ syncParent(p) \/ lockDirectory(p) \/ headerSync(p) \/ syncDirectory(p)
                \/ readHeader(p) \/ truncate(p) \/ tailSync(p) \/ writeFull(p) \/ appendFails(p)
      PROVE  \A q \in Procs : Finds(q)'
  <2> TAKE q \in Procs
  <2>1. /\ UNCHANGED <<acked, mem>>
        /\ \/ pc'[q] = pc[q]
           \/ pc'[q] \in {"closed", "mkdir", "lock", "create", "entry", "check", "scan"}
           \/ pc[q] \in {"truncate", "tail", "write"} /\ pc'[q] \in {"tail", "open"}
    BY <1>1, <1>6 DEF MkdirAll, syncParent, lockDirectory, headerSync, syncDirectory, readHeader, truncate,
                      tailSync, writeFull, appendFails, Go, TypeOK
  <2> QED BY <1>1, <2>1, FindsKeeps DEF Reading
<1>7. ASSUME NEW p \in Procs, openFile(p) PROVE \A q \in Procs : Finds(q)'
  <2> TAKE q \in Procs
  <2>1. UNCHANGED <<acked, mem>> /\ (pc'[q] = pc[q] \/ pc'[q] \in {"check", "header"}) BY <1>1, <1>7 DEF openFile, Go, TypeOK
  <2>2. CASE pc'[q] = "header" /\ pc[q] # "header"
    <3>1. names.journal = "absent" BY <1>1, <1>7, <2>2 DEF openFile, Go, TypeOK
    <3>2. Len(file) = 0 BY <1>1, <3>1 DEF Fresh
    <3>3. ~HeaderOK(file) BY <1>3, <3>2 DEF HeaderOK
    <3>4. acked = <<>> BY <1>1, <3>3 DEF Confirmed, Holds
    <3> QED BY <2>1, <2>2, <3>4, <1>2 DEF Finds, Reading
  <2>3. CASE pc'[q] # "header" \/ pc[q] = "header" BY <1>1, <2>1, <2>3, FindsKeeps
  <2> QED BY <2>2, <2>3
<1>8. ASSUME NEW p \in Procs, readFrame(p) PROVE \A q \in Procs : Finds(q)'
  <2> DEFINE e == Entry(FrameAt(file, off[p]), off[p])
  <2>1. /\ e \in Entries /\ Stored(e, file) /\ e.offset = End(mem[p])
        /\ mem'[p] = Append(mem[p], e)
        /\ frames[e.frame] = [seq |-> Len(mem[p]) + 1, len |-> e.len]
    BY <1>8, ReadHandle DEF HandleInv
  <2>2. pc' = pc /\ UNCHANGED acked /\ pc[p] = "scan" /\ \A q \in Procs \ {p} : mem'[q] = mem[q]
    BY <1>1, <1>8 DEF readFrame, TypeOK
  <2>3. mem[p] \in Seq(Entries) /\ mem[p] \in Seq(Place) /\ e \in Place BY <1>1, <2>1, Parts, Frames
  <2>4. Len(mem[p]) \in Nat BY <2>3, Ends
  <2> HIDE DEF e
  <2>5. ASSUME NEW i \in DOMAIN acked, i <= Len(mem'[p]) PROVE mem'[p][i] = acked[i]
    <3>1. i \in 1..Len(acked) /\ Len(mem'[p]) = Len(mem[p]) + 1 /\ mem'[p][Len(mem[p]) + 1] = e
          /\ \A k \in 1..Len(mem[p]) : mem'[p][k] = mem[p][k]
      BY <1>2, <2>1, <2>3, AppendEnds
    <3>2. CASE i <= Len(mem[p])
      <4>1. mem[p][i] = acked[i] BY <1>1, <3>2 DEF Finds
      <4>2. i \in 1..Len(mem[p]) BY <3>1, <3>2, <2>4
      <4> QED BY <3>1, <4>1, <4>2
    <3>3. CASE i = Len(mem[p]) + 1
      <4>1. acked # <<>> BY <1>2, <3>1
      <4>2. Indexed(acked) /\ Holds(file, acked) BY <1>1, <4>1 DEF Confirmed
      <4>3. \A k \in 1..Len(mem[p]) : mem[p][k] = acked[k]
        <5>1. \A k \in 1..Len(mem[p]) : k \in DOMAIN acked /\ k <= Len(mem[p]) BY <1>2, <2>4, <3>1, <3>3
        <5> QED BY <5>1, <1>1 DEF Finds
      <4>4. Len(mem[p]) < Len(acked) BY <3>1, <3>3, <2>4, <1>2
      <4>5. /\ acked[i] \in Entries /\ acked[i].offset = End(mem[p]) /\ Stored(acked[i], file)
            /\ frames[acked[i].frame] = [seq |-> Len(mem[p]) + 1, len |-> acked[i].len]
        BY <1>1, <1>2, <1>3, <2>3, <3>3, <4>2, <4>3, <4>4, NextEntry
      <4>6. frames[acked[i].frame].len = acked[i].len /\ frames[e.frame].len = e.len BY <2>1, <4>5
      <4>7. acked[i] = e BY <1>1, <2>1, <4>5, <4>6, SameEntry
      <4> QED BY <3>1, <3>3, <4>7
    <3> QED BY <2>5, <3>1, <3>2, <3>3, <2>4
  <2>6. Finds(p)' BY <2>2, <2>5 DEF Finds, Reading
  <2>7. \A q \in Procs \ {p} : Finds(q)' BY <1>1, <2>2, FindsKeeps
  <2> QED BY <2>6, <2>7
<1>9. ASSUME NEW p \in Procs, endScan(p) PROVE \A q \in Procs : Finds(q)'
  <2>1. /\ UNCHANGED <<acked, mem>> /\ pc[p] = "scan" /\ pc'[p] \in {"open", "truncate"}
        /\ Torn(file, off[p]) /\ \A q \in Procs \ {p} : pc'[q] = pc[q]
    BY <1>1, <1>9 DEF endScan, Go, TypeOK
  <2>2. off[p] = End(mem[p]) /\ mem[p] \in Seq(Entries) /\ mem[p] \in Seq(Place)
    BY <1>1, <2>1, Parts DEF Handle, AtEnd
  <2>3. Len(mem[p]) \in Nat BY <2>2, Ends
  <2>4. Len(acked) <= Len(mem[p])
    <3> SUFFICES ASSUME Len(mem[p]) < Len(acked) PROVE FALSE
      BY <1>2, <2>3
    <3> DEFINE d == acked[Len(mem[p]) + 1]
    <3>1. acked # <<>> BY <1>2, <2>3
    <3>2. Indexed(acked) /\ Holds(file, acked) BY <1>1, <3>1 DEF Confirmed
    <3>3. \A k \in 1..Len(mem[p]) : mem[p][k] = acked[k]
      <4>1. \A k \in 1..Len(mem[p]) : k \in DOMAIN acked /\ k <= Len(mem[p]) BY <1>2, <2>3
      <4> QED BY <4>1, <1>1 DEF Finds
    <3>4. /\ d \in Entries /\ d.offset = End(mem[p]) /\ Stored(d, file)
          /\ frames[d.frame] = [seq |-> Len(mem[p]) + 1, len |-> d.len]
      BY <1>1, <1>2, <1>3, <2>2, <3>2, <3>3, NextEntry
    <3>5. frames[d.frame].len = d.len BY <3>4
    <3> HIDE DEF d
    <3>6. ~Torn(file, d.offset) BY <1>1, <1>3, <3>4, <3>5, StoredComplete
    <3> QED BY <2>1, <2>2, <3>4, <3>6
  <2>5. Finds(p)' BY <1>1, <2>1, <2>4 DEF Finds, Reading
  <2>6. \A q \in Procs \ {p} : Finds(q)' BY <1>1, <2>1, FindsKeeps
  <2> QED BY <2>5, <2>6
<1>10. ASSUME NEW p \in Procs, NEW n \in 1..MaxPayload, beginAppend(p, n) PROVE \A q \in Procs : Finds(q)'
  <2> TAKE q \in Procs
  <2>1. /\ UNCHANGED <<acked, mem>>
        /\ \/ pc'[q] = pc[q]
           \/ pc[q] = "open" /\ pc'[q] = "write"
    BY <1>1, <1>10 DEF beginAppend, Go, TypeOK
  <2> QED BY <1>1, <2>1, FindsKeeps DEF Reading
<1>11. ASSUME NEW p \in Procs, sync(p) PROVE \A q \in Procs : Finds(q)'
  <2>1. acked' = mem'[p] /\ pc'[p] = "open" /\ pc[p] \notin Out BY <1>1, <1>11 DEF sync, Go, TypeOK, Out
  <2>2. mem'[p] \in Seq(Entries') BY DEF HandleInv, TypeOK
  <2>3. Len(mem'[p]) \in Nat BY <2>2
  <2>4. Finds(p)' BY <2>1, <2>3 DEF Finds
  <2>5. ASSUME NEW q \in Procs \ {p} PROVE Finds(q)'
    <3>1. Idle(q) BY <1>1, <2>1, OthersIdle
    <3>2. Idle(q)' BY <1>1, <1>11, <3>1 DEF sync, Go, TypeOK, Idle
    <3> QED BY <3>2, FindsIdle DEF HandleInv
  <2> QED BY <2>4, <2>5
<1>12. ASSUME PowerFails PROVE \A q \in Procs : Finds(q)'
  <2> TAKE q \in Procs
  <2>1. Idle(q)' BY <1>12 DEF PowerFails, Idle, Out
  <2> QED BY <2>1, FindsIdle DEF HandleInv
<1>13. ASSUME UNCHANGED vars PROVE \A q \in Procs : Finds(q)' BY <1>1, <1>13, FindsKeeps DEF vars, handle
<1> QED BY <1>5, <1>6, <1>7, <1>8, <1>9, <1>10, <1>11, <1>12, <1>13 DEF Next

LEMMA AckedInit == Init => AckedInv
BY DEF Init, AckedInv, Confirmed, Finds, Reading

LEMMA AckedGives == HandleInv /\ AckedInv => AckedRecovered
<1> SUFFICES ASSUME HandleInv, AckedInv PROVE AckedRecovered
  OBVIOUS
<1>1. TypeOK BY DEF HandleInv
<1>2. acked \in Seq(Entries) /\ Len(acked) \in Nat /\ DOMAIN acked = 1..Len(acked) BY <1>1, AckedTypes
<1>3. acked # <<>> => Indexed(acked) /\ Holds(file, acked) BY DEF AckedInv, Confirmed
<1>4. ASSUME NEW p \in Procs, Ready(p) PROVE IsPrefix(acked, mem[p])
  <2>1. Finds(p) /\ pc[p] \in Reading \ {"scan"} BY <1>4 DEF AckedInv, Ready, Reading
  <2>2. Len(acked) <= Len(mem[p]) BY <2>1 DEF Finds
  <2>3. mem[p] \in Seq(Entries) /\ Len(mem[p]) \in Nat BY <1>1, Parts
  <2>4. \A i \in 1..Len(acked) : mem[p][i] = acked[i]
    <3>1. \A i \in 1..Len(acked) : i \in DOMAIN acked /\ i <= Len(mem[p]) BY <1>2, <2>2, <2>3
    <3> QED BY <3>1, <2>1 DEF Finds
  <2>5. SubSeq(acked, 1, Len(acked)) = SubSeq(mem[p], 1, Len(acked))
    <3>1. /\ SubSeq(mem[p], 1, Len(acked)) \in Seq(Entries) /\ Len(SubSeq(mem[p], 1, Len(acked))) = Len(acked)
          /\ \A i \in 1..Len(acked) : SubSeq(mem[p], 1, Len(acked))[i] = mem[p][i]
      BY <1>2, <2>2, <2>3
    <3>2. /\ SubSeq(acked, 1, Len(acked)) \in Seq(Entries) /\ Len(SubSeq(acked, 1, Len(acked))) = Len(acked)
          /\ \A i \in 1..Len(acked) : SubSeq(acked, 1, Len(acked))[i] = acked[i]
      BY <1>2
    <3> HIDE DEF Entries
    <3> QED BY <3>1, <3>2, <2>4, SeqEqual
  <2> QED BY <2>2, <2>5 DEF IsPrefix
<1> QED BY <1>3, <1>4 DEF AckedRecovered

(* Every frame an Append confirmed is whole in the file, in order, whatever processes, crashes,
   failures and losses of power came after, and a process that opened the journal knows it, as long
   as no directory entry is lost: Open does not sync the entry of a file it finds (run journal_entry). *)
THEOREM AckedTheorem ==
    ASSUME EntryLoss = FALSE
    PROVE  Spec => []AckedRecovered
<1>1. Init => HandleInv /\ AckedInv BY HandleInit, AckedInit
<1>2. HandleInv /\ AckedInv /\ [Next]_vars => (HandleInv /\ AckedInv)'
  BY HandleNext, ConfirmedNext, FindsNext DEF AckedInv
<1>3. HandleInv /\ AckedInv => AckedRecovered BY AckedGives
<1> QED BY <1>1, <1>2, <1>3, PTL DEF Spec

-----------------------------------------------------------------------------
(* Steps: half-written files. *)

(* A set of natural numbers that is not empty has a least element. *)
LEMMA Least ==
    ASSUME NEW T \in SUBSET Nat, T # {}
    PROVE  \E x \in T : \A y \in T : x <= y
<1> DEFINE R == OpToRel(<, Nat)
<1>1. PICK x \in T : \A y \in T : <<y, x>> \notin R
  BY WFMin, NatLessThanWellFounded
<1>2. ASSUME NEW y \in T, y < x PROVE <<y, x>> \in R
  BY <1>2 DEF OpToRel
<1> HIDE DEF R
<1>3. \A y \in T : x <= y
  <2> TAKE y \in T
  <2>1. ~(y < x) BY <1>1, <1>2, Zenon
  <2> QED BY <2>1
<1> QED BY <1>3

(* Frames begun later take nothing from what was read. *)
LEMMA ReadsGrow ==
    ASSUME NEW fr, NEW fs, \A f \in DOMAIN fr : f \in DOMAIN fs /\ fs[f] = fr[f],
           NEW b, NEW r, Reads(fr, b, r)
    PROVE  Reads(fs, b, r)
<1>1. Chain(fs, r) BY DEF Reads, Chain
<1>2. Begins(fs, b, End(r))
  <2>1. CASE End(r) = Len(b) BY <2>1 DEF Begins
  <2>2. CASE End(r) # Len(b)
    <3>1. PICK f \in DOMAIN fr : /\ Len(b) - End(r) < FrameSize + fr[f].len
                                 /\ \A i \in 1..Len(b) - End(r) : b[End(r) + i] = Byte(f, i)
      BY <2>2 DEF Reads, Begins
    <3> QED BY <3>1 DEF Begins
  <2> QED BY <2>1, <2>2
<1> QED BY <1>1, <1>2 DEF Reads

LEMMA TidyGrows ==
    ASSUME NEW fr, NEW fs, \A f \in DOMAIN fr : f \in DOMAIN fs /\ fs[f] = fr[f],
           NEW b, Tidy(fr, b)
    PROVE  Tidy(fs, b)
BY ReadsGrow DEF Tidy

(* The beginning of a list of frames. *)
LEMMA Shorter ==
    ASSUME NEW fr, NEW r \in Seq(Place), Chain(fr, r), Rising(r), NEW m \in 0..Len(r)
    PROVE  LET s == SubSeq(r, 1, m) IN
           /\ s \in Seq(Place) /\ Chain(fr, s) /\ Rising(s) /\ End(s) = EndOf(r, m) /\ Len(s) = m
           /\ \A i \in 1..m : s[i] = r[i]
<1> DEFINE s == SubSeq(r, 1, m)
<1>1. Len(r) \in Nat /\ DOMAIN r = 1..Len(r) /\ m \in Nat /\ m <= Len(r) BY Ends
<1>2. s \in Seq(Place) /\ Len(s) = m /\ \A i \in 1..m : s[i] = r[i] BY <1>1
<1> HIDE DEF s
<1>3. DOMAIN s = 1..m BY <1>2, Ends
<1>4. \A i \in 0..m : EndOf(s, i) = EndOf(r, i)
  <2> TAKE i \in 0..m
  <2>1. i \in 0..Len(s) /\ i <= Len(r) BY <1>1, <1>2
  <2>2. \A k \in 1..i : s[k] = r[k] BY <1>1, <1>2
  <2> QED BY <1>2, <2>1, <2>2, AlikeEnds
<1>5. End(s) = EndOf(r, m)
  <2>1. m \in 0..m BY <1>1
  <2> QED BY <2>1, <1>2, <1>4 DEF End
<1>6. Chain(fr, s)
  <2> SUFFICES ASSUME NEW i \in 1..m
               PROVE  /\ s[i].frame \in DOMAIN fr
                      /\ fr[s[i].frame] = [seq |-> i, len |-> s[i].len]
                      /\ s[i].offset = EndOf(s, i - 1)
    BY <1>3 DEF Chain
  <2>1. i \in DOMAIN r /\ i - 1 \in 0..m BY <1>1
  <2>2. EndOf(s, i - 1) = EndOf(r, i - 1) /\ s[i] = r[i] BY <2>1, <1>2, <1>4
  <2> QED BY <2>1, <2>2 DEF Chain
<1>7. Rising(s)
  <2> SUFFICES ASSUME NEW i \in 1..m, NEW j \in 0..i PROVE EndOf(s, j) <= EndOf(s, i)
    BY <1>3 DEF Rising
  <2>1. i \in DOMAIN r /\ i \in 0..m /\ j \in 0..m BY <1>1
  <2>2. EndOf(r, j) <= EndOf(r, i) BY <2>1 DEF Rising
  <2> QED BY <2>1, <2>2, <1>4
<1> QED BY <1>2, <1>5, <1>6, <1>7 DEF s

(* What is left of a tidy file is tidy. *)
LEMMA TidyShorter ==
    ASSUME NEW fr, NEW b, NEW c, Len(b) \in Nat, Len(c) \in Nat, Len(c) <= Len(b),
           \A i \in 1..Len(c) : c[i] = b[i], Tidy(fr, b),
           \A f \in DOMAIN fr : fr[f].len \in Nat
    PROVE  Tidy(fr, c)
<1> SUFFICES ASSUME HeaderOK(c) PROVE \E r : Reads(fr, c, r)
  BY DEF Tidy
<1> DEFINE n == Len(c)
<1>1. HeaderSize \in Nat /\ HeaderSize <= n BY JournalConstants DEF HeaderOK
<1>2. HeaderOK(b)
  <2>1. \A i \in 1..HeaderSize : i \in 1..n BY <1>1
  <2>2. \A i \in 1..HeaderSize : b[i] = Byte(0, i) BY <2>1 DEF HeaderOK
  <2> QED BY <2>2, <1>1 DEF HeaderOK
<1>3. PICK r : Reads(fr, b, r) BY <1>2 DEF Tidy
<1>4. /\ r \in Seq(Place) /\ Chain(fr, r) /\ Rising(r) /\ Holds(b, r)
      /\ End(r) <= Len(b) /\ Begins(fr, b, End(r))
  BY <1>3 DEF Reads
<1>5. /\ Len(r) \in Nat /\ DOMAIN r = 1..Len(r) /\ End(r) \in Nat
      /\ \A i \in 0..Len(r) : EndOf(r, i) \in Nat
  BY <1>4, Ends
<1>6. CASE End(r) <= n
  <2>1. \A k \in 1..End(r) : k \in 1..n BY <1>5, <1>6
  <2>2. \A k \in 1..End(r) : c[k] = b[k] BY <2>1
  <2>3. Holds(c, r) BY <1>4, <1>6, <2>2, HoldsUpTo
  <2>4. Begins(fr, c, End(r))
    <3>1. CASE End(r) = n BY <3>1 DEF Begins
    <3>2. CASE End(r) # n
      <4>1. End(r) # Len(b) BY <1>5, <1>6, <3>2
      <4>2. PICK f \in DOMAIN fr : /\ Len(b) - End(r) < FrameSize + fr[f].len
                                   /\ \A i \in 1..Len(b) - End(r) : b[End(r) + i] = Byte(f, i)
        BY <1>4, <4>1 DEF Begins
      <4>3. FrameSize + fr[f].len \in Nat BY JournalConstants
      <4>4. n - End(r) < FrameSize + fr[f].len BY <4>2, <4>3, <1>5
      <4>5. ASSUME NEW i \in 1..n - End(r) PROVE c[End(r) + i] = Byte(f, i)
        <5>1. i \in 1..Len(b) - End(r) /\ End(r) + i \in 1..n BY <1>5
        <5> QED BY <4>2, <5>1
      <4> QED BY <4>4, <4>5 DEF Begins
    <3> QED BY <3>1, <3>2
  <2>5. Reads(fr, c, r) BY <1>4, <1>6, <2>3, <2>4 DEF Reads
  <2> QED BY <2>5
<1>7. CASE ~(End(r) <= n)
  <2> DEFINE T == {i \in 1..Len(r) : EndOf(r, i) > n}
  <2>1. Len(r) # 0
    <3>1. Len(r) = 0 => End(r) = HeaderSize BY DEF End, EndOf
    <3> QED BY <3>1, <1>1, <1>7
  <2>2. Len(r) \in T BY <2>1, <1>5, <1>7 DEF End
  <2>3. PICK m \in T : \A y \in T : m <= y
    <3>1. T \in SUBSET Nat /\ T # {} BY <2>2, <1>5
    <3> HIDE DEF T
    <3> QED BY <3>1, Least
  <2>4. m \in 1..Len(r) /\ EndOf(r, m) > n /\ m \in Nat BY <1>5
  <2>5. \A i \in 0..m - 1 : EndOf(r, i) <= n
    <3> TAKE i \in 0..m - 1
    <3>1. CASE i = 0 BY <3>1, <1>1 DEF EndOf
    <3>2. CASE i # 0
      <4>1. i \in 1..Len(r) /\ ~(m <= i) /\ i \in 0..Len(r) BY <3>2, <2>4, <1>5
      <4>2. i \notin T BY <2>3, <4>1
      <4> QED BY <4>1, <4>2, <1>5
    <3> QED BY <3>1, <3>2
  <2> HIDE DEF T
  <2> DEFINE s == SubSeq(r, 1, m - 1)
  <2>6. /\ s \in Seq(Place) /\ Chain(fr, s) /\ Rising(s) /\ End(s) = EndOf(r, m - 1) /\ Len(s) = m - 1
        /\ \A i \in 1..m - 1 : s[i] = r[i]
    <3>1. m - 1 \in 0..Len(r) BY <2>4, <1>5
    <3> QED BY <1>4, <3>1, Shorter
  <2> HIDE DEF s
  <2>7. End(s) \in Nat /\ End(s) <= n
    <3>1. m - 1 \in 0..m - 1 BY <2>4
    <3> QED BY <3>1, <2>5, <2>6, Ends
  <2>8. Holds(c, s)
    <3>1. Holds(b, s)
      <4>1. ASSUME NEW i \in DOMAIN s PROVE Stored(s[i], b)
        <5>1. i \in 1..m - 1 BY <2>6, Ends
        <5>2. i \in DOMAIN r /\ s[i] = r[i] BY <5>1, <2>4, <2>6, <1>5
        <5> QED BY <5>2, <1>4 DEF Holds
      <4> QED BY <4>1, <1>2 DEF Holds
    <3>2. \A k \in 1..End(s) : k \in 1..n BY <2>7
    <3>3. \A k \in 1..End(s) : c[k] = b[k] BY <3>2
    <3> QED BY <3>1, <3>3, <2>6, <2>7, HoldsUpTo
  <2>9. Begins(fr, c, End(s))
    <3> DEFINE e == r[m]  f == e.frame
    <3>1. e \in Place /\ m \in DOMAIN r BY <1>4, <2>4, <1>5
    <3>2. /\ f \in DOMAIN fr /\ fr[f] = [seq |-> m, len |-> e.len] /\ e.offset = End(s)
      BY <1>4, <3>1, <2>6 DEF Chain
    <3>3. e.len \in Nat /\ fr[f].len = e.len BY <3>1, <3>2 DEF Place
    <3>4. EndOf(r, m) = e.offset + FrameSize + e.len
      <4>1. m # 0 BY <2>4
      <4> QED BY <4>1 DEF EndOf
    <3>5. Stored(e, b) BY <1>4, <3>1 DEF Holds
    <3> HIDE DEF e, f
    <3>6. n - End(s) < FrameSize + e.len BY <2>4, <2>7, <3>2, <3>3, <3>4, JournalConstants
    <3>7. ASSUME NEW i \in 1..n - End(s) PROVE c[End(s) + i] = Byte(f, i)
      <4>1. i \in 1..FrameSize + e.len BY <2>7, <3>3, <3>6, JournalConstants
      <4>2. b[e.offset + i] = Byte(e.frame, i) BY <4>1, <3>5 DEF Stored
      <4>3. End(s) + i \in 1..n BY <2>7
      <4> QED BY <3>2, <4>2, <4>3 DEF f
    <3> QED BY <3>2, <3>3, <3>6, <3>7 DEF Begins
  <2>10. Reads(fr, c, s) BY <2>6, <2>7, <2>8, <2>9 DEF Reads
  <2> QED BY <2>10
<1> QED BY <1>6, <1>7

LEMMA FrameLengths == TypeOK => \A f \in DOMAIN frames : frames[f].len \in Nat
BY Frames

(* What a handle knows, with what is written behind it, is a reading of the file. *)
LEMMA KnownReads ==
    ASSUME TypeOK, NEW p \in Procs, Handle(p)
    PROVE  mem[p] \in Seq(Place) /\ Chain(frames, mem[p]) /\ Rising(mem[p])
<1>1. mem[p] \in Seq(Entries) /\ mem[p] \in Seq(Place) BY Parts
<1>2. ASSUME NEW i \in DOMAIN mem[p] PROVE mem[p][i].frame \in DOMAIN frames
  <2>1. mem[p][i] \in Entries BY <1>1
  <2> QED BY <2>1 DEF Entries
<1> QED BY <1>1, <1>2 DEF Handle, Indexed, Chain

(* When the frame is written, it is the last one of the file. *)
LEMMA WrittenList ==
    ASSUME TypeOK, NEW p \in Procs, Handle(p), pc[p] = "write", buf[p] = <<>>
    PROVE  LET r == Append(mem[p], LastEntry(p)) IN
           /\ r \in Seq(Place) /\ Chain(frames, r) /\ Rising(r) /\ Holds(file, r) /\ End(r) = Len(file)
           /\ LastEntry(p) \in Place
<1> DEFINE e == LastEntry(p)  r == Append(mem[p], e)
<1>1. mem[p] \in Seq(Place) /\ Chain(frames, mem[p]) /\ Rising(mem[p]) /\ Indexed(mem[p]) /\ Holds(file, mem[p])
  BY KnownReads DEF Handle, Reading
<1>2. /\ e.offset = End(mem[p]) /\ e \in Entries /\ Stored(e, file)
      /\ off[p] = e.offset + FrameSize + e.len /\ off[p] = Len(file)
      /\ frames[e.frame] = [seq |-> Len(mem[p]) + 1, len |-> e.len]
  BY Written
<1>3. e \in Place /\ e.frame \in DOMAIN frames BY <1>2, Frames DEF Entries
<1> HIDE DEF e
<1>4. r \in Seq(Place) /\ Indexed(r) /\ Rising(r) /\ End(r) = Len(file)
  BY <1>1, <1>2, <1>3, AppendEnds, AppendChains
<1>5. Holds(file, r) BY <1>1, <1>2, <1>3, AppendHolds
<1>6. Chain(frames, r)
  <2>1. ASSUME NEW i \in DOMAIN r PROVE r[i].frame \in DOMAIN frames
    <3>1. /\ i \in 1..Len(mem[p]) + 1 /\ r[Len(mem[p]) + 1] = e /\ Len(mem[p]) \in Nat
          /\ \A j \in 1..Len(mem[p]) : r[j] = mem[p][j]
      BY <1>1, <1>3, AppendEnds, Ends
    <3>2. CASE i \in 1..Len(mem[p])
      <4>1. i \in DOMAIN mem[p] BY <3>2, <1>1, Ends
      <4> QED BY <3>1, <3>2, <4>1, <1>1 DEF Chain
    <3>3. CASE i = Len(mem[p]) + 1 BY <3>1, <3>3, <1>3
    <3> QED BY <3>1, <3>2, <3>3
  <2> QED BY <2>1, <1>4 DEF Indexed, Chain
<1> QED BY <1>3, <1>4, <1>5, <1>6 DEF e

LEMMA WriterTidy ==
    ASSUME TypeOK, NEW p \in Procs, Handle(p), pc[p] \in {"header", "write"}
    PROVE  Tidy(frames, file)
<1>1. /\ off[p] \in Nat /\ Len(file) \in Nat /\ Len(buf[p]) \in Nat /\ HeaderSize \in Nat
      /\ mem[p] \in Seq(Place) /\ Chain(frames, mem[p]) /\ Rising(mem[p])
  BY Parts, JournalConstants, KnownReads
<1>2. CASE pc[p] = "header"
  <2> SUFFICES ASSUME HeaderOK(file) PROVE \E r : Reads(frames, file, r)
    BY DEF Tidy
  <2>1. mem[p] = <<>> /\ Len(file) = off[p] /\ Len(buf[p]) = HeaderSize - off[p]
    BY <1>2 DEF Handle, Before, WritingHeader
  <2>2. Len(file) = HeaderSize BY <2>1, <1>1 DEF HeaderOK
  <2>3. DOMAIN mem[p] = {} /\ Len(mem[p]) = 0 BY <2>1
  <2>4. Holds(file, mem[p]) BY <2>3 DEF Holds
  <2>5. End(mem[p]) = HeaderSize BY <2>3 DEF End, EndOf
  <2>6. Reads(frames, file, mem[p]) BY <1>1, <2>2, <2>4, <2>5 DEF Reads, Begins
  <2> QED BY <2>6
<1>3. CASE pc[p] = "write"
  <2> DEFINE a == End(mem[p])  k == off[p] - a  f == Len(frames)
  <2>1. Writing(p) /\ Holds(file, mem[p]) /\ off[p] = Len(file) BY <1>3 DEF Handle, AtLast, Reading
  <2>2. a \in Nat BY <1>1, Ends
  <2>3. /\ k >= 0 /\ Len(buf[p]) = Newest - k
        /\ \A i \in 1..k : file[a + i] = Byte(f, i)
    BY <2>1 DEF Writing
  <2>4. f \in DOMAIN frames /\ frames[f].len \in Nat
    <3>1. frames # <<>> BY <2>1 DEF Writing
    <3> QED BY <3>1, Frames
  <2>5. Newest = FrameSize + frames[f].len /\ Newest \in Nat BY <2>4, JournalConstants DEF Newest
  <2> HIDE DEF a, f
  <2>6. a <= Len(file) /\ k = Len(file) - a /\ k \in Nat BY <1>1, <2>1, <2>2, <2>3
  <2>7. CASE k < Newest
    <3>1. Begins(frames, file, a)
      <4>1. Len(file) - a < FrameSize + frames[f].len BY <2>5, <2>6, <2>7
      <4>2. \A i \in 1..Len(file) - a : file[a + i] = Byte(f, i) BY <2>3, <2>6
      <4> QED BY <2>4, <4>1, <4>2 DEF Begins
    <3>2. Reads(frames, file, mem[p]) BY <1>1, <2>1, <2>6, <3>1 DEF Reads, a
    <3> QED BY <3>2 DEF Tidy
  <2>8. CASE ~(k < Newest)
    <3>1. Len(buf[p]) = 0 BY <1>1, <2>3, <2>5, <2>6, <2>8
    <3>2. buf[p] = <<>>
      <4>1. buf[p] \in Seq(Octets) BY Parts
      <4> QED BY <4>1, <3>1
    <3> DEFINE r == Append(mem[p], LastEntry(p))
    <3>3. /\ r \in Seq(Place) /\ Chain(frames, r) /\ Rising(r) /\ Holds(file, r) /\ End(r) = Len(file)
      BY <1>3, <3>2, WrittenList
    <3> HIDE DEF r
    <3>4. Reads(frames, file, r) BY <1>1, <3>3 DEF Reads, Begins
    <3> QED BY <3>4 DEF Tidy
  <2> QED BY <2>7, <2>8
<1> QED BY <1>2, <1>3

LEMMA FileTidy ==
    ASSUME HandleInv, TidyInv, device = "ordered"
    PROVE  Tidy(frames, file)
<1>1. TypeOK /\ \A p \in Procs : Handle(p) BY DEF HandleInv
<1>2. CASE \E p \in Procs : pc[p] \in {"header", "write"} BY <1>1, <1>2, WriterTidy
<1>3. CASE \A p \in Procs : pc[p] \notin {"header", "write"} BY <1>3 DEF TidyInv
<1> QED BY <1>2, <1>3

(* What a reading is made of. *)
LEMMA ReadingParts ==
    ASSUME TypeOK, NEW b, NEW r, Reads(frames, b, r)
    PROVE  r \in Seq(Entries) /\ r \in Seq(Place) /\ Indexed(r) /\ Holds(b, r)
           /\ \A i \in DOMAIN r : frames[r[i].frame].len = r[i].len
<1>1. r \in Seq(Place) /\ Chain(frames, r) /\ Holds(b, r) BY DEF Reads
<1>2. Indexed(r) BY <1>1 DEF Chain, Indexed
<1>3. Len(r) \in Nat /\ DOMAIN r = 1..Len(r) BY <1>1, Ends
<1>4. ASSUME NEW i \in 1..Len(r) PROVE r[i] \in Entries /\ frames[r[i].frame].len = r[i].len
  <2>1. r[i] \in Place BY <1>1, <1>3
  <2>2. r[i].frame \in DOMAIN frames /\ frames[r[i].frame] = [seq |-> i, len |-> r[i].len]
    BY <1>1, <1>3 DEF Chain
  <2>3. frames[r[i].frame].len = r[i].len BY <2>2
  <2>4. r[i].len \in 1..MaxPayload BY <2>2, <2>3, Frames
  <2> QED BY <2>1, <2>2, <2>3, <2>4 DEF Place, Entries
<1>5. r \in Seq(Entries)
  <2>1. r = [i \in 1..Len(r) |-> r[i]] BY <1>1, <1>3
  <2> QED BY <2>1, <1>3, <1>4
<1> QED BY <1>1, <1>2, <1>3, <1>4, <1>5

(* Behind a whole reading the file is torn. *)
LEMMA EndTorn ==
    ASSUME TypeOK, NEW b, Len(b) \in Nat, NEW r, Reads(frames, b, r)
    PROVE  Torn(b, End(r))
<1> DEFINE a == End(r)
<1>1. a \in Nat /\ a <= Len(b) /\ Begins(frames, b, a) BY Ends DEF Reads
<1> HIDE DEF a
<1>2. SUFFICES ASSUME Left(b, a) >= FrameSize PROVE PrefixOK(b, a) /\ SizeAt(b, a) > Left(b, a)
  BY DEF Torn, a
<1>3. Left(b, a) = Len(b) - a /\ Left(b, a) \in Nat BY <1>1 DEF Left
<1>4. a # Len(b) BY <1>1, <1>2, <1>3, JournalConstants
<1>5. PICK f \in DOMAIN frames : /\ Len(b) - a < FrameSize + frames[f].len
                                 /\ \A i \in 1..Len(b) - a : b[a + i] = Byte(f, i)
  BY <1>1, <1>4 DEF Begins
<1>6. 1 \in 1..Len(b) - a /\ 1..PrefixSize \subseteq 1..Len(b) - a BY <1>2, <1>3, JournalConstants
<1>7. FrameAt(b, a) = f
  <2>1. b[a + 1] = Byte(f, 1) BY <1>5, <1>6
  <2> QED BY <2>1 DEF FrameAt, Byte
<1>8. f # 0 BY Frames
<1>9. PrefixOK(b, a) BY <1>5, <1>6, <1>7, <1>8 DEF PrefixOK
<1>10. SizeAt(b, a) > Left(b, a)
  <2>1. frames[f].len \in Nat BY Frames
  <2> QED BY <2>1, <1>3, <1>5, <1>7, JournalConstants DEF SizeAt
<1> QED BY <1>9, <1>10

(* Who is at the end of what it has read of a reading finds its next frame, or the torn end. *)
LEMMA ScanGoesOn ==
    ASSUME TypeOK, NEW p \in Procs, Handle(p), pc[p] = "scan",
           NEW r, Reads(frames, file, r), Starts(mem[p], r)
    PROVE  \/ /\ Len(mem[p]) < Len(r)
              /\ ~Torn(file, off[p]) /\ Complete(file, off[p]) /\ Follows(FrameAt(file, off[p]), mem[p])
              /\ r[Len(mem[p]) + 1] = Entry(FrameAt(file, off[p]), off[p])
           \/ Len(mem[p]) = Len(r) /\ Torn(file, off[p])
<1>1. /\ mem[p] \in Seq(Entries) /\ mem[p] \in Seq(Place) /\ off[p] \in Nat /\ Len(file) \in Nat
      /\ off[p] = End(mem[p])
  BY Parts DEF Handle, AtEnd
<1>2. /\ r \in Seq(Entries) /\ r \in Seq(Place) /\ Indexed(r) /\ Holds(file, r) BY ReadingParts
<1>3. /\ Len(mem[p]) \in Nat /\ Len(r) \in Nat /\ DOMAIN mem[p] = 1..Len(mem[p])
      /\ Len(mem[p]) <= Len(r) /\ \A i \in 1..Len(mem[p]) : mem[p][i] = r[i]
  BY <1>1, <1>2, Ends DEF Starts
<1>4. CASE Len(mem[p]) < Len(r)
  <2> DEFINE e == r[Len(mem[p]) + 1]
  <2>1. /\ e \in Entries /\ e.offset = End(mem[p]) /\ Stored(e, file)
        /\ frames[e.frame] = [seq |-> Len(mem[p]) + 1, len |-> e.len]
    BY <1>1, <1>2, <1>3, <1>4, NextEntry
  <2>2. frames[e.frame].len = e.len /\ frames[e.frame].seq = Len(mem[p]) + 1 BY <2>1
  <2> HIDE DEF e
  <2>3. ~Torn(file, off[p]) /\ Complete(file, off[p]) /\ FrameAt(file, off[p]) = e.frame
    BY <1>1, <2>1, <2>2, StoredComplete
  <2>4. Follows(FrameAt(file, off[p]), mem[p]) BY <2>2, <2>3 DEF Follows
  <2>5. e = Entry(FrameAt(file, off[p]), off[p])
    <3>1. Entry(FrameAt(file, off[p]), off[p]) = [frame |-> e.frame, offset |-> e.offset, len |-> e.len]
      BY <1>1, <2>1, <2>2, <2>3 DEF Entry
    <3> QED BY <2>1, <3>1 DEF Entries
  <2> QED BY <1>4, <2>3, <2>4, <2>5 DEF e
<1>5. CASE Len(mem[p]) = Len(r)
  <2>1. End(mem[p]) = End(r)
    <3>1. Len(r) \in 0..Len(mem[p]) BY <1>3, <1>5
    <3>2. EndOf(mem[p], Len(r)) = EndOf(r, Len(r)) BY <1>1, <1>2, <1>3, <1>5, <3>1, AlikeEnds
    <3> QED BY <3>2, <1>5 DEF End
  <2>2. Torn(file, End(r)) BY <1>1, EndTorn
  <2> QED BY <1>1, <1>5, <2>1, <2>2
<1> QED BY <1>3, <1>4, <1>5

(* What is whole is not torn. *)
LEMMA StillComplete ==
    ASSUME TypeOK, NEW b \in Seq(Octets), NEW at \in Nat, Complete(b, at)
    PROVE  ~Torn(b, at)
<1>1. SizeAt(b, at) \in Nat BY CompleteEntry
<1>2. Left(b, at) \in Int
  <2>1. Len(b) \in Nat BY DEF Octets
  <2> QED BY <2>1 DEF Left
<1> QED BY <1>1, <1>2 DEF Complete, Torn

(* A step that leaves both files and the handles that read alone. *)
LEMMA TidyKeeps ==
    ASSUME HandleInv, TidyInv, UNCHANGED <<file, device>>, stable' \in {stable, file},
           \A f \in DOMAIN frames : f \in DOMAIN frames' /\ frames'[f] = frames[f],
           \A q \in Procs : pc'[q] = "scan" => pc[q] = "scan" /\ mem'[q] = mem[q]
    PROVE  TidyInv'
<1> SUFFICES ASSUME device = "ordered"
             PROVE  /\ Tidy(frames', file') /\ Tidy(frames', stable')
                    /\ \A q \in Procs : pc'[q] = "scan" => \E r : Reads(frames', file', r) /\ Starts(mem'[q], r)
  BY DEF TidyInv
<1>1. Tidy(frames, file) /\ Tidy(frames, stable) BY FileTidy DEF TidyInv
<1>2. Tidy(frames', file) /\ Tidy(frames', stable) BY <1>1, TidyGrows
<1>3. ASSUME NEW q \in Procs, pc'[q] = "scan"
      PROVE  \E r : Reads(frames', file', r) /\ Starts(mem'[q], r)
  <2>1. pc[q] = "scan" /\ mem'[q] = mem[q] BY <1>3
  <2>2. PICK r : Reads(frames, file, r) /\ Starts(mem[q], r) BY <2>1 DEF TidyInv
  <2>3. Reads(frames', file, r) BY <2>2, ReadsGrow
  <2> QED BY <2>1, <2>2, <2>3
<1> QED BY <1>2, <1>3

LEMMA TidyNext == HandleInv /\ TidyInv /\ [Next]_vars => TidyInv'
<1> SUFFICES ASSUME HandleInv, TidyInv, [Next]_vars PROVE TidyInv'
  OBVIOUS
<1>1. TypeOK /\ \A q \in Procs : Handle(q) BY DEF HandleInv
<1>2. device' = device BY DEF Next, vars
<1>3. ASSUME NEW p \in Procs,
             MkdirAll(p) \/ syncParent(p) \/ lockDirectory(p) \/ openFile(p) \/ headerSync(p)
                \/ syncDirectory(p) \/ endScan(p) \/ refuse(p) \/ tailSync(p) \/ openFails(p)
                \/ sync(p) \/ appendFails(p) \/ Close(p) \/ Crash(p)
      PROVE  TidyInv'
  <2>1. UNCHANGED <<file, frames>> /\ stable' \in {stable, file}
    BY <1>3 DEF MkdirAll, syncParent, lockDirectory, openFile, headerSync, syncDirectory, endScan, refuse,
                tailSync, openFails, sync, appendFails, Close, Crash
  <2>2. ASSUME NEW q \in Procs, pc'[q] = "scan" PROVE pc[q] = "scan" /\ mem'[q] = mem[q]
    <3>1. CASE q = p
      <4>1. pc'[p] # "scan"
        BY <1>1, <1>3 DEF TypeOK, Go, Leave, MkdirAll, syncParent, lockDirectory, openFile, headerSync,
                          syncDirectory, endScan, refuse, tailSync, openFails, sync, appendFails, Close, Crash
      <4> QED BY <3>1, <4>1, <2>2
    <3>2. CASE q # p
      <4>1. pc'[q] = pc[q] /\ mem'[q] = mem[q]
        BY <1>1, <1>3, <3>2 DEF TypeOK, Go, Leave, MkdirAll, syncParent, lockDirectory, openFile, headerSync,
                          syncDirectory, endScan, refuse, tailSync, openFails, sync, appendFails, Close, Crash
      <4> QED BY <4>1, <2>2
    <3> QED BY <3>1, <3>2
  <2> QED BY <1>2, <2>1, <2>2, TidyKeeps
<1>4. ASSUME NEW p \in Procs, NEW n \in 1..MaxPayload, beginAppend(p, n) PROVE TidyInv'
  <2>1. UNCHANGED <<file, stable, mem>> BY <1>4 DEF beginAppend
  <2>2. \A f \in DOMAIN frames : f \in DOMAIN frames' /\ frames'[f] = frames[f]
    <3>1. /\ frames' \in Seq([seq : Nat, len : 1..MaxPayload]) /\ Len(frames') = Len(frames) + 1
          /\ \A f \in 1..Len(frames) : frames'[f] = frames[f]
      BY <1>1, <1>4, BeginGrows
    <3>2. DOMAIN frames' = 1..Len(frames) + 1 /\ DOMAIN frames = 1..Len(frames) /\ Len(frames) \in Nat
      BY <1>1, <3>1, Frames
    <3> QED BY <3>1, <3>2
  <2>3. \A q \in Procs : pc'[q] = "scan" => pc[q] = "scan" /\ mem'[q] = mem[q]
    BY <1>1, <1>4, <2>1 DEF beginAppend, Go, TypeOK
  <2> QED BY <1>2, <2>1, <2>2, <2>3, TidyKeeps
<1>5. ASSUME NEW p \in Procs, readHeader(p) PROVE TidyInv'
  <2> SUFFICES ASSUME device = "ordered"
               PROVE  /\ Tidy(frames, file) /\ Tidy(frames, stable)
                      /\ \A q \in Procs : pc'[q] = "scan" => \E r : Reads(frames, file, r) /\ Starts(mem[q], r)
    BY <1>2, <1>5 DEF TidyInv, readHeader
  <2>1. Tidy(frames, file) /\ Tidy(frames, stable) BY FileTidy DEF TidyInv
  <2>2. ASSUME NEW q \in Procs, pc'[q] = "scan"
        PROVE  \E r : Reads(frames, file, r) /\ Starts(mem[q], r)
    <3>1. CASE q = p
      <4>1. mem[q] = <<>> /\ HeaderOK(file) BY <1>1, <1>5, <3>1 DEF readHeader, Handle, Before
      <4>2. PICK r : Reads(frames, file, r) BY <2>1, <4>1 DEF Tidy
      <4>3. Len(r) \in Nat BY <4>2, Ends DEF Reads
      <4>4. Starts(mem[q], r) BY <4>1, <4>3 DEF Starts
      <4> QED BY <4>2, <4>4
    <3>2. CASE q # p
      <4>1. pc[q] = "scan" BY <1>1, <1>5, <2>2, <3>2 DEF readHeader, Go, TypeOK
      <4> QED BY <4>1 DEF TidyInv
    <3> QED BY <3>1, <3>2
  <2> QED BY <2>1, <2>2
<1>6. ASSUME NEW p \in Procs, readFrame(p) PROVE TidyInv'
  <2> SUFFICES ASSUME device = "ordered"
               PROVE  /\ Tidy(frames, file) /\ Tidy(frames, stable)
                      /\ \A q \in Procs : pc[q] = "scan" => \E r : Reads(frames, file, r) /\ Starts(mem'[q], r)
    BY <1>2, <1>6 DEF TidyInv, readFrame
  <2>1. Tidy(frames, file) /\ Tidy(frames, stable) BY FileTidy DEF TidyInv
  <2>2. ASSUME NEW q \in Procs, pc[q] = "scan"
        PROVE  \E r : Reads(frames, file, r) /\ Starts(mem'[q], r)
    <3>1. PICK r : Reads(frames, file, r) /\ Starts(mem[q], r) BY <2>2 DEF TidyInv
    <3>2. CASE q = p
      <4> DEFINE e == Entry(FrameAt(file, off[p]), off[p])
      <4>1. mem'[p] = Append(mem[p], e) /\ Complete(file, off[p]) BY <1>1, <1>6 DEF readFrame, TypeOK
      <4>2. ~Torn(file, off[p])
        <5>1. file \in Seq(Octets) /\ off[p] \in Nat BY <1>1, Parts DEF TypeOK
        <5> QED BY <1>1, <4>1, <5>1, StillComplete
      <4>3. Len(mem[p]) < Len(r) /\ r[Len(mem[p]) + 1] = e BY <1>1, <2>2, <3>1, <3>2, <4>2, ScanGoesOn
      <4>4. mem[p] \in Seq(Place) /\ e \in Place /\ r \in Seq(Place)
        <5>1. TypeOK' BY HandleNext DEF HandleInv
        <5>2. e \in Entries BY <1>6, <5>1, ReadHandle
        <5> QED BY <1>1, <3>1, <5>2, Parts, Frames DEF Reads
      <4> HIDE DEF e
      <4>5. /\ Len(mem'[p]) = Len(mem[p]) + 1 /\ mem'[p][Len(mem[p]) + 1] = e
            /\ \A i \in 1..Len(mem[p]) : mem'[p][i] = mem[p][i]
            /\ DOMAIN mem'[p] = 1..Len(mem[p]) + 1 /\ DOMAIN mem[p] = 1..Len(mem[p])
            /\ Len(mem[p]) \in Nat /\ Len(r) \in Nat
        BY <4>1, <4>4, AppendEnds, Ends
      <4>6. \A i \in 1..Len(mem[p]) : mem[p][i] = r[i] BY <3>1, <3>2, <4>5 DEF Starts
      <4>7. Len(mem'[p]) <= Len(r) BY <4>3, <4>5
      <4>8. ASSUME NEW i \in DOMAIN mem'[p] PROVE mem'[p][i] = r[i]
        <5>1. i \in 1..Len(mem[p]) \/ i = Len(mem[p]) + 1 BY <4>5
        <5> QED BY <4>3, <4>5, <4>6, <5>1
      <4>9. Starts(mem'[p], r) BY <4>7, <4>8 DEF Starts
      <4> QED BY <3>1, <3>2, <4>9
    <3>3. CASE q # p
      <4>1. mem'[q] = mem[q] BY <1>1, <1>6, <3>3 DEF readFrame, TypeOK
      <4> QED BY <3>1, <4>1
    <3> QED BY <3>2, <3>3
  <2> QED BY <2>1, <2>2
<1>7. ASSUME NEW p \in Procs, writeFull(p) PROVE TidyInv'
  <2>1. pc' = pc /\ pc[p] \in {"header", "write"} /\ UNCHANGED <<stable, frames>> /\ pc[p] \notin Out
    BY <1>7 DEF writeFull, Out
  <2>2. \A q \in Procs : pc[q] # "scan"
    <3>1. \A q \in Procs \ {p} : pc[q] \in Out BY <1>1, <2>1, OthersIdle DEF Idle
    <3> QED BY <2>1, <3>1 DEF Out
  <2> QED BY <1>2, <2>1, <2>2 DEF TidyInv
<1>8. ASSUME NEW p \in Procs, truncate(p) PROVE TidyInv'
  <2> SUFFICES ASSUME device = "ordered"
               PROVE  Tidy(frames, file') /\ Tidy(frames, stable) /\ \A q \in Procs : pc'[q] # "scan"
    BY <1>2, <1>8 DEF TidyInv, truncate
  <2>1. Len(file') = off[p] /\ \A i \in 1..off[p] : file'[i] = file[i] BY <1>1, <1>8, TruncateType
  <2>2. off[p] \in Nat /\ Len(file) \in Nat /\ off[p] <= Len(file) BY <1>1, Parts
  <2>3. Tidy(frames, file') BY <1>1, <2>1, <2>2, FileTidy, FrameLengths, TidyShorter
  <2>4. \A q \in Procs : pc'[q] # "scan"
    <3>1. pc[p] \notin Out /\ pc'[p] = "tail" /\ \A q \in Procs \ {p} : pc'[q] = pc[q]
      BY <1>1, <1>8 DEF truncate, Go, TypeOK, Out
    <3>2. \A q \in Procs \ {p} : pc[q] \in Out BY <1>1, <3>1, OthersIdle DEF Idle
    <3> QED BY <3>1, <3>2 DEF Out
  <2> QED BY <2>3, <2>4 DEF TidyInv
<1>9. ASSUME PowerFails PROVE TidyInv'
  <2> SUFFICES ASSUME device = "ordered" PROVE Tidy(frames, file')
    BY <1>2, <1>9 DEF TidyInv, PowerFails
  <2>1. CASE file' = <<>>
    <3>1. ~HeaderOK(file')
      <4>1. Len(file') = 0 BY <2>1
      <4> QED BY <4>1, JournalConstants DEF HeaderOK
    <3> QED BY <3>1 DEF Tidy
  <2>2. CASE file' \in Survivors
    <3>1. file' = stable \/ \E n \in 0..Len(file) : file' = SubSeq(file, 1, n) BY <1>1, <2>2, SurvivorsKeep
    <3>2. CASE file' = stable BY <3>2 DEF TidyInv
    <3>3. ASSUME NEW n \in 0..Len(file), file' = SubSeq(file, 1, n) PROVE Tidy(frames, file')
      <4>1. file \in Seq(Octets) /\ Len(file) \in Nat BY <1>1 DEF TypeOK
      <4>2. Len(file') = n /\ n \in Nat /\ n <= Len(file) /\ \A i \in 1..n : file'[i] = file[i]
        BY <3>3, <4>1
      <4> QED BY <1>1, <4>1, <4>2, FileTidy, FrameLengths, TidyShorter
    <3> QED BY <3>1, <3>2, <3>3
  <2> QED BY <2>1, <2>2, <1>9 DEF PowerFails
<1>10. ASSUME UNCHANGED vars PROVE TidyInv' BY <1>10 DEF vars, handle, TidyInv
<1> QED BY <1>3, <1>4, <1>5, <1>6, <1>7, <1>8, <1>9, <1>10 DEF Next

LEMMA TidyInit == Init => TidyInv
<1> SUFFICES ASSUME Init PROVE TidyInv
  OBVIOUS
<1>1. ~HeaderOK(<<>>)
  <2>1. Len(<<>>) = 0 OBVIOUS
  <2> QED BY <2>1, JournalConstants DEF HeaderOK
<1>2. file = <<>> /\ stable = <<>> /\ \A p \in Procs : pc[p] = "closed" BY DEF Init
<1> QED BY <1>1, <1>2 DEF TidyInv, Tidy

LEMMA TidyGives == HandleInv /\ TidyInv => Reopens
<1> SUFFICES ASSUME HandleInv, TidyInv, NEW p \in Procs, device = "ordered", pc[p] = "scan"
             PROVE  ~Damaged(p)
  BY DEF HandleInv, Reopens
<1>1. PICK r : Reads(frames, file, r) /\ Starts(mem[p], r) BY DEF TidyInv
<1>2. TypeOK /\ Handle(p) BY DEF HandleInv
<1> QED BY <1>1, <1>2, ScanGoesOn DEF Damaged

(* On a device that keeps the order of writes, Open never takes what crashes, failed writes and
   failed syncs left for damage. *)
THEOREM ReopensTheorem == Spec => []Reopens
<1>1. Init => HandleInv /\ TidyInv BY HandleInit, TidyInit
<1>2. HandleInv /\ TidyInv /\ [Next]_vars => (HandleInv /\ TidyInv)' BY HandleNext, TidyNext
<1>3. HandleInv /\ TidyInv => Reopens BY TidyGives
<1> QED BY <1>1, <1>2, <1>3, PTL DEF Spec

-----------------------------------------------------------------------------
(* Steps: the whole frames of a file b, when the frames begun are fr. *)

Begun == [seq : Nat, len : 1..MaxPayload]
BytesOf(fr) == [of : 0..Len(fr), at : Nat]
SizeIn(fr, b, at) == FrameSize + fr[FrameAt(b, at)].len
FullIn(fr, b, at) ==
    /\ Left(b, at) >= FrameSize /\ PrefixOK(b, at) /\ SizeIn(fr, b, at) <= Left(b, at)
    /\ \A i \in 1..SizeIn(fr, b, at) : b[at + i] = Byte(FrameAt(b, at), i)
Onwards(fr, b, g, at) ==
    IF FullIn(fr, b, at) THEN <<FrameAt(b, at)>> \o g[at + SizeIn(fr, b, at)] ELSE <<>>
ListIn(fr, b) == CHOOSE g : g = [at \in HeaderSize..Len(b) |-> Onwards(fr, b, g, at)]
WholeIn(fr, b) == IF HeaderOK(b) THEN ListIn(fr, b)[HeaderSize] ELSE <<>>

LEMMA WholeNow == Whole(file) = WholeIn(frames, file) /\ Whole(stable) = WholeIn(frames, stable)
BY DEF Whole, WholeIn, FramesFrom, ListIn, Onwards, FullIn, SizeIn, Complete, SizeAt

LEMMA WholeNext == Whole(file)' = WholeIn(frames', file') /\ Whole(stable)' = WholeIn(frames', stable')
BY DEF Whole, WholeIn, FramesFrom, ListIn, Onwards, FullIn, SizeIn, Complete, SizeAt

(* What holds at a place when it holds at all later ones holds everywhere. *)
LEMMA Downward ==
    ASSUME NEW lo \in Nat, NEW hi \in Nat, NEW G,
           \A at \in lo..hi : (\A c \in lo..hi : c > at => c \in G) => at \in G
    PROVE  \A at \in lo..hi : at \in G
<1> DEFINE T == {k \in Nat : k <= hi - lo /\ hi - k \notin G}
<1>1. T = {}
  <2> SUFFICES ASSUME T # {} PROVE FALSE
    OBVIOUS
  <2>1. T \in SUBSET Nat OBVIOUS
  <2>2. PICK m \in T : \A y \in T : m <= y
    <3> HIDE DEF T
    <3> QED BY <2>1, Least
  <2>3. m \in Nat /\ m <= hi - lo /\ hi - m \notin G /\ hi - m \in lo..hi OBVIOUS
  <2>4. ASSUME NEW c \in lo..hi, c > hi - m PROVE c \in G
    <3>1. hi - c \in Nat /\ hi - c <= hi - lo /\ hi - (hi - c) = c /\ ~(m <= hi - c) BY <2>3, <2>4
    <3>2. hi - c \notin T BY <2>2, <3>1
    <3> QED BY <3>1, <3>2
  <2> HIDE DEF T
  <2> QED BY <2>3, <2>4
<1>2. ASSUME NEW at \in lo..hi PROVE at \in G
  <2>1. hi - at \in Nat /\ hi - at <= hi - lo /\ hi - (hi - at) = at OBVIOUS
  <2>2. hi - at \notin T BY <1>1
  <2> QED BY <2>1, <2>2
<1> QED BY <1>2

LEMMA Onward ==
    ASSUME NEW fr \in Seq(Begun), NEW b \in Seq(BytesOf(fr)), NEW at \in HeaderSize..Len(b), FullIn(fr, b, at)
    PROVE  /\ at + SizeIn(fr, b, at) \in HeaderSize..Len(b) /\ at + SizeIn(fr, b, at) > at
           /\ FrameAt(b, at) \in 1..Len(fr) /\ SizeIn(fr, b, at) \in Nat /\ at \in Nat
<1>1. at \in Nat /\ HeaderSize \in Nat /\ Len(b) \in Nat /\ at >= HeaderSize /\ Len(fr) \in Nat
  BY JournalConstants
<1>2. at + 1 \in 1..Len(b) BY <1>1, JournalConstants DEF FullIn, Left
<1>3. b[at + 1] \in BytesOf(fr) BY <1>2
<1>4. FrameAt(b, at) \in 0..Len(fr) BY <1>3 DEF BytesOf, FrameAt
<1>5. FrameAt(b, at) \in 1..Len(fr)
  <2>1. FrameAt(b, at) # 0 BY DEF FullIn, PrefixOK
  <2> QED BY <1>1, <1>4, <2>1
<1>6. fr[FrameAt(b, at)].len \in Nat
  <2>1. fr[FrameAt(b, at)] \in Begun BY <1>5
  <2> QED BY <2>1, JournalConstants DEF Begun
<1>7. SizeIn(fr, b, at) \in Nat /\ SizeIn(fr, b, at) > 0 BY <1>6, JournalConstants DEF SizeIn
<1>8. SizeIn(fr, b, at) <= Len(b) - at BY DEF FullIn, Left
<1> QED BY <1>1, <1>5, <1>7, <1>8

LEMMA ListDefined ==
    ASSUME NEW fr \in Seq(Begun), NEW b \in Seq(BytesOf(fr))
    PROVE  \E g : g = [at \in HeaderSize..Len(b) |-> Onwards(fr, b, g, at)]
<1> DEFINE D == HeaderSize..Len(b)
           Right(g, m) == \A at \in D : at > Len(b) - m => g[at] = Onwards(fr, b, g, at)
           T == {m \in Nat : ~\E g : Right(g, m)}
<1>1. Len(b) \in Nat /\ HeaderSize \in Nat /\ D \subseteq Nat BY JournalConstants
<1>2. ASSUME NEW m \in Nat, NEW g, Right(g, m) PROVE \E f : Right(f, m + 1)
  <2> DEFINE f == [at \in D |-> IF at > Len(b) - m THEN g[at] ELSE Onwards(fr, b, g, at)]
  <2>1. ASSUME NEW at \in D, at > Len(b) - (m + 1) PROVE f[at] = Onwards(fr, b, f, at)
    <3>1. f[at] = Onwards(fr, b, g, at) BY <1>2
    <3>2. CASE ~FullIn(fr, b, at) BY <3>1, <3>2 DEF Onwards
    <3>3. CASE FullIn(fr, b, at)
      <4> DEFINE c == at + SizeIn(fr, b, at)
      <4>1. c \in D /\ c > at /\ at \in Nat BY <3>3, Onward
      <4>2. c > Len(b) - m
        <5> HIDE DEF c
        <5> QED BY <4>1, <1>1, <2>1
      <4>3. f[c] = g[c] BY <4>1, <4>2
      <4> QED BY <3>1, <3>3, <4>3 DEF Onwards
    <3> QED BY <3>2, <3>3
  <2>2. Right(f, m + 1) BY <2>1
  <2> QED BY <2>2
<1>3. \E g : Right(g, 0)
  <2>1. \A at \in D : ~(at > Len(b) - 0) BY <1>1
  <2> QED BY <2>1
<1>4. T = {}
  <2> SUFFICES ASSUME T # {} PROVE FALSE
    OBVIOUS
  <2>1. T \in SUBSET Nat OBVIOUS
  <2>2. PICK m \in T : \A y \in T : m <= y
    <3> HIDE DEF T
    <3> QED BY <2>1, Least
  <2>3. m \in Nat /\ ~\E g : Right(g, m) OBVIOUS
  <2>4. m # 0 BY <1>3, <2>3
  <2>5. m - 1 \in Nat /\ ~(m <= m - 1) /\ (m - 1) + 1 = m BY <2>3, <2>4
  <2>6. \E g : Right(g, m - 1) BY <2>2, <2>5
  <2> HIDE DEF Right, T
  <2> QED BY <1>2, <2>3, <2>5, <2>6
<1>5. PICK f : Right(f, Len(b) + 1)
  <2> HIDE DEF Right
  <2>1. Len(b) + 1 \notin T BY <1>4
  <2> QED BY <1>1, <2>1 DEF T
<1>6. \A at \in D : at > Len(b) - (Len(b) + 1) BY <1>1
<1>7. \A at \in D : f[at] = Onwards(fr, b, f, at) BY <1>5, <1>6
<1> DEFINE e == [at \in D |-> f[at]]
<1>8. ASSUME NEW at \in D PROVE Onwards(fr, b, e, at) = Onwards(fr, b, f, at)
  <2>1. FullIn(fr, b, at) => at + SizeIn(fr, b, at) \in D BY Onward
  <2> QED BY <2>1 DEF Onwards
<1>9. e = [at \in D |-> Onwards(fr, b, e, at)]
  <2>1. \A at \in D : e[at] = Onwards(fr, b, e, at) BY <1>7, <1>8
  <2>2. e = [at \in D |-> e[at]] OBVIOUS
  <2> HIDE DEF e, D
  <2> QED BY <2>1, <2>2
<1> QED BY <1>9

LEMMA ListHere ==
    ASSUME NEW fr \in Seq(Begun), NEW b \in Seq(BytesOf(fr)), NEW at \in HeaderSize..Len(b)
    PROVE  ListIn(fr, b)[at] = Onwards(fr, b, ListIn(fr, b), at)
<1> DEFINE P(g) == g = [a \in HeaderSize..Len(b) |-> Onwards(fr, b, g, a)]
<1>1. ListIn(fr, b) = CHOOSE g : P(g) BY DEF ListIn
<1>2. \E g : P(g) BY ListDefined
<1> HIDE DEF P
<1>3. P(ListIn(fr, b)) BY <1>1, <1>2
<1>4. ListIn(fr, b) = [a \in HeaderSize..Len(b) |-> Onwards(fr, b, ListIn(fr, b), a)] BY <1>3 DEF P
<1> QED BY <1>4

LEMMA ListTyped ==
    ASSUME NEW fr \in Seq(Begun), NEW b \in Seq(BytesOf(fr)), NEW at \in HeaderSize..Len(b)
    PROVE  ListIn(fr, b)[at] \in Seq(Nat)
<1> DEFINE G == {a \in HeaderSize..Len(b) : ListIn(fr, b)[a] \in Seq(Nat)}
<1>1. HeaderSize \in Nat /\ Len(b) \in Nat BY JournalConstants
<1>2. ASSUME NEW a \in HeaderSize..Len(b), \A c \in HeaderSize..Len(b) : c > a => c \in G PROVE a \in G
  <2>1. CASE ~FullIn(fr, b, a)
    <3>1. ListIn(fr, b)[a] = <<>> BY <2>1, ListHere DEF Onwards
    <3>2. ListIn(fr, b)[a] \in Seq(Nat) BY <3>1
    <3> QED BY <3>2
  <2>2. CASE FullIn(fr, b, a)
    <3> DEFINE c == a + SizeIn(fr, b, a)
    <3>1. c \in HeaderSize..Len(b) /\ c > a /\ FrameAt(b, a) \in Nat BY <2>2, Onward
    <3>2. c \in G BY <1>2, <3>1
    <3>3. ListIn(fr, b)[a] = <<FrameAt(b, a)>> \o ListIn(fr, b)[c] BY <2>2, ListHere DEF Onwards
    <3>4. ListIn(fr, b)[c] \in Seq(Nat) /\ <<FrameAt(b, a)>> \in Seq(Nat) BY <3>1, <3>2
    <3> HIDE DEF c, G
    <3>5. ListIn(fr, b)[a] \in Seq(Nat) BY <3>3, <3>4
    <3> QED BY <3>5 DEF G
  <2> QED BY <2>1, <2>2
<1> HIDE DEF G
<1>3. at \in G BY <1>1, <1>2, Downward
<1> QED BY <1>3 DEF G

LEMMA HeaderThere ==
    ASSUME NEW b, Len(b) \in Nat, HeaderOK(b)
    PROVE  HeaderSize \in HeaderSize..Len(b)
BY JournalConstants DEF HeaderOK

LEMMA WholeTyped ==
    ASSUME NEW fr \in Seq(Begun), NEW b \in Seq(BytesOf(fr))
    PROVE  WholeIn(fr, b) \in Seq(Nat)
<1>1. CASE HeaderOK(b)
  <2>1. HeaderSize \in HeaderSize..Len(b) BY <1>1, HeaderThere
  <2> QED BY <1>1, <2>1, ListTyped DEF WholeIn
<1>2. CASE ~HeaderOK(b) BY <1>2 DEF WholeIn
<1> QED BY <1>1, <1>2

LEMMA PrefixMeans ==
    ASSUME NEW s \in Seq(Nat), NEW t \in Seq(Nat)
    PROVE  IsPrefix(s, t) <=> Len(s) <= Len(t) /\ \A i \in 1..Len(s) : s[i] = t[i]
<1>1. SubSeq(s, 1, Len(s)) = s OBVIOUS
<1>2. ASSUME Len(s) <= Len(t)
      PROVE  /\ SubSeq(t, 1, Len(s)) \in Seq(Nat) /\ Len(SubSeq(t, 1, Len(s))) = Len(s)
             /\ \A i \in 1..Len(s) : SubSeq(t, 1, Len(s))[i] = t[i]
  BY <1>2
<1>3. ASSUME Len(s) <= Len(t), \A i \in 1..Len(s) : s[i] = t[i] PROVE s = SubSeq(t, 1, Len(s))
  BY <1>2, <1>3, SeqEqual
<1> QED BY <1>1, <1>2, <1>3 DEF IsPrefix

(* A list with one more element in front of both. *)
LEMMA PrefixBehind ==
    ASSUME NEW s \in Seq(Nat), NEW t \in Seq(Nat), NEW f \in Nat, IsPrefix(s, t)
    PROVE  IsPrefix(<<f>> \o s, <<f>> \o t)
<1> DEFINE x == <<f>> \o s  y == <<f>> \o t
<1>1. x \in Seq(Nat) /\ y \in Seq(Nat) /\ Len(x) = 1 + Len(s) /\ Len(y) = 1 + Len(t)
      /\ Len(s) \in Nat /\ Len(t) \in Nat
  OBVIOUS
<1>2. Len(s) <= Len(t) /\ \A i \in 1..Len(s) : s[i] = t[i] BY PrefixMeans
<1>3. ASSUME NEW i \in 1..Len(x) PROVE x[i] = y[i]
  <2>1. CASE i = 1 BY <2>1
  <2>2. CASE i # 1
    <3>1. i - 1 \in 1..Len(s) /\ i - 1 \in 1..Len(t) BY <1>1, <1>2, <2>2
    <3>2. x[i] = s[i - 1] /\ y[i] = t[i - 1] BY <1>1, <1>2, <2>2, <3>1
    <3> QED BY <1>2, <3>1, <3>2
  <2> QED BY <2>1, <2>2
<1> HIDE DEF x, y
<1>4. Len(x) <= Len(y) /\ x \in Seq(Nat) /\ y \in Seq(Nat) BY <1>1, <1>2
<1>5. IsPrefix(x, y) BY <1>3, <1>4, PrefixMeans
<1> QED BY <1>5 DEF x, y

(* Bytes and frames that are added leave what is whole as it is. *)
LEMMA FullGrows ==
    ASSUME NEW fr \in Seq(Begun), NEW fs, \A f \in 1..Len(fr) : fs[f] = fr[f],
           NEW b \in Seq(BytesOf(fr)), NEW c, Len(c) \in Nat, Len(b) <= Len(c),
           \A i \in 1..Len(b) : c[i] = b[i],
           NEW at \in HeaderSize..Len(b), FullIn(fr, b, at)
    PROVE  FullIn(fs, c, at) /\ SizeIn(fs, c, at) = SizeIn(fr, b, at) /\ FrameAt(c, at) = FrameAt(b, at)
<1>1. /\ at + SizeIn(fr, b, at) \in HeaderSize..Len(b) /\ at \in Nat /\ Len(b) \in Nat /\ SizeIn(fr, b, at) \in Nat
      /\ FrameAt(b, at) \in 1..Len(fr) /\ FrameSize <= SizeIn(fr, b, at)
  <2>1. fr[FrameAt(b, at)].len \in Nat
    <3>1. fr[FrameAt(b, at)] \in Begun BY Onward
    <3> QED BY <3>1, JournalConstants DEF Begun
  <2> QED BY Onward, <2>1, JournalConstants DEF SizeIn
<1>2. \A i \in 1..SizeIn(fr, b, at) : at + i \in 1..Len(b) BY <1>1
<1>3. \A i \in 1..SizeIn(fr, b, at) : c[at + i] = b[at + i] BY <1>2
<1>4. 1 \in 1..SizeIn(fr, b, at) /\ \A i \in 1..PrefixSize : i \in 1..SizeIn(fr, b, at)
  BY <1>1, JournalConstants
<1>5. FrameAt(c, at) = FrameAt(b, at) BY <1>3, <1>4 DEF FrameAt
<1>6. SizeIn(fs, c, at) = SizeIn(fr, b, at) BY <1>1, <1>5 DEF SizeIn
<1>7. PrefixOK(c, at) BY <1>3, <1>4, <1>5 DEF FullIn, PrefixOK
<1>8. \A i \in 1..SizeIn(fs, c, at) : c[at + i] = Byte(FrameAt(c, at), i) BY <1>3, <1>5, <1>6 DEF FullIn
<1>9. Left(c, at) >= FrameSize /\ SizeIn(fs, c, at) <= Left(c, at)
  <2>1. Left(b, at) <= Left(c, at) /\ Left(b, at) \in Int /\ Left(c, at) \in Int BY <1>1 DEF Left
  <2> QED BY <1>1, <1>6, <2>1, JournalConstants DEF FullIn
<1> QED BY <1>5, <1>6, <1>7, <1>8, <1>9 DEF FullIn

LEMMA WholeGrows ==
    ASSUME NEW fr \in Seq(Begun), NEW fs \in Seq(Begun), Len(fr) <= Len(fs), \A f \in 1..Len(fr) : fs[f] = fr[f],
           NEW b \in Seq(BytesOf(fr)), NEW c \in Seq(BytesOf(fs)), Len(b) <= Len(c),
           \A i \in 1..Len(b) : c[i] = b[i]
    PROVE  IsPrefix(WholeIn(fr, b), WholeIn(fs, c))
<1> DEFINE L == ListIn(fr, b)  M == ListIn(fs, c)
           G == {at \in HeaderSize..Len(b) : IsPrefix(L[at], M[at])}
<1>1. HeaderSize \in Nat /\ Len(b) \in Nat /\ Len(c) \in Nat BY JournalConstants
<1>2. ASSUME NEW at \in HeaderSize..Len(b) PROVE L[at] \in Seq(Nat) /\ M[at] \in Seq(Nat)
  <2>1. at \in HeaderSize..Len(c) BY <1>1
  <2> QED BY <2>1, ListTyped
<1>3. \A t \in Seq(Nat) : IsPrefix(<<>>, t)
  <2> TAKE t \in Seq(Nat)
  <2>1. Len(<<>>) = 0 /\ SubSeq(<<>>, 1, 0) = <<>> /\ SubSeq(t, 1, 0) = <<>> OBVIOUS
  <2> QED BY <2>1 DEF IsPrefix
<1>4. ASSUME NEW at \in HeaderSize..Len(b), \A k \in HeaderSize..Len(b) : k > at => k \in G
      PROVE  at \in G
  <2>1. CASE ~FullIn(fr, b, at)
    <3>1. L[at] = <<>> BY <2>1, ListHere DEF Onwards
    <3> QED BY <1>2, <1>3, <3>1
  <2>2. CASE FullIn(fr, b, at)
    <3> DEFINE k == at + SizeIn(fr, b, at)  f == FrameAt(b, at)
    <3>1. k \in HeaderSize..Len(b) /\ k > at /\ f \in Nat BY <2>2, Onward
    <3>2. FullIn(fs, c, at) /\ SizeIn(fs, c, at) = SizeIn(fr, b, at) /\ FrameAt(c, at) = f
      BY <1>1, <2>2, FullGrows, ZenonT(40)
    <3>3. L[at] = <<f>> \o L[k] BY <2>2, ListHere DEF Onwards
    <3>4. M[at] = <<f>> \o M[k]
      <4>1. at \in HeaderSize..Len(c) BY <1>1
      <4> QED BY <4>1, <3>2, ListHere DEF Onwards
    <3>5. IsPrefix(L[k], M[k]) BY <1>4, <3>1
    <3> HIDE DEF k, f, L, M
    <3> QED BY <1>2, <3>1, <3>3, <3>4, <3>5, PrefixBehind DEF G
  <2> QED BY <2>1, <2>2
<1>5. \A at \in HeaderSize..Len(b) : at \in G
  <2> HIDE DEF G
  <2> QED BY <1>1, <1>4, Downward
<1>6. CASE HeaderOK(b)
  <2>1. HeaderSize \in HeaderSize..Len(b) BY <1>1, <1>6, HeaderThere
  <2>2. HeaderOK(c)
    <3>1. HeaderSize <= Len(b) /\ \A i \in 1..HeaderSize : i \in 1..Len(b) BY <1>1, <2>1
    <3> QED BY <1>1, <1>6, <3>1 DEF HeaderOK
  <2>3. IsPrefix(L[HeaderSize], M[HeaderSize]) BY <1>5, <2>1
  <2> QED BY <1>6, <2>2, <2>3 DEF WholeIn
<1>7. CASE ~HeaderOK(b)
  <2>1. WholeIn(fr, b) = <<>> BY <1>7 DEF WholeIn
  <2> QED BY <2>1, <1>3, WholeTyped
<1> QED BY <1>6, <1>7

(* Frames that are begun later are nowhere in a file. *)
LEMMA WholeStaysSo ==
    ASSUME NEW fr \in Seq(Begun), NEW fs, \A f \in 1..Len(fr) : fs[f] = fr[f],
           NEW b \in Seq(BytesOf(fr))
    PROVE  WholeIn(fs, b) = WholeIn(fr, b)
<1>1. HeaderSize \in Nat /\ Len(b) \in Nat /\ Len(fr) \in Nat BY JournalConstants
<1>2. ASSUME NEW at \in HeaderSize..Len(b) PROVE FullIn(fs, b, at) <=> FullIn(fr, b, at)
  <2>1. CASE Left(b, at) >= FrameSize /\ PrefixOK(b, at)
    <3>1. at + 1 \in 1..Len(b) BY <1>1, <2>1, JournalConstants DEF Left
    <3>2. b[at + 1] \in BytesOf(fr) BY <3>1
    <3>3. FrameAt(b, at) \in 1..Len(fr) BY <1>1, <2>1, <3>2 DEF BytesOf, FrameAt, PrefixOK
    <3>4. SizeIn(fs, b, at) = SizeIn(fr, b, at) BY <3>3 DEF SizeIn
    <3> QED BY <3>4 DEF FullIn
  <2>2. CASE ~(Left(b, at) >= FrameSize /\ PrefixOK(b, at)) BY <2>2 DEF FullIn
  <2> QED BY <2>1, <2>2
<1>3. ASSUME NEW at \in HeaderSize..Len(b), NEW g PROVE Onwards(fs, b, g, at) = Onwards(fr, b, g, at)
  <2>1. CASE FullIn(fr, b, at)
    <3>1. FrameAt(b, at) \in 1..Len(fr) BY <2>1, Onward
    <3>2. SizeIn(fs, b, at) = SizeIn(fr, b, at) BY <3>1 DEF SizeIn
    <3> QED BY <1>2, <2>1, <3>2 DEF Onwards
  <2>2. CASE ~FullIn(fr, b, at) BY <1>2, <2>2 DEF Onwards
  <2> QED BY <2>1, <2>2
<1>4. ListIn(fs, b) = ListIn(fr, b)
  <2> DEFINE P(g) == g = [at \in HeaderSize..Len(b) |-> Onwards(fs, b, g, at)]
             Q(g) == g = [at \in HeaderSize..Len(b) |-> Onwards(fr, b, g, at)]
  <2>1. ASSUME NEW g PROVE P(g) <=> Q(g) BY <1>3
  <2>2. ListIn(fs, b) = (CHOOSE g : P(g)) /\ ListIn(fr, b) = (CHOOSE g : Q(g)) BY DEF ListIn
  <2> HIDE DEF P, Q
  <2>3. (CHOOSE g : P(g)) = (CHOOSE g : Q(g)) BY <2>1
  <2> QED BY <2>2, <2>3
<1> QED BY <1>4 DEF WholeIn

(* A list of entries that is stored is what the file begins with. *)
FramesOf(r) == [i \in 1..Len(r) |-> r[i].frame]
Rest(r, i) == [k \in 1..Len(r) - i |-> r[i + k].frame]

LEMMA StoredFull ==
    ASSUME NEW fr \in Seq(Begun), NEW b, Len(b) \in Nat, NEW e \in Place, Stored(e, b),
           e.frame \in 1..Len(fr), fr[e.frame].len = e.len
    PROVE  /\ FullIn(fr, b, e.offset) /\ FrameAt(b, e.offset) = e.frame
           /\ SizeIn(fr, b, e.offset) = FrameSize + e.len
<1> DEFINE o == e.offset  n == e.len
<1>1. n \in Nat /\ o \in Nat /\ e.frame # 0 BY DEF Place
<1>2. o + FrameSize + n <= Len(b) /\ \A k \in 1..FrameSize + n : b[o + k] = Byte(e.frame, k) BY DEF Stored
<1>3. 1 \in 1..FrameSize + n /\ \A i \in 1..PrefixSize : i \in 1..FrameSize + n BY <1>1, JournalConstants
<1>4. FrameAt(b, o) = e.frame
  <2>1. b[o + 1] = Byte(e.frame, 1) BY <1>2, <1>3
  <2> QED BY <2>1 DEF FrameAt, Byte
<1>5. SizeIn(fr, b, o) = FrameSize + n BY <1>4 DEF SizeIn
<1>6. PrefixOK(b, o) BY <1>1, <1>2, <1>3, <1>4 DEF PrefixOK
<1> HIDE DEF o, n
<1>7. Left(b, o) >= FrameSize + n /\ Left(b, o) >= FrameSize BY <1>1, <1>2, JournalConstants DEF Left
<1>8. SizeIn(fr, b, o) <= Left(b, o)
  <2>1. FrameSize + n \in Nat /\ Left(b, o) \in Int BY <1>1, JournalConstants DEF Left
  <2> QED BY <2>1, <1>5, <1>7
<1>9. FullIn(fr, b, o) BY <1>2, <1>4, <1>5, <1>6, <1>7, <1>8 DEF FullIn
<1> QED BY <1>4, <1>5, <1>9 DEF o, n

LEMMA HeldEnds ==
    ASSUME NEW b, Len(b) \in Nat, NEW r \in Seq(Place), Rising(r), Holds(b, r), NEW i \in 0..Len(r)
    PROVE  EndOf(r, i) \in HeaderSize..Len(b)
<1>1. Len(r) \in Nat /\ DOMAIN r = 1..Len(r) /\ EndOf(r, i) \in Nat /\ HeaderSize \in Nat
  BY Ends, JournalConstants
<1>2. CASE i = 0
  <2>1. HeaderSize <= Len(b) BY DEF Holds, HeaderOK
  <2> QED BY <1>1, <1>2, <2>1 DEF EndOf
<1>3. CASE i # 0
  <2>1. i \in DOMAIN r /\ 0 \in 0..i BY <1>1, <1>3
  <2>2. EndOf(r, 0) <= EndOf(r, i) BY <2>1 DEF Rising
  <2>3. Stored(r[i], b) BY <2>1 DEF Holds
  <2>4. r[i].offset + FrameSize + r[i].len <= Len(b) BY <2>3 DEF Stored
  <2>5. EndOf(r, 0) = HeaderSize /\ EndOf(r, i) = r[i].offset + FrameSize + r[i].len BY <1>3 DEF EndOf
  <2> QED BY <1>1, <2>2, <2>4, <2>5
<1> QED BY <1>2, <1>3

LEMMA InFront ==
    ASSUME NEW s \in Seq(Nat), NEW t \in Seq(Nat), NEW f \in Nat
    PROVE  /\ <<f>> \o s \in Seq(Nat) /\ Len(<<f>> \o s) = 1 + Len(s) /\ (<<f>> \o s)[1] = f
           /\ \A k \in 2..1 + Len(s) : (<<f>> \o s)[k] = s[k - 1]
           /\ (<<f>> \o s) \o t = <<f>> \o (s \o t)
<1>1. <<f>> \in Seq(Nat) OBVIOUS
<1>2. (<<f>> \o s) \o t = <<f>> \o (s \o t) BY <1>1, ConcatAssociative
<1>3. /\ <<f>> \o s \in Seq(Nat) /\ Len(<<f>> \o s) = 1 + Len(s) /\ (<<f>> \o s)[1] = f
  OBVIOUS
<1>4. \A k \in 2..1 + Len(s) : (<<f>> \o s)[k] = s[k - 1]
  OBVIOUS
<1> QED BY <1>2, <1>3, <1>4

LEMMA HeldFirst ==
    ASSUME NEW fr \in Seq(Begun), NEW b \in Seq(BytesOf(fr)),
           NEW r \in Seq(Place), Chain(fr, r), Rising(r), Holds(b, r)
    PROVE  /\ WholeIn(fr, b) = FramesOf(r) \o ListIn(fr, b)[End(r)] /\ FramesOf(r) \in Seq(Nat)
           /\ ListIn(fr, b)[End(r)] \in Seq(Nat) /\ End(r) \in HeaderSize..Len(b)
<1> DEFINE L == ListIn(fr, b)
           G == {i \in 0..Len(r) : L[EndOf(r, i)] = Rest(r, i) \o L[End(r)]}
<1> HIDE DEF G
<1>1. Len(r) \in Nat /\ DOMAIN r = 1..Len(r) /\ Len(b) \in Nat /\ Len(fr) \in Nat BY Ends
<1>2. \A i \in 0..Len(r) : EndOf(r, i) \in HeaderSize..Len(b) BY <1>1, HeldEnds
<1>3. End(r) \in HeaderSize..Len(b) BY <1>1, <1>2 DEF End
<1>4. L[End(r)] \in Seq(Nat) BY <1>3, ListTyped
<1>5. ASSUME NEW i \in 1..Len(r) PROVE r[i] \in Place /\ r[i].frame \in Nat
  <2>1. r[i] \in Place OBVIOUS
  <2> QED BY <2>1 DEF Place
<1>6. ASSUME NEW i \in 0..Len(r) PROVE Rest(r, i) \in Seq(Nat) /\ Len(Rest(r, i)) = Len(r) - i
  <2>1. Len(r) - i \in Nat BY <1>1
  <2>2. \A k \in 1..Len(r) - i : i + k \in 1..Len(r) BY <1>1
  <2>3. \A k \in 1..Len(r) - i : r[i + k].frame \in Nat BY <2>2, <1>5
  <2> QED BY <2>1, <2>3 DEF Rest
<1>7. ASSUME NEW i \in 0..Len(r), \A k \in 0..Len(r) : k > i => k \in G PROVE i \in G
  <2>1. CASE i = Len(r)
    <3>1. Rest(r, i) = <<>>
      <4>1. Len(r) - i = 0 BY <1>1, <2>1
      <4> QED BY <1>6, <4>1
    <3>2. EndOf(r, i) = End(r) BY <2>1 DEF End
    <3> HIDE DEF L
    <3>3. <<>> \o L[End(r)] = L[End(r)] BY <1>4
    <3> QED BY <1>7, <3>1, <3>2, <3>3 DEF G
  <2>2. CASE i # Len(r)
    <3>1. i + 1 \in 1..Len(r) /\ i + 1 \in 0..Len(r) /\ (i + 1) - 1 = i /\ i + 1 > i /\ i + 1 # 0
      <4>1. Len(r) \in Nat BY <1>1
      <4> QED BY <4>1, <2>2
    <3> DEFINE e == r[i + 1]
    <3>2. e \in Place /\ e.frame \in DOMAIN fr /\ fr[e.frame] = [seq |-> i + 1, len |-> e.len]
          /\ e.offset = EndOf(r, i) /\ Stored(e, b) /\ e.frame \in Nat
      BY <1>1, <1>5, <3>1 DEF Chain, Holds
    <3>3. EndOf(r, i + 1) = e.offset + FrameSize + e.len BY <3>1 DEF EndOf
    <3> HIDE DEF e
    <3>4. FullIn(fr, b, e.offset) /\ FrameAt(b, e.offset) = e.frame
          /\ SizeIn(fr, b, e.offset) = FrameSize + e.len
      <4>1. e.frame \in 1..Len(fr) /\ fr[e.frame].len = e.len BY <3>2
      <4> QED BY <1>1, <3>2, <4>1, StoredFull
    <3>5. L[e.offset] = <<e.frame>> \o L[e.offset + SizeIn(fr, b, e.offset)]
      BY <1>2, <3>2, <3>4, ListHere DEF Onwards
    <3>6. e.offset + SizeIn(fr, b, e.offset) = EndOf(r, i + 1)
      BY <3>2, <3>3, <3>4, JournalConstants DEF Place
    <3>7. L[EndOf(r, i + 1)] = Rest(r, i + 1) \o L[End(r)] BY <1>7, <3>1 DEF G
    <3>8. Rest(r, i) = <<e.frame>> \o Rest(r, i + 1)
      <4> DEFINE x == <<e.frame>> \o Rest(r, i + 1)
      <4>1. /\ Rest(r, i) \in Seq(Nat) /\ Rest(r, i + 1) \in Seq(Nat) /\ Len(Rest(r, i)) = Len(r) - i
            /\ Len(Rest(r, i + 1)) = Len(r) - (i + 1)
        BY <1>6, <3>1
      <4>2. x \in Seq(Nat) /\ Len(x) = Len(r) - i /\ x[1] = e.frame
            /\ \A k \in 2..Len(r) - i : x[k] = Rest(r, i + 1)[k - 1]
        <5>1. /\ x \in Seq(Nat) /\ Len(x) = 1 + Len(Rest(r, i + 1)) /\ x[1] = e.frame
              /\ \A k \in 2..1 + Len(Rest(r, i + 1)) : x[k] = Rest(r, i + 1)[k - 1]
          BY <4>1, <3>2, InFront
        <5>2. 1 + Len(Rest(r, i + 1)) = Len(r) - i
          <6>1. Len(r) \in Nat /\ i \in Nat BY <1>1
          <6>2. Len(Rest(r, i + 1)) = Len(r) - (i + 1) BY <4>1
          <6> DEFINE n == Len(r)  m == Len(Rest(r, i + 1))
          <6> HIDE DEF n, m
          <6>3. n \in Nat /\ m = n - (i + 1) BY <6>1, <6>2 DEF n, m
          <6>4. 1 + m = n - i BY <6>1, <6>3
          <6> QED BY <6>4 DEF n, m
        <5> QED BY <5>1, <5>2
      <4>3. ASSUME NEW k \in 1..Len(r) - i PROVE Rest(r, i)[k] = x[k]
        <5>1. Rest(r, i)[k] = r[i + k].frame BY DEF Rest
        <5>2. CASE k = 1 BY <4>2, <5>1, <5>2 DEF e
        <5>3. CASE k # 1
          <6>1. k \in 2..Len(r) - i /\ k - 1 \in 1..Len(r) - (i + 1) /\ (i + 1) + (k - 1) = i + k
            BY <1>1, <5>3
          <6>2. Rest(r, i + 1)[k - 1] = r[(i + 1) + (k - 1)].frame BY <6>1 DEF Rest
          <6> QED BY <4>2, <5>1, <6>1, <6>2
        <5> QED BY <5>2, <5>3
      <4> HIDE DEF x
      <4>4. Rest(r, i) = x BY <4>1, <4>2, <4>3, SeqEqual
      <4> QED BY <4>4 DEF x
    <3>9. <<e.frame>> \o (Rest(r, i + 1) \o L[End(r)]) = (<<e.frame>> \o Rest(r, i + 1)) \o L[End(r)]
      <4>1. Rest(r, i + 1) \in Seq(Nat) /\ e.frame \in Nat BY <1>6, <3>1, <3>2
      <4> HIDE DEF L
      <4> QED BY <1>4, <4>1, InFront, ZenonT(40)
    <3>10. L[EndOf(r, i)] = Rest(r, i) \o L[End(r)] BY <3>2, <3>5, <3>6, <3>7, <3>8, <3>9
    <3> HIDE DEF L
    <3> QED BY <3>10 DEF G
  <2> QED BY <2>1, <2>2
<1>8. 0 \in G
  <2>1. 0 \in 0..Len(r) /\ 0 \in Nat BY <1>1
  <2> QED BY <1>1, <1>7, <2>1, Downward
<1>9. L[HeaderSize] = Rest(r, 0) \o L[End(r)] BY <1>8 DEF G, EndOf
<1>10. Rest(r, 0) = FramesOf(r)
  <2>1. Len(r) - 0 = Len(r) /\ \A k \in 1..Len(r) : 0 + k = k BY <1>1
  <2> QED BY <2>1 DEF Rest, FramesOf
<1>11. FramesOf(r) \in Seq(Nat)
  <2>1. 0 \in 0..Len(r) BY <1>1
  <2> QED BY <1>6, <1>10, <2>1
<1>12. WholeIn(fr, b) = L[HeaderSize] BY DEF Holds, WholeIn
<1> QED BY <1>3, <1>4, <1>9, <1>10, <1>11, <1>12

LEMMA HeldAll ==
    ASSUME NEW fr \in Seq(Begun), NEW b \in Seq(BytesOf(fr)),
           NEW r \in Seq(Place), Chain(fr, r), Rising(r), Holds(b, r), ~FullIn(fr, b, End(r))
    PROVE  WholeIn(fr, b) = FramesOf(r)
<1>1. /\ WholeIn(fr, b) = FramesOf(r) \o ListIn(fr, b)[End(r)] /\ FramesOf(r) \in Seq(Nat)
      /\ End(r) \in HeaderSize..Len(b)
  BY HeldFirst
<1>2. ListIn(fr, b)[End(r)] = <<>> BY <1>1, ListHere DEF Onwards
<1> QED BY <1>1, <1>2

-----------------------------------------------------------------------------
(* Steps: what a step does to the whole frames of the file. *)

LEMMA FilesNow ==
    TypeOK => /\ frames \in Seq(Begun) /\ Len(frames) \in Nat /\ file \in Seq(BytesOf(frames))
              /\ stable \in Seq(BytesOf(frames)) /\ Whole(file) \in Seq(Nat) /\ Whole(stable) \in Seq(Nat)
<1> SUFFICES ASSUME TypeOK
             PROVE  /\ frames \in Seq(Begun) /\ Len(frames) \in Nat /\ file \in Seq(BytesOf(frames))
                    /\ stable \in Seq(BytesOf(frames)) /\ Whole(file) \in Seq(Nat) /\ Whole(stable) \in Seq(Nat)
  OBVIOUS
<1>1. frames \in Seq(Begun) /\ file \in Seq(BytesOf(frames)) /\ stable \in Seq(BytesOf(frames))
  BY DEF TypeOK, Octets, Begun, BytesOf
<1>2. Whole(file) \in Seq(Nat) /\ Whole(stable) \in Seq(Nat) BY <1>1, WholeTyped, WholeNow
<1> QED BY <1>1, <1>2, Frames

LEMMA FilesNext ==
    TypeOK' => /\ frames' \in Seq(Begun) /\ file' \in Seq(BytesOf(frames')) /\ stable' \in Seq(BytesOf(frames'))
               /\ Whole(file)' \in Seq(Nat) /\ Whole(stable)' \in Seq(Nat)
<1> SUFFICES ASSUME TypeOK'
             PROVE  /\ frames' \in Seq(Begun) /\ file' \in Seq(BytesOf(frames')) /\ stable' \in Seq(BytesOf(frames'))
                    /\ Whole(file)' \in Seq(Nat) /\ Whole(stable)' \in Seq(Nat)
  OBVIOUS
<1>1. frames' \in Seq(Begun) /\ file' \in Seq(BytesOf(frames')) /\ stable' \in Seq(BytesOf(frames'))
  BY DEF TypeOK, Octets, Begun, BytesOf
<1> QED BY <1>1, WholeTyped, WholeNext

LEMMA PrefixSame == ASSUME NEW s \in Seq(Nat) PROVE IsPrefix(s, s)
BY PrefixMeans

LEMMA PrefixOver ==
    ASSUME NEW s \in Seq(Nat), NEW t \in Seq(Nat), NEW u \in Seq(Nat), IsPrefix(s, t), IsPrefix(t, u)
    PROVE  IsPrefix(s, u)
<1>1. Len(s) <= Len(t) /\ \A i \in 1..Len(s) : s[i] = t[i] BY PrefixMeans
<1>2. Len(t) <= Len(u) /\ \A i \in 1..Len(t) : t[i] = u[i] BY PrefixMeans
<1>3. Len(s) \in Nat /\ Len(t) \in Nat /\ Len(u) \in Nat OBVIOUS
<1>4. Len(s) <= Len(u) BY <1>1, <1>2, <1>3
<1>5. ASSUME NEW i \in 1..Len(s) PROVE s[i] = u[i]
  <2>1. i \in 1..Len(t) BY <1>1, <1>3
  <2> QED BY <1>1, <1>2, <2>1
<1> QED BY <1>4, <1>5, PrefixMeans

LEMMA TornNotFull ==
    ASSUME TypeOK, NEW b \in Seq(Octets), NEW at \in Nat, Torn(b, at)
    PROVE  ~FullIn(frames, b, at)
<1> SUFFICES ASSUME FullIn(frames, b, at) PROVE FALSE
  OBVIOUS
<1>1. SizeIn(frames, b, at) = SizeAt(b, at) BY DEF SizeIn, SizeAt
<1>2. Left(b, at) >= FrameSize /\ SizeAt(b, at) <= Left(b, at) /\ SizeAt(b, at) > Left(b, at)
  BY <1>1 DEF FullIn, Torn
<1>3. Left(b, at) \in Int
  <2>1. Len(b) \in Nat BY DEF Octets
  <2> QED BY <2>1 DEF Left
<1>4. SizeAt(b, at) \in Int
  <2>1. Complete(b, at) BY <1>1 DEF FullIn, Complete
  <2> QED BY <2>1, CompleteEntry
<1> QED BY <1>2, <1>3, <1>4

LEMMA EndNotFull ==
    ASSUME NEW fr, NEW b, Len(b) \in Nat
    PROVE  ~FullIn(fr, b, Len(b))
<1>1. Left(b, Len(b)) = 0 BY DEF Left
<1> QED BY <1>1, JournalConstants DEF FullIn

(* The file of a process that appends: what it knows, and at the end of the write its new frame. *)
LEMMA WriterWhole ==
    ASSUME NEW p \in Procs
    PROVE  TypeOK /\ Handle(p) /\ pc[p] = "write" =>
             /\ buf[p] # <<>> => Whole(file) = FramesOf(mem[p])
             /\ buf[p] = <<>> => \E e \in Place : Whole(file) = FramesOf(Append(mem[p], e))
<1> SUFFICES ASSUME TypeOK, Handle(p), pc[p] = "write"
             PROVE  /\ buf[p] # <<>> => Whole(file) = FramesOf(mem[p])
                    /\ buf[p] = <<>> => \E e \in Place : Whole(file) = FramesOf(Append(mem[p], e))
  OBVIOUS
<1>1. frames \in Seq(Begun) /\ file \in Seq(BytesOf(frames)) BY FilesNow
<1>2. CASE buf[p] = <<>>
  <2> DEFINE r == Append(mem[p], LastEntry(p))
  <2>1. /\ r \in Seq(Place) /\ Chain(frames, r) /\ Rising(r) /\ Holds(file, r) /\ End(r) = Len(file)
        /\ LastEntry(p) \in Place
    BY <1>2, WrittenList
  <2> HIDE DEF r
  <2>2. ~FullIn(frames, file, End(r))
    <3>1. Len(file) \in Nat BY <1>1
    <3> QED BY <2>1, <3>1, EndNotFull
  <2>3. Whole(file) = FramesOf(r) BY <1>1, <2>1, <2>2, HeldAll, WholeNow
  <2> QED BY <1>2, <2>1, <2>3 DEF r
<1>3. CASE buf[p] # <<>>
  <2>1. mem[p] \in Seq(Place) /\ Chain(frames, mem[p]) /\ Rising(mem[p]) /\ Holds(file, mem[p])
    BY KnownReads DEF Handle, Reading
  <2> DEFINE a == End(mem[p])  k == off[p] - a  f == Len(frames)
  <2>2. Writing(p) /\ off[p] = Len(file) BY DEF Handle, AtLast
  <2>3. a \in Nat /\ Len(file) \in Nat /\ buf[p] \in Seq(Octets) BY <2>1, Ends, Parts
  <2>4. /\ k >= 0 /\ Len(buf[p]) = Newest - k /\ \A i \in 1..k : file[a + i] = Byte(f, i)
    BY <2>2 DEF Writing
  <2>5. f \in DOMAIN frames /\ frames[f].len \in Nat
    <3>1. frames # <<>> BY <2>2 DEF Writing
    <3> QED BY <3>1, Frames
  <2>6. Newest = FrameSize + frames[f].len /\ Newest \in Nat BY <2>5, JournalConstants DEF Newest
  <2>7. Len(buf[p]) \in Nat /\ Len(buf[p]) > 0 BY <1>3, <2>3
  <2> HIDE DEF a, f
  <2>8. k = Len(file) - a /\ k \in Nat /\ k < Newest BY <2>2, <2>3, <2>4, <2>6, <2>7
  <2>9. ~FullIn(frames, file, a)
    <3> SUFFICES ASSUME FullIn(frames, file, a) PROVE FALSE
      OBVIOUS
    <3>1. Left(file, a) = k BY <2>8 DEF Left
    <3>2. k >= FrameSize /\ 1 \in 1..k BY <2>8, <3>1, JournalConstants DEF FullIn
    <3>3. FrameAt(file, a) = f
      <4>1. file[a + 1] = Byte(f, 1) BY <2>4, <3>2
      <4> QED BY <4>1 DEF FrameAt, Byte
    <3>4. SizeIn(frames, file, a) = Newest BY <2>6, <3>3 DEF SizeIn
    <3> QED BY <2>6, <2>8, <3>1, <3>4 DEF FullIn
  <2>10. Whole(file) = FramesOf(mem[p]) BY <1>1, <2>1, <2>9, HeldAll, WholeNow DEF a
  <2> QED BY <1>3, <2>10
<1> QED BY <1>2, <1>3

LEMMA WriterWholeNext ==
    ASSUME NEW p \in Procs
    PROVE  (TypeOK /\ Handle(p) /\ pc[p] = "write" =>
             /\ buf[p] # <<>> => Whole(file) = FramesOf(mem[p])
             /\ buf[p] = <<>> => \E e \in Place : Whole(file) = FramesOf(Append(mem[p], e)))'
<1>1. TypeOK /\ Handle(p) /\ pc[p] = "write" =>
             /\ buf[p] # <<>> => Whole(file) = FramesOf(mem[p])
             /\ buf[p] = <<>> => \E e \in Place : Whole(file) = FramesOf(Append(mem[p], e))
  BY WriterWhole
<1> QED BY <1>1, PTL

(* Every step but a loss of power keeps what is whole, or adds the frame that is written. *)
Alike == Whole(file)' = Whole(file)
Longer == Len(Whole(file)') = Len(Whole(file)) + 1 /\ IsPrefix(Whole(file), Whole(file)')

LEMMA SameWhole == UNCHANGED <<file, frames>> => Alike
BY WholeNow, WholeNext DEF Alike

LEMMA BeginWhole ==
    ASSUME TypeOK, NEW p \in Procs, NEW n \in 1..MaxPayload, beginAppend(p, n)
    PROVE  Alike
<1>1. file' = file BY DEF beginAppend
<1>2. \A f \in 1..Len(frames) : frames'[f] = frames[f] BY BeginGrows
<1>3. frames \in Seq(Begun) /\ file \in Seq(BytesOf(frames)) BY FilesNow
<1>4. WholeIn(frames', file) = WholeIn(frames, file) BY <1>2, <1>3, WholeStaysSo
<1> QED BY <1>1, <1>4, WholeNow, WholeNext DEF Alike

LEMMA TruncateWhole ==
    ASSUME HandleInv, HandleInv', WholeInv, NEW p \in Procs, truncate(p)
    PROVE  Alike
<1>1. TypeOK /\ TypeOK' /\ Handle(p) /\ \A q \in Procs : Handle(q) BY DEF HandleInv
<1>2. /\ pc[p] = "truncate" /\ frames' = frames /\ mem' = mem /\ pc'[p] = "tail"
  BY <1>1 DEF truncate, Go, TypeOK
<1>3. Len(file') = off[p] /\ off[p] \in Nat /\ mem[p] \in Seq(Place) /\ off[p] = End(mem[p])
  BY <1>1, <1>2, TruncateType, Parts DEF Handle, AtEnd
<1>4. frames \in Seq(Begun) /\ file \in Seq(BytesOf(frames)) /\ file' \in Seq(BytesOf(frames))
  BY <1>1, <1>2, FilesNow, FilesNext
<1>5. Chain(frames, mem[p]) /\ Rising(mem[p]) BY <1>1, KnownReads
<1>6. Holds(file, mem[p]) BY <1>1, <1>2 DEF Handle, Reading
<1>7. Holds(file', mem[p])
  <2>1. Handle(p)' BY DEF HandleInv
  <2>2. Holds(file', mem'[p]) BY <1>2, <2>1 DEF Handle, Reading
  <2> QED BY <1>2, <2>2
<1>8. ~FullIn(frames, file, End(mem[p]))
  <2>1. Torn(file, off[p]) BY <1>2 DEF WholeInv
  <2>2. file \in Seq(Octets) BY <1>1 DEF TypeOK
  <2>3. ~FullIn(frames, file, off[p]) BY <1>1, <1>3, <2>1, <2>2, TornNotFull
  <2> QED BY <1>3, <2>3
<1>9. ~FullIn(frames, file', End(mem[p]))
  <2>1. Len(file') \in Nat BY <1>3
  <2>2. ~FullIn(frames, file', Len(file')) BY <2>1, EndNotFull
  <2> QED BY <1>3, <2>2
<1>10. WholeIn(frames, file) = FramesOf(mem[p]) BY <1>3, <1>4, <1>5, <1>6, <1>8, HeldAll
<1>11. WholeIn(frames, file') = FramesOf(mem[p]) BY <1>3, <1>4, <1>5, <1>7, <1>9, HeldAll
<1> QED BY <1>2, <1>10, <1>11, WholeNow, WholeNext DEF Alike

LEMMA WriteWhole ==
    ASSUME HandleInv, HandleInv', NEW p \in Procs, writeFull(p)
    PROVE  Alike \/ Longer
<1>1. TypeOK /\ TypeOK' /\ Handle(p) /\ Handle(p)' /\ \A q \in Procs : Handle(q) BY DEF HandleInv
<1>2. /\ pc[p] \in {"header", "write"} /\ pc'[p] = pc[p] /\ frames' = frames /\ mem'[p] = mem[p] /\ buf[p] # <<>>
  BY <1>1 DEF writeFull
<1>3. off[p] = Len(file) BY <1>1, WriteType
<1>4. Len(file') = Len(file) + 1 /\ (\A i \in 1..Len(file) : file'[i] = file[i])
      /\ Len(buf[p]) > 0 /\ off'[p] = off[p] + 1
  BY <1>1, <1>3, WriteGrows
<1>5. /\ frames \in Seq(Begun) /\ file \in Seq(BytesOf(frames)) /\ file' \in Seq(BytesOf(frames)) /\ Len(frames) \in Nat
      /\ Len(file) \in Nat /\ Len(file') \in Nat
  BY <1>1, <1>2, FilesNow, FilesNext
<1>6. CASE pc[p] = "header"
  <2>1. Len(buf[p]) = HeaderSize - off[p] BY <1>1, <1>6 DEF Handle, WritingHeader
  <2>2. Len(file) < HeaderSize /\ Len(file') <= HeaderSize BY <1>3, <1>4, <1>5, <2>1, JournalConstants
  <2>3. WholeIn(frames, file) = <<>>
    <3>1. ~HeaderOK(file) BY <1>5, <2>2, JournalConstants DEF HeaderOK
    <3> QED BY <3>1 DEF WholeIn
  <2>4. CASE HeaderOK(file')
    <3>1. Len(file') = HeaderSize /\ HeaderSize \in HeaderSize..Len(file')
      BY <1>5, <2>2, <2>4, JournalConstants DEF HeaderOK
    <3>2. ~FullIn(frames, file', HeaderSize) BY <1>5, <3>1, EndNotFull
    <3>3. ListIn(frames, file')[HeaderSize] = <<>> BY <1>5, <3>1, <3>2, ListHere DEF Onwards
    <3>4. WholeIn(frames, file') = <<>> BY <3>3 DEF WholeIn
    <3> QED BY <1>2, <2>3, <3>4, WholeNow, WholeNext DEF Alike
  <2>5. CASE ~HeaderOK(file')
    <3>1. WholeIn(frames, file') = <<>> BY <2>5 DEF WholeIn
    <3> QED BY <1>2, <2>3, <3>1, WholeNow, WholeNext DEF Alike
  <2> QED BY <2>4, <2>5
<1>7. CASE pc[p] = "write"
  <2>1. Whole(file) = FramesOf(mem[p]) BY <1>1, <1>2, <1>7, WriterWhole
  <2>2. CASE buf'[p] # <<>>
    <3>1. Whole(file)' = FramesOf(mem'[p]) BY <1>1, <1>2, <1>7, <2>2, WriterWholeNext DEF FramesOf
    <3> QED BY <1>2, <2>1, <3>1 DEF Alike
  <2>3. CASE buf'[p] = <<>>
    <3>1. PICK e \in Place : Whole(file)' = FramesOf(Append(mem'[p], e))
      BY <1>1, <1>2, <1>7, <2>3, WriterWholeNext DEF FramesOf
    <3>2. mem[p] \in Seq(Place) BY <1>1, Parts
    <3>3. Len(Append(mem[p], e)) = Len(mem[p]) + 1 /\ Len(mem[p]) \in Nat BY <3>2, AppendEnds, Ends
    <3>4. Len(Whole(file)') = Len(Whole(file)) + 1
      <4>1. Len(FramesOf(mem[p])) = Len(mem[p]) BY <3>3 DEF FramesOf
      <4>2. Len(FramesOf(Append(mem[p], e))) = Len(mem[p]) + 1 BY <3>3 DEF FramesOf
      <4> QED BY <1>2, <2>1, <3>1, <4>1, <4>2
    <3>5. IsPrefix(WholeIn(frames, file), WholeIn(frames, file'))
      <4>1. Len(file) <= Len(file') BY <1>4, <1>5
      <4>2. Len(frames) <= Len(frames) BY <1>5
      <4>3. \A f \in 1..Len(frames) : frames[f] = frames[f] OBVIOUS
      <4>4. \A i \in 1..Len(file) : file'[i] = file[i] BY <1>4
      <4> QED BY <1>5, <4>1, <4>2, <4>3, <4>4, WholeGrows
    <3>6. IsPrefix(Whole(file), Whole(file)') BY <1>2, <3>5, WholeNow, WholeNext
    <3> QED BY <3>4, <3>6 DEF Longer
  <2> QED BY <2>2, <2>3
<1> QED BY <1>2, <1>6, <1>7

LEMMA WholeSteps ==
    ASSUME HandleInv, HandleInv', WholeInv, [Next]_vars
    PROVE  \/ Alike
           \/ Longer /\ acked' = acked
           \/ PowerFails
<1>1. TypeOK /\ \A q \in Procs : Handle(q) BY DEF HandleInv
<1>2. ASSUME NEW p \in Procs,
             MkdirAll(p) \/ syncParent(p) \/ lockDirectory(p) \/ openFile(p) \/ headerSync(p)
                \/ syncDirectory(p) \/ readHeader(p) \/ readFrame(p) \/ endScan(p) \/ refuse(p)
                \/ tailSync(p) \/ openFails(p) \/ sync(p) \/ appendFails(p) \/ Close(p) \/ Crash(p)
      PROVE  Alike
  <2>1. UNCHANGED <<file, frames>>
    BY <1>2 DEF MkdirAll, syncParent, lockDirectory, openFile, headerSync, syncDirectory, readHeader, readFrame,
                endScan, refuse, tailSync, openFails, sync, appendFails, Close, Crash
  <2> QED BY <2>1, SameWhole
<1>3. ASSUME NEW p \in Procs, writeFull(p) PROVE Alike \/ (Longer /\ acked' = acked)
  <2>1. acked' = acked BY <1>3 DEF writeFull
  <2> QED BY <1>3, <2>1, WriteWhole
<1>4. ASSUME NEW p \in Procs, truncate(p) PROVE Alike BY <1>4, TruncateWhole
<1>5. ASSUME NEW p \in Procs, NEW n \in 1..MaxPayload, beginAppend(p, n) PROVE Alike BY <1>1, <1>5, BeginWhole
<1>6. ASSUME UNCHANGED vars PROVE Alike
  <2>1. UNCHANGED <<file, frames>> BY <1>6 DEF vars
  <2> QED BY <2>1, SameWhole
<1> QED BY <1>2, <1>3, <1>4, <1>5, <1>6 DEF Next

(* The frames that were begun stay as they are; who syncs has the file on the device. *)
LEMMA FramesStay ==
    ASSUME HandleInv, [Next]_vars
    PROVE  \A f \in 1..Len(frames) : frames'[f] = frames[f]
<1>1. TypeOK BY DEF HandleInv
<1>2. ASSUME NEW p \in Procs, NEW n \in 1..MaxPayload, beginAppend(p, n)
      PROVE  \A f \in 1..Len(frames) : frames'[f] = frames[f]
  BY <1>1, <1>2, BeginGrows
<1>3. ASSUME NEW p \in Procs,
             MkdirAll(p) \/ syncParent(p) \/ lockDirectory(p) \/ openFile(p) \/ writeFull(p) \/ headerSync(p)
                \/ syncDirectory(p) \/ readHeader(p) \/ readFrame(p) \/ endScan(p) \/ refuse(p) \/ truncate(p)
                \/ tailSync(p) \/ openFails(p) \/ sync(p) \/ appendFails(p) \/ Close(p) \/ Crash(p)
      PROVE  frames' = frames
  BY <1>3 DEF MkdirAll, syncParent, lockDirectory, openFile, writeFull, headerSync, syncDirectory, readHeader,
              readFrame, endScan, refuse, truncate, tailSync, openFails, sync, appendFails, Close, Crash
<1>4. ASSUME PowerFails \/ UNCHANGED vars PROVE frames' = frames BY <1>4 DEF PowerFails, vars
<1> QED BY <1>2, <1>3, <1>4 DEF Next

LEMMA DeviceHas == ASSUME [Next]_vars PROVE stable' = stable \/ stable' = file'
<1>1. ASSUME NEW p \in Procs,
             MkdirAll(p) \/ syncParent(p) \/ lockDirectory(p) \/ openFile(p) \/ writeFull(p)
                \/ syncDirectory(p) \/ readHeader(p) \/ readFrame(p) \/ endScan(p) \/ refuse(p) \/ truncate(p)
                \/ openFails(p) \/ appendFails(p) \/ Close(p) \/ Crash(p)
      PROVE  stable' = stable
  BY <1>1 DEF MkdirAll, syncParent, lockDirectory, openFile, writeFull, syncDirectory, readHeader,
              readFrame, endScan, refuse, truncate, openFails, appendFails, Close, Crash
<1>2. ASSUME NEW p \in Procs, headerSync(p) \/ tailSync(p) \/ sync(p) PROVE stable' = file'
  BY <1>2 DEF headerSync, tailSync, sync
<1>3. ASSUME NEW p \in Procs, NEW n \in 1..MaxPayload, beginAppend(p, n) PROVE stable' = stable
  BY <1>3 DEF beginAppend
<1>4. ASSUME PowerFails \/ UNCHANGED vars PROVE stable' = stable \/ stable' = file' BY <1>4 DEF PowerFails, vars
<1> QED BY <1>1, <1>2, <1>3, <1>4 DEF Next

LEMMA LossesNext == ASSUME [Next]_vars PROVE losses' = losses \/ (PowerFails /\ losses' = losses + 1)
<1>1. ASSUME NEW p \in Procs,
             MkdirAll(p) \/ syncParent(p) \/ lockDirectory(p) \/ openFile(p) \/ writeFull(p) \/ headerSync(p)
                \/ syncDirectory(p) \/ readHeader(p) \/ readFrame(p) \/ endScan(p) \/ refuse(p) \/ truncate(p)
                \/ tailSync(p) \/ openFails(p) \/ sync(p) \/ appendFails(p) \/ Close(p) \/ Crash(p)
      PROVE  losses' = losses
  BY <1>1 DEF MkdirAll, syncParent, lockDirectory, openFile, writeFull, headerSync, syncDirectory, readHeader,
              readFrame, endScan, refuse, truncate, tailSync, openFails, sync, appendFails, Close, Crash
<1>2. ASSUME NEW p \in Procs, NEW n \in 1..MaxPayload, beginAppend(p, n) PROVE losses' = losses
  BY <1>2 DEF beginAppend
<1>3. ASSUME PowerFails PROVE losses' = losses + 1 BY <1>3 DEF PowerFails
<1>4. ASSUME UNCHANGED vars PROVE losses' = losses BY <1>4 DEF vars
<1> QED BY <1>1, <1>2, <1>3, <1>4 DEF Next

(* Who is about to cut the file found its end incomplete, and nobody else changes it. *)
LEMMA TornStays ==
    ASSUME HandleInv, WholeInv, [Next]_vars, NEW q \in Procs, pc'[q] = "truncate"
    PROVE  Torn(file, off[q])'
<1>1. TypeOK /\ \A p \in Procs : Handle(p) BY DEF HandleInv
<1>2. pc \in [Procs -> {"closed", "mkdir", "lock", "create", "header", "entry", "check", "scan",
                        "truncate", "tail", "open", "write"}] /\ off \in [Procs -> Nat]
  BY <1>1 DEF TypeOK
<1>3. ASSUME UNCHANGED <<file, frames>>, off'[q] = off[q], Torn(file, off[q]) PROVE Torn(file, off[q])'
  BY <1>3 DEF Torn, Left, PrefixOK, SizeAt, FrameAt
<1>4. ASSUME UNCHANGED <<file, frames>>, off'[q] = off[q], pc[q] = "truncate" PROVE Torn(file, off[q])'
  BY <1>3, <1>4 DEF WholeInv
<1>5. ASSUME NEW p \in Procs,
             MkdirAll(p) \/ syncParent(p) \/ lockDirectory(p) \/ openFile(p) \/ headerSync(p)
                \/ syncDirectory(p) \/ tailSync(p) \/ sync(p) \/ appendFails(p)
      PROVE  Torn(file, off[q])'
  <2>1. UNCHANGED <<file, frames, off>>
    BY <1>5 DEF MkdirAll, syncParent, lockDirectory, openFile, headerSync, syncDirectory, tailSync, sync, appendFails
  <2>2. pc[q] = "truncate"
    BY <1>2, <1>5 DEF MkdirAll, syncParent, lockDirectory, openFile, headerSync, syncDirectory, tailSync, sync,
                      appendFails, Go
  <2> QED BY <1>4, <2>1, <2>2
<1>6. ASSUME NEW p \in Procs, readHeader(p) \/ readFrame(p) PROVE Torn(file, off[q])'
  <2>1. UNCHANGED <<file, frames>> BY <1>6 DEF readHeader, readFrame
  <2>2. pc[q] = "truncate" /\ q # p /\ off'[q] = off[q] BY <1>2, <1>6 DEF readHeader, readFrame, Go
  <2> QED BY <1>4, <2>1, <2>2
<1>7. ASSUME NEW p \in Procs, endScan(p) PROVE Torn(file, off[q])'
  <2>1. UNCHANGED <<file, frames, off>> BY <1>7 DEF endScan
  <2>2. Torn(file, off[q])
    <3>1. CASE q = p BY <1>7, <3>1 DEF endScan
    <3>2. CASE q # p
      <4>1. pc[q] = "truncate" BY <1>2, <1>7, <3>2 DEF endScan, Go
      <4> QED BY <4>1 DEF WholeInv
    <3> QED BY <3>1, <3>2
  <2> QED BY <1>3, <2>1, <2>2
<1>8. ASSUME NEW p \in Procs, refuse(p) \/ openFails(p) \/ Close(p) \/ Crash(p) PROVE Torn(file, off[q])'
  <2>1. UNCHANGED <<file, frames>> /\ Leave(p) BY <1>8 DEF refuse, openFails, Close, Crash
  <2>2. pc[q] = "truncate" /\ q # p /\ off'[q] = off[q] BY <1>2, <2>1 DEF Leave, Go
  <2> QED BY <1>4, <2>1, <2>2
<1>9. ASSUME NEW p \in Procs, NEW n \in 1..MaxPayload, writeFull(p) \/ truncate(p) \/ beginAppend(p, n) PROVE FALSE
  <2>1. pc[p] \notin Out BY <1>9 DEF writeFull, truncate, beginAppend, Out
  <2>2. pc'[p] # "truncate" /\ \A r \in Procs \ {p} : pc'[r] = pc[r]
    BY <1>2, <1>9 DEF writeFull, truncate, beginAppend, Go
  <2>3. q # p /\ pc[q] = "truncate" BY <2>2
  <2>4. Idle(q) BY <1>1, <2>1, <2>3, OthersIdle
  <2> QED BY <2>3, <2>4 DEF Idle, Out
<1>10. ASSUME PowerFails PROVE FALSE BY <1>10 DEF PowerFails
<1>11. ASSUME UNCHANGED vars PROVE Torn(file, off[q])'
  <2>1. UNCHANGED <<file, frames, off, pc>> BY <1>11 DEF vars, handle
  <2> QED BY <1>4, <2>1
<1>12. \E n \in 1..MaxPayload : TRUE BY JournalConstants
<1> QED BY <1>5, <1>6, <1>7, <1>8, <1>9, <1>10, <1>11, <1>12 DEF Next

LEMMA WholeInvNext == HandleInv /\ HandleInv' /\ WholeInv /\ [Next]_vars => WholeInv'
<1> SUFFICES ASSUME HandleInv, HandleInv', WholeInv, [Next]_vars PROVE WholeInv'
  OBVIOUS
<1>1. TypeOK /\ TypeOK' BY DEF HandleInv
<1>2. losses' \in Nat BY LossesNext DEF WholeInv
<1>3. \A q \in Procs : pc'[q] = "truncate" => Torn(file, off[q])' BY TornStays
<1>4. /\ Whole(file) \in Seq(Nat) /\ Whole(stable) \in Seq(Nat)
      /\ Whole(file)' \in Seq(Nat) /\ Whole(stable)' \in Seq(Nat)
  BY <1>1, FilesNow, FilesNext
<1>5. IsPrefix(Whole(stable)', Whole(file)')
  <2>1. CASE stable' = file'
    <3>1. Whole(stable)' = Whole(file)' BY <2>1, WholeNext
    <3> QED BY <1>4, <3>1, PrefixSame
  <2>2. CASE stable' = stable /\ ~PowerFails
    <3>1. Whole(stable)' = Whole(stable)
      <4>1. frames \in Seq(Begun) /\ stable \in Seq(BytesOf(frames)) BY <1>1, FilesNow
      <4>2. \A f \in 1..Len(frames) : frames'[f] = frames[f] BY FramesStay
      <4>3. WholeIn(frames', stable) = WholeIn(frames, stable) BY <4>1, <4>2, WholeStaysSo
      <4> QED BY <2>2, <4>3, WholeNow, WholeNext
    <3>2. IsPrefix(Whole(stable), Whole(file)) BY DEF WholeInv
    <3>3. IsPrefix(Whole(file), Whole(file)')
      <4>1. CASE Alike BY <1>4, <4>1, PrefixSame DEF Alike
      <4>2. CASE Longer BY <4>2 DEF Longer
      <4> QED BY <2>2, <4>1, <4>2, WholeSteps
    <3> QED BY <1>4, <3>1, <3>2, <3>3, PrefixOver
  <2>3. CASE PowerFails
    <3>1. stable' = file' BY <2>3 DEF PowerFails
    <3> QED BY <2>1, <3>1
  <2> QED BY <2>1, <2>2, <2>3, DeviceHas
<1> QED BY <1>2, <1>3, <1>5 DEF WholeInv

LEMMA NothingWhole == Whole(<<>>) = <<>>
<1>1. ~HeaderOK(<<>>) BY JournalConstants DEF HeaderOK
<1> QED BY <1>1 DEF Whole

LEMMA WholeInit == Init => WholeInv
<1> SUFFICES ASSUME Init PROVE WholeInv
  OBVIOUS
<1>1. file = <<>> /\ stable = <<>> /\ losses = 0 /\ \A p \in Procs : pc[p] = "closed" BY DEF Init
<1>2. <<>> \in Seq(Nat) OBVIOUS
<1>3. IsPrefix(Whole(stable), Whole(file)) BY <1>1, <1>2, NothingWhole, PrefixSame
<1> QED BY <1>1, <1>3 DEF WholeInv

(* No process ever takes a whole frame out of the journal, on any device, whatever it crashes in
   the middle of and whatever fails: what goes, goes in a loss of power. *)
THEOREM WholeTheorem == Spec => WholeFramesStay
<1>1. HandleInv /\ HandleInv' /\ WholeInv /\ [Next]_vars =>
          [losses' = losses => IsPrefix(Whole(file), Whole(file)')]_vars
  <2> SUFFICES ASSUME HandleInv, HandleInv', WholeInv, [Next]_vars, losses' = losses
               PROVE  IsPrefix(Whole(file), Whole(file)')
    OBVIOUS
  <2>1. TypeOK BY DEF HandleInv
  <2>2. Whole(file) \in Seq(Nat) BY <2>1, FilesNow
  <2>3. ~PowerFails
    <3>1. losses \in Nat BY DEF WholeInv
    <3> QED BY <3>1 DEF PowerFails
  <2>4. CASE Alike BY <2>2, <2>4, PrefixSame DEF Alike
  <2>5. CASE Longer BY <2>5 DEF Longer
  <2> QED BY <2>3, <2>4, <2>5, WholeSteps
<1> QED BY <1>1, HandleInvariant, WholeInit, WholeInvNext, PTL DEF Spec, WholeFramesStay

-----------------------------------------------------------------------------
(* Steps: the journal is the list that AppendLog promises. *)

(* What is confirmed is the beginning of what is whole. *)
LEMMA AckedWhole ==
    HandleInv /\ AckedInv => /\ Len(acked) \in Nat /\ Len(acked) <= Len(Whole(file))
                             /\ \A i \in 1..Len(acked) : Whole(file)[i] = acked[i].frame
<1> SUFFICES ASSUME HandleInv, AckedInv
             PROVE  /\ Len(acked) \in Nat /\ Len(acked) <= Len(Whole(file))
                    /\ \A i \in 1..Len(acked) : Whole(file)[i] = acked[i].frame
  OBVIOUS
<1>1. TypeOK BY DEF HandleInv
<1>2. frames \in Seq(Begun) /\ file \in Seq(BytesOf(frames)) /\ Whole(file) \in Seq(Nat) BY <1>1, FilesNow
<1>3. /\ acked \in Seq(Entries) /\ acked \in Seq(Place) /\ Len(acked) \in Nat /\ DOMAIN acked = 1..Len(acked)
      /\ (acked = <<>> <=> Len(acked) = 0)
  BY <1>1, AckedTypes
<1>4. Len(Whole(file)) \in Nat BY <1>2
<1>5. CASE acked = <<>>
  <2>1. Len(acked) = 0 BY <1>3, <1>5
  <2> QED BY <1>4, <2>1
<1>6. CASE acked # <<>>
  <2>1. Indexed(acked) /\ Rising(acked) /\ Holds(file, acked) BY <1>6 DEF AckedInv, Confirmed
  <2>2. Chain(frames, acked)
    <3>1. \A i \in DOMAIN acked : acked[i].frame \in DOMAIN frames
      <4>1. \A i \in DOMAIN acked : acked[i] \in Entries BY <1>3
      <4> QED BY <4>1 DEF Entries
    <3> QED BY <2>1, <3>1 DEF Chain, Indexed
  <2> DEFINE rest == ListIn(frames, file)[End(acked)]
  <2>3. Whole(file) = FramesOf(acked) \o rest /\ FramesOf(acked) \in Seq(Nat) /\ rest \in Seq(Nat)
    BY <1>2, <1>3, <2>1, <2>2, HeldFirst, WholeNow
  <2> HIDE DEF rest
  <2>4. Len(FramesOf(acked)) = Len(acked) /\ \A i \in 1..Len(acked) : FramesOf(acked)[i] = acked[i].frame
    BY <1>3 DEF FramesOf
  <2>5. Len(Whole(file)) = Len(acked) + Len(rest) /\ Len(rest) \in Nat BY <2>3, <2>4
  <2>6. \A i \in 1..Len(acked) : Whole(file)[i] = FramesOf(acked)[i] BY <2>3, <2>4
  <2> QED BY <1>3, <2>4, <2>5, <2>6
<1> QED BY <1>5, <1>6

LEMMA AckedWholeNext ==
    (HandleInv /\ AckedInv => /\ Len(acked) \in Nat /\ Len(acked) <= Len(Whole(file))
                              /\ \A i \in 1..Len(acked) : Whole(file)[i] = acked[i].frame)'
<1>1. HandleInv /\ AckedInv => /\ Len(acked) \in Nat /\ Len(acked) <= Len(Whole(file))
                               /\ \A i \in 1..Len(acked) : Whole(file)[i] = acked[i].frame
  BY AckedWhole
<1> QED BY <1>1, PTL

LEMMA PromisePrefix == ASSUME NEW s, NEW t PROVE Promise!IsPrefix(s, t) <=> IsPrefix(s, t)
BY DEF IsPrefix, Promise!IsPrefix

LEMMA AckedSteps == ASSUME [Next]_vars PROVE acked' = acked \/ \E p \in Procs : sync(p)
<1>1. ASSUME NEW p \in Procs,
             MkdirAll(p) \/ syncParent(p) \/ lockDirectory(p) \/ openFile(p) \/ writeFull(p) \/ headerSync(p)
                \/ syncDirectory(p) \/ readHeader(p) \/ readFrame(p) \/ endScan(p) \/ refuse(p) \/ truncate(p)
                \/ tailSync(p) \/ openFails(p) \/ appendFails(p) \/ Close(p) \/ Crash(p)
      PROVE  acked' = acked
  BY <1>1 DEF MkdirAll, syncParent, lockDirectory, openFile, writeFull, headerSync, syncDirectory, readHeader,
              readFrame, endScan, refuse, truncate, tailSync, openFails, appendFails, Close, Crash
<1>2. ASSUME NEW p \in Procs, NEW n \in 1..MaxPayload, beginAppend(p, n) PROVE acked' = acked
  BY <1>2 DEF beginAppend
<1>3. ASSUME PowerFails \/ UNCHANGED vars PROVE acked' = acked BY <1>3 DEF PowerFails, vars
<1> QED BY <1>1, <1>2, <1>3 DEF Next

LEMMA DeviceStays == ASSUME [Next]_vars PROVE device' = device
BY DEF Next, vars

LEMMA SyncConfirms ==
    ASSUME HandleInv, HandleInv', NEW p \in Procs, sync(p)
    PROVE  Len(acked') = Len(Whole(file)) /\ Whole(file)' = Whole(file)
<1>1. TypeOK /\ Handle(p) BY DEF HandleInv
<1>2. pc[p] = "write" /\ buf[p] = <<>> BY DEF sync
<1>3. PICK e \in Place : Whole(file) = FramesOf(Append(mem[p], e)) BY <1>1, <1>2, WriterWhole
<1>4. acked' = Append(mem[p], LastEntry(p)) BY <1>1, SyncType
<1>5. mem[p] \in Seq(Place) /\ LastEntry(p) \in Place BY <1>1, <1>2, Parts, WrittenList
<1>6. Len(acked') = Len(mem[p]) + 1 BY <1>4, <1>5, AppendEnds
<1>7. Len(Append(mem[p], e)) = Len(mem[p]) + 1 /\ Len(mem[p]) \in Nat BY <1>5, AppendEnds, Ends
<1>8. Len(Whole(file)) = Len(mem[p]) + 1
  <2>1. Len(FramesOf(Append(mem[p], e))) = Len(mem[p]) + 1 BY <1>7 DEF FramesOf
  <2> QED BY <1>3, <2>1
<1>9. UNCHANGED <<file, frames>> BY DEF sync
<1> QED BY <1>6, <1>8, <1>9, SameWhole DEF Alike

(* A loss of power: on a device that keeps the order of writes it takes frames from the end. *)
LEMMA PowerTakesLast ==
    ASSUME EntryLoss = FALSE, HandleInv, HandleInv', WholeInv, PowerFails, device = "ordered"
    PROVE  IsPrefix(Whole(file)', Whole(file))
<1>1. TypeOK /\ TypeOK' BY DEF HandleInv
<1>2. file' \in Survivors /\ frames' = frames BY DEF PowerFails
<1>3. file' = stable \/ \E n \in 0..Len(file) : file' = SubSeq(file, 1, n) BY <1>1, <1>2, SurvivorsKeep
<1>4. Whole(file)' = WholeIn(frames, file') BY <1>2, WholeNext
<1>5. CASE file' = stable
  <2>1. Whole(file)' = Whole(stable) BY <1>4, <1>5, WholeNow
  <2> QED BY <2>1 DEF WholeInv
<1>6. ASSUME NEW n \in 0..Len(file), file' = SubSeq(file, 1, n) PROVE IsPrefix(Whole(file)', Whole(file))
  <2>1. frames \in Seq(Begun) /\ file \in Seq(BytesOf(frames)) /\ Len(frames) \in Nat BY <1>1, FilesNow
  <2>2. file' \in Seq(BytesOf(frames)) BY <1>1, <1>2, FilesNext
  <2>3. Len(file) \in Nat BY <2>1
  <2>4. Len(file') = n /\ \A i \in 1..n : file'[i] = file[i] BY <1>6, <2>1, <2>3
  <2>5. Len(file') <= Len(file) BY <2>3, <2>4
  <2>6. \A i \in 1..Len(file') : file[i] = file'[i] BY <2>4
  <2>7. Len(frames) <= Len(frames) BY <2>1
  <2>8. \A f \in 1..Len(frames) : frames[f] = frames[f] OBVIOUS
  <2>9. IsPrefix(WholeIn(frames, file'), WholeIn(frames, file))
    BY <2>1, <2>2, <2>5, <2>6, <2>7, <2>8, WholeGrows
  <2> QED BY <1>4, <2>9, WholeNow
<1> QED BY <1>3, <1>5, <1>6

LEMMA PowerLoses ==
    ASSUME EntryLoss = FALSE, HandleInv, HandleInv', AckedInv, AckedInv', WholeInv, PowerFails, device' = device
    PROVE  Promise!Lose
<1>1. acked' = acked BY DEF PowerFails
<1>2. /\ Len(acked) \in Nat /\ \A i \in 1..Len(acked) : Whole(file)[i] = acked[i].frame
  BY AckedWhole
<1>3. Len(acked) <= Len(Whole(file)') /\ \A i \in 1..Len(acked) : Whole(file)'[i] = acked[i].frame
  BY <1>1, AckedWholeNext
<1>4. \A i \in 1..Len(acked) : Whole(file)'[i] = Whole(file)[i] BY <1>2, <1>3
<1>5. device = "ordered" => IsPrefix(Whole(file)', Whole(file)) BY PowerTakesLast
<1> QED BY <1>1, <1>3, <1>4, <1>5, PromisePrefix DEF Promise!Lose

LEMMA PromiseStep ==
    ASSUME EntryLoss = FALSE, HandleInv, HandleInv', AckedInv, AckedInv', WholeInv, [Next]_vars
    PROVE  [Promise!Next]_<<Whole(file), Len(acked), device = "ordered">>
<1>1. device' = device BY DeviceStays
<1>2. CASE PowerFails BY <1>1, <1>2, PowerLoses DEF Promise!Next
<1>3. ASSUME NEW p \in Procs, sync(p) PROVE Promise!Next
  BY <1>1, <1>3, SyncConfirms DEF Promise!Next, Promise!Confirm
<1>4. CASE Longer /\ acked' = acked BY <1>1, <1>4, PromisePrefix DEF Longer, Promise!Next, Promise!Grow
<1>5. CASE Alike /\ acked' = acked BY <1>1, <1>5 DEF Alike
<1> QED BY <1>2, <1>3, <1>4, <1>5, WholeSteps, AckedSteps

LEMMA PromiseInit == Init => Promise!Init
<1> SUFFICES ASSUME Init PROVE Whole(file) = <<>> /\ Len(acked) = 0
  BY DEF Promise!Init
<1>1. file = <<>> /\ acked = <<>> BY DEF Init
<1> QED BY <1>1, NothingWhole

(* The file, byte by byte, with its half-written frames, crashes, failed writes and losses of
   power, is the list of whole transactions that the worker relies on. *)
THEOREM PromiseTheorem ==
    ASSUME EntryLoss = FALSE
    PROVE  Spec => ImplementsAppendLog
<1>1. HandleInv /\ AckedInv /\ [Next]_vars => AckedInv'
  <2> SUFFICES ASSUME HandleInv, AckedInv, [Next]_vars PROVE AckedInv'
    OBVIOUS
  <2>1. HandleInv' BY HandleNext
  <2> QED BY <2>1, ConfirmedNext, FindsNext DEF AckedInv
<1>2. HandleInv /\ HandleInv' /\ AckedInv /\ AckedInv' /\ WholeInv /\ [Next]_vars
        => [Promise!Next]_<<Whole(file), Len(acked), device = "ordered">>
  BY PromiseStep
<1> QED BY <1>1, <1>2, HandleInvariant, AckedInit, WholeInit, WholeInvNext, PromiseInit, PTL
        DEF Spec, ImplementsAppendLog, Promise!Spec

-----------------------------------------------------------------------------
(* Steps: sums. *)

(* What holds at the first place and from one place to the next holds everywhere. *)
LEMMA Upward ==
    ASSUME NEW lo \in Nat, NEW hi \in Nat, NEW G, lo \in G,
           \A i \in lo..hi : i \in G /\ i < hi => i + 1 \in G
    PROVE  \A i \in lo..hi : i \in G
<1> DEFINE T == {i \in Nat : i \in lo..hi /\ i \notin G}
<1>1. T = {}
  <2> SUFFICES ASSUME T # {} PROVE FALSE
    OBVIOUS
  <2>1. T \in SUBSET Nat OBVIOUS
  <2>2. PICK m \in T : \A y \in T : m <= y
    <3> HIDE DEF T
    <3> QED BY <2>1, Least
  <2>3. m \in Nat /\ m \in lo..hi /\ m \notin G OBVIOUS
  <2>4. m # lo BY <2>3
  <2>5. m - 1 \in lo..hi /\ m - 1 \in Nat /\ ~(m <= m - 1) /\ m - 1 < hi /\ (m - 1) + 1 = m BY <2>3, <2>4
  <2>6. m - 1 \notin T BY <2>2, <2>5
  <2>7. m - 1 \in G BY <2>5, <2>6
  <2> HIDE DEF T
  <2> QED BY <2>3, <2>5, <2>7
<1> QED BY <1>1

LEMMA SumDefined ==
    ASSUME NEW s \in Seq(Nat)
    PROVE  \E g : g = [i \in 0..Len(s) |-> IF i = 0 THEN 0 ELSE g[i - 1] + s[i]]
<1> DEFINE D == 0..Len(s)
           At(g, i) == IF i = 0 THEN 0 ELSE g[i - 1] + s[i]
           Right(g, m) == \A i \in D : i <= m => g[i] = At(g, i)
           G == {m \in D : \E g : Right(g, m)}
<1>1. Len(s) \in Nat /\ 0 \in D OBVIOUS
<1>2. 0 \in G
  <2> DEFINE g == [i \in D |-> 0]
  <2>1. ASSUME NEW i \in D, i <= 0 PROVE g[i] = At(g, i)
    <3>1. i = 0 BY <1>1, <2>1
    <3> QED BY <3>1
  <2>2. Right(g, 0) BY <2>1
  <2> QED BY <1>1, <2>2
<1>3. ASSUME NEW m \in D, m \in G, m < Len(s) PROVE m + 1 \in G
  <2>1. PICK g : Right(g, m) BY <1>3
  <2> DEFINE f == [i \in D |-> IF i <= m THEN g[i] ELSE At(g, i)]
  <2>2. ASSUME NEW i \in D, i <= m + 1 PROVE f[i] = At(f, i)
    <3>1. f[i] = At(g, i) BY <2>1
    <3>2. CASE i = 0 BY <3>1, <3>2
    <3>3. CASE i # 0
      <4>1. i - 1 \in D /\ i - 1 <= m BY <2>2, <3>3, <1>1
      <4>2. f[i - 1] = g[i - 1] BY <4>1
      <4> QED BY <3>1, <3>3, <4>2
    <3> QED BY <3>2, <3>3
  <2>3. Right(f, m + 1) BY <2>2
  <2>4. m + 1 \in D BY <1>1, <1>3
  <2> QED BY <2>3, <2>4
<1>4. \A i \in 0..Len(s) : i \in G
  <2> HIDE DEF G
  <2> QED BY <1>1, <1>2, <1>3, Upward
<1>5. PICK f : Right(f, Len(s))
  <2>1. Len(s) \in G
    <3> HIDE DEF G, Right, D
    <3>1. Len(s) \in 0..Len(s) BY <1>1
    <3> QED BY <1>4, <3>1
  <2> QED BY <2>1
<1>6. \A i \in D : f[i] = At(f, i) BY <1>5, <1>1
<1> DEFINE e == [i \in D |-> f[i]]
<1>7. ASSUME NEW i \in D PROVE e[i] = At(e, i)
  <2>1. i # 0 => i - 1 \in D BY <1>1
  <2> QED BY <1>6, <2>1
<1>8. e = [i \in D |-> At(e, i)]
  <2>1. e = [i \in D |-> e[i]] OBVIOUS
  <2> HIDE DEF e, D, At
  <2> QED BY <1>7, <2>1
<1> QED BY <1>8

LEMMA SumHere ==
    ASSUME NEW s \in Seq(Nat)
    PROVE  /\ SumUpTo(s)[0] = 0
           /\ \A i \in 1..Len(s) : SumUpTo(s)[i] = SumUpTo(s)[i - 1] + s[i]
<1> DEFINE P(g) == g = [i \in 0..Len(s) |-> IF i = 0 THEN 0 ELSE g[i - 1] + s[i]]
<1>1. SumUpTo(s) = CHOOSE g : P(g) BY DEF SumUpTo
<1>2. \E g : P(g) BY SumDefined
<1> HIDE DEF P
<1>3. P(SumUpTo(s)) BY <1>1, <1>2
<1> DEFINE u == SumUpTo(s)
<1>4. u = [i \in 0..Len(s) |-> IF i = 0 THEN 0 ELSE u[i - 1] + s[i]] BY <1>3 DEF P
<1> HIDE DEF u
<1>5. Len(s) \in Nat OBVIOUS
<1>6. \A i \in 0..Len(s) : u[i] = IF i = 0 THEN 0 ELSE u[i - 1] + s[i] BY <1>4
<1>7. u[0] = 0 BY <1>5, <1>6
<1>8. ASSUME NEW i \in 1..Len(s) PROVE u[i] = u[i - 1] + s[i]
  <2>1. i \in 0..Len(s) /\ i # 0 BY <1>5
  <2> QED BY <1>6, <2>1
<1> QED BY <1>7, <1>8 DEF u

LEMMA SumTyped ==
    ASSUME NEW s \in Seq(Nat)
    PROVE  (\A i \in 0..Len(s) : SumUpTo(s)[i] \in Nat) /\ Total(s) \in Nat
<1> DEFINE G == {i \in 0..Len(s) : SumUpTo(s)[i] \in Nat}
<1>1. Len(s) \in Nat OBVIOUS
<1>2. 0 \in G BY <1>1, SumHere
<1>3. ASSUME NEW i \in 0..Len(s), i \in G, i < Len(s) PROVE i + 1 \in G
  <2>1. i + 1 \in 1..Len(s) /\ (i + 1) - 1 = i /\ i + 1 \in 0..Len(s) BY <1>1, <1>3
  <2>2. SumUpTo(s)[i + 1] = SumUpTo(s)[i] + s[i + 1] /\ s[i + 1] \in Nat BY <2>1, SumHere
  <2>3. SumUpTo(s)[i] \in Nat BY <1>3
  <2>4. SumUpTo(s)[i + 1] \in Nat BY <2>2, <2>3
  <2> QED BY <2>1, <2>4
<1>4. \A i \in 0..Len(s) : i \in G
  <2> HIDE DEF G
  <2> QED BY <1>1, <1>2, <1>3, Upward
<1>5. Len(s) \in 0..Len(s) BY <1>1
<1> QED BY <1>4, <1>5 DEF Total

LEMMA SumAlike ==
    ASSUME NEW s \in Seq(Nat), NEW t \in Seq(Nat), NEW n \in 0..Len(s), n <= Len(t),
           \A i \in 1..n : s[i] = t[i]
    PROVE  SumUpTo(s)[n] = SumUpTo(t)[n]
<1> DEFINE G == {i \in 0..n : SumUpTo(s)[i] = SumUpTo(t)[i]}
<1>1. Len(s) \in Nat /\ Len(t) \in Nat /\ n \in Nat OBVIOUS
<1>2. 0 \in G BY <1>1, SumHere
<1>3. ASSUME NEW i \in 0..n, i \in G, i < n PROVE i + 1 \in G
  <2>1. i + 1 \in 1..n /\ i + 1 \in 1..Len(s) /\ i + 1 \in 1..Len(t) /\ (i + 1) - 1 = i /\ i + 1 \in 0..n
    BY <1>1, <1>3
  <2>2. SumUpTo(s)[i + 1] = SumUpTo(s)[i] + s[i + 1] /\ SumUpTo(t)[i + 1] = SumUpTo(t)[i] + t[i + 1]
    BY <2>1, SumHere
  <2>3. SumUpTo(s)[i] = SumUpTo(t)[i] /\ s[i + 1] = t[i + 1] BY <1>3, <2>1
  <2> QED BY <2>1, <2>2, <2>3
<1>4. \A i \in 0..n : i \in G
  <2> HIDE DEF G
  <2> QED BY <1>1, <1>2, <1>3, Upward
<1>5. n \in 0..n BY <1>1
<1> QED BY <1>4, <1>5

LEMMA TotalAppend ==
    ASSUME NEW s \in Seq(Nat), NEW t \in Seq(Nat), Len(t) = Len(s) + 1, \A i \in 1..Len(s) : t[i] = s[i]
    PROVE  Total(t) = Total(s) + t[Len(t)]
<1>1. Len(s) \in Nat /\ Len(s) \in 0..Len(s) /\ Len(s) <= Len(t) /\ Len(t) \in 1..Len(t) /\ Len(t) - 1 = Len(s) OBVIOUS
<1>2. \A i \in 1..Len(s) : s[i] = t[i] OBVIOUS
<1>3. SumUpTo(s)[Len(s)] = SumUpTo(t)[Len(s)] BY <1>1, <1>2, SumAlike
<1>4. SumUpTo(t)[Len(t)] = SumUpTo(t)[Len(t) - 1] + t[Len(t)] BY <1>1, SumHere
<1> QED BY <1>1, <1>3, <1>4 DEF Total

LEMMA TotalChange ==
    ASSUME NEW s \in Seq(Nat), NEW t \in Seq(Nat), Len(t) = Len(s), NEW i \in 1..Len(s),
           \A k \in 1..Len(s) : k # i => t[k] = s[k]
    PROVE  Total(t) + s[i] = Total(s) + t[i]
<1> DEFINE G == {k \in i..Len(s) : SumUpTo(t)[k] + s[i] = SumUpTo(s)[k] + t[i]}
<1>1. Len(s) \in Nat /\ i \in Nat /\ i \in 1..Len(t) /\ s[i] \in Nat /\ t[i] \in Nat OBVIOUS
<1>2. /\ \A k \in 0..Len(s) : SumUpTo(s)[k] \in Nat /\ SumUpTo(t)[k] \in Nat
  BY SumTyped
<1>3. i \in G
  <2>1. i - 1 \in 0..Len(s) /\ i - 1 <= Len(t) /\ \A k \in 1..i - 1 : k \in 1..Len(s) /\ k # i BY <1>1
  <2>2. \A k \in 1..i - 1 : s[k] = t[k] BY <2>1
  <2>3. SumUpTo(s)[i - 1] = SumUpTo(t)[i - 1] BY <2>1, <2>2, SumAlike
  <2>4. SumUpTo(s)[i] = SumUpTo(s)[i - 1] + s[i] /\ SumUpTo(t)[i] = SumUpTo(t)[i - 1] + t[i] BY <1>1, SumHere
  <2>5. SumUpTo(s)[i - 1] \in Nat BY <1>2, <2>1
  <2>6. SumUpTo(t)[i] + s[i] = SumUpTo(s)[i] + t[i] BY <1>1, <2>3, <2>4, <2>5
  <2>7. i \in i..Len(s) BY <1>1
  <2> QED BY <2>6, <2>7
<1>4. ASSUME NEW k \in i..Len(s), k \in G, k < Len(s) PROVE k + 1 \in G
  <2>1. /\ k + 1 \in i..Len(s) /\ k + 1 \in 1..Len(s) /\ k + 1 \in 1..Len(t) /\ (k + 1) - 1 = k /\ k + 1 # i
        /\ k \in 0..Len(s)
    BY <1>1, <1>4
  <2>2. SumUpTo(s)[k + 1] = SumUpTo(s)[k] + s[k + 1] /\ SumUpTo(t)[k + 1] = SumUpTo(t)[k] + t[k + 1]
    BY <2>1, SumHere
  <2>3. s[k + 1] = t[k + 1] /\ s[k + 1] \in Nat BY <2>1
  <2>4. SumUpTo(s)[k] \in Nat /\ SumUpTo(t)[k] \in Nat BY <1>2, <2>1
  <2>5. SumUpTo(t)[k] + s[i] = SumUpTo(s)[k] + t[i] BY <1>4
  <2>6. SumUpTo(t)[k + 1] + s[i] = SumUpTo(s)[k + 1] + t[i]
    <3> DEFINE a == SumUpTo(s)[k]  b == SumUpTo(t)[k]  c == s[k + 1]  x == s[i]  y == t[i]
    <3>1. a \in Nat /\ b \in Nat /\ c \in Nat /\ x \in Nat /\ y \in Nat /\ b + x = a + y
      BY <1>1, <2>3, <2>4, <2>5
    <3>2. SumUpTo(s)[k + 1] = a + c /\ SumUpTo(t)[k + 1] = b + c BY <2>2, <2>3
    <3> HIDE DEF a, b, c, x, y, G
    <3>3. (b + c) + x = (a + c) + y BY <3>1
    <3> QED BY <3>2, <3>3 DEF x, y
  <2> QED BY <2>1, <2>6
<1>5. \A k \in i..Len(s) : k \in G
  <2> HIDE DEF G
  <2> QED BY <1>1, <1>3, <1>4, Upward
<1>6. Len(s) \in i..Len(s) BY <1>1
<1> QED BY <1>5, <1>6 DEF Total

LEMMA TotalRemove ==
    ASSUME NEW s \in Seq(Nat), NEW t \in Seq(Nat), Len(t) = Len(s) - 1, NEW i \in 1..Len(s),
           \A k \in 1..Len(t) : t[k] = IF k < i THEN s[k] ELSE s[k + 1]
    PROVE  Total(t) + s[i] = Total(s)
<1> DEFINE G == {k \in i..Len(s) : SumUpTo(t)[k - 1] + s[i] = SumUpTo(s)[k]}
<1>1. Len(s) \in Nat /\ Len(t) \in Nat /\ i \in Nat /\ s[i] \in Nat OBVIOUS
<1>2. \A k \in 0..Len(t) : SumUpTo(t)[k] \in Nat BY SumTyped
<1>3. i \in G
  <2>1. i - 1 \in 0..Len(s) /\ i - 1 <= Len(t) /\ \A k \in 1..i - 1 : k \in 1..Len(t) /\ k < i BY <1>1
  <2>2. \A k \in 1..i - 1 : s[k] = t[k] BY <2>1
  <2>3. SumUpTo(s)[i - 1] = SumUpTo(t)[i - 1] BY <2>1, <2>2, SumAlike
  <2>4. SumUpTo(s)[i] = SumUpTo(s)[i - 1] + s[i] BY <1>1, SumHere
  <2>5. i \in i..Len(s) BY <1>1
  <2> QED BY <2>3, <2>4, <2>5
<1>4. ASSUME NEW k \in i..Len(s), k \in G, k < Len(s) PROVE k + 1 \in G
  <2>1. /\ k + 1 \in i..Len(s) /\ k + 1 \in 1..Len(s) /\ k \in 1..Len(t) /\ (k + 1) - 1 = k /\ ~(k < i)
        /\ k - 1 \in 0..Len(t)
    BY <1>1, <1>4
  <2>2. SumUpTo(s)[k + 1] = SumUpTo(s)[k] + s[k + 1] /\ SumUpTo(t)[k] = SumUpTo(t)[k - 1] + t[k]
    BY <2>1, SumHere
  <2>3. t[k] = s[k + 1] /\ s[k + 1] \in Nat BY <2>1, SMTT(30)
  <2>4. SumUpTo(t)[k - 1] \in Nat BY <1>2, <2>1
  <2>5. SumUpTo(t)[k - 1] + s[i] = SumUpTo(s)[k] BY <1>4
  <2>6. SumUpTo(t)[k] + s[i] = SumUpTo(s)[k + 1]
    <3> DEFINE a == SumUpTo(s)[k]  b == SumUpTo(t)[k - 1]  c == s[k + 1]
    <3>1. b \in Nat /\ c \in Nat /\ b + s[i] = a BY <2>3, <2>4, <2>5
    <3>2. SumUpTo(s)[k + 1] = a + c /\ SumUpTo(t)[k] = b + c BY <2>2, <2>3
    <3> HIDE DEF a, b, c, G
    <3>3. (b + c) + s[i] = a + c BY <1>1, <3>1
    <3> QED BY <3>2, <3>3
  <2> QED BY <2>1, <2>6
<1>5. \A k \in i..Len(s) : k \in G
  <2> HIDE DEF G
  <2> QED BY <1>1, <1>3, <1>4, Upward
<1>6. Len(s) \in i..Len(s) /\ Len(s) - 1 = Len(t) BY <1>1
<1> QED BY <1>5, <1>6 DEF Total

-----------------------------------------------------------------------------
(* Steps: what jobs cost. *)

LEMMA Sizes ==
    /\ HardBytes = 268435456 /\ AdmissionBytes = 201326592 /\ MaxCommitBytes = 16777216
    /\ MetadataReserve = 65536 /\ MaxPending = 64 /\ FrameBytes = 72 /\ HeaderBytes = 64
    /\ EventBytes = 300 /\ IdBytes = 35 /\ ReceiptBytes = 1000 /\ SmallJob = 700
    /\ Longest = 16703488 /\ MetadataReserve \div 2 = 32768
BY DEF HardBytes, AdmissionBytes, MaxCommitBytes, MetadataReserve, MaxPending, FrameBytes, HeaderBytes,
       EventBytes, IdBytes, ReceiptBytes, SmallJob, Longest, MiB, KiB

LEMMA OwedIs ==
    ASSUME NEW j \in JobRecords
    PROVE  /\ j.len \in Nat /\ Owed(j) \in Nat
           /\ j.state = "queued" => Owed(j) = 3 * j.len + 77824
           /\ j.state = "running" => Owed(j) = 2 * j.len + 73728
           /\ j.state = "cancelling" => Owed(j) = j.len + 69632
           /\ j.state \in {"queued", "running", "cancelling"}
<1>1. j.len \in Nat /\ j.state \in {"queued", "running", "cancelling"} BY DEF JobRecords
<1>2. j.state = "queued" => Owed(j) = 3 * (j.len + 4096) + 65536 BY Sizes DEF Owed
<1>3. j.state = "running" => Owed(j) = 2 * (j.len + 4096) + 65536 BY Sizes DEF Owed
<1>4. j.state = "cancelling" => Owed(j) = 1 * (j.len + 4096) + 65536 BY Sizes DEF Owed
<1> QED BY <1>1, <1>2, <1>3, <1>4

Owing(js) == [i \in DOMAIN js |-> Owed(js[i])]

LEMMA OwingIs ==
    ASSUME NEW js \in Seq(JobRecords)
    PROVE  /\ Owing(js) \in Seq(Nat) /\ Len(Owing(js)) = Len(js) /\ DOMAIN js = 1..Len(js) /\ Len(js) \in Nat
           /\ \A i \in 1..Len(js) : Owing(js)[i] = Owed(js[i]) /\ js[i] \in JobRecords
           /\ TerminalReserve(js) = 8192 + Total(Owing(js))
           /\ Total(Owing(js)) \in Nat /\ TerminalReserve(js) \in Nat
<1>1. DOMAIN js = 1..Len(js) /\ Len(js) \in Nat /\ \A i \in 1..Len(js) : js[i] \in JobRecords OBVIOUS
<1>2. \A i \in 1..Len(js) : Owed(js[i]) \in Nat BY <1>1, OwedIs
<1>3. Owing(js) \in Seq(Nat) /\ Len(Owing(js)) = Len(js) BY <1>1, <1>2 DEF Owing
<1>4. \A i \in 1..Len(js) : Owing(js)[i] = Owed(js[i]) BY <1>1 DEF Owing
<1>5. TerminalReserve(js) = 8192 + Total(Owing(js)) BY DEF TerminalReserve, Owing
<1>6. Total(Owing(js)) \in Nat BY <1>3, SumTyped
<1> QED BY <1>1, <1>3, <1>4, <1>5, <1>6

LEMMA OwingAt ==
    ASSUME NEW js \in Seq(JobRecords), NEW i \in 1..Len(js)
    PROVE  Owing(js)[i] = Owed(js[i]) /\ js[i] \in JobRecords
BY OwingIs

LEMMA AppendOwes ==
    ASSUME NEW js \in Seq(JobRecords), NEW j \in JobRecords
    PROVE  TerminalReserve(Append(js, j)) = TerminalReserve(js) + Owed(j)
<1> DEFINE ks == Append(js, j)
<1>1. /\ ks \in Seq(JobRecords) /\ Len(ks) = Len(js) + 1 /\ ks[Len(js) + 1] = j /\ Len(js) \in Nat
      /\ \A i \in 1..Len(js) : ks[i] = js[i]
  OBVIOUS
<1> HIDE DEF ks
<1>2. \A i \in 1..Len(Owing(js)) : Owing(ks)[i] = Owing(js)[i]
  <2> SUFFICES ASSUME NEW i \in 1..Len(js) PROVE Owing(ks)[i] = Owing(js)[i]
    BY OwingIs
  <2>1. i \in 1..Len(ks) BY <1>1
  <2>2. Owing(ks)[i] = Owed(ks[i]) BY <1>1, <2>1, OwingAt
  <2>3. Owing(js)[i] = Owed(js[i]) BY OwingAt
  <2> QED BY <1>1, <2>2, <2>3
<1>3. Len(Owing(ks)) = Len(Owing(js)) + 1 /\ Len(Owing(ks)) = Len(js) + 1 BY <1>1, OwingIs
<1>4. Owing(ks)[Len(Owing(ks))] = Owed(j)
  <2>1. Len(js) + 1 \in 1..Len(ks) BY <1>1
  <2>2. Owing(ks)[Len(js) + 1] = Owed(ks[Len(js) + 1]) BY <1>1, <2>1, OwingAt
  <2> QED BY <1>1, <1>3, <2>2
<1>5. Owing(ks) \in Seq(Nat) /\ Owing(js) \in Seq(Nat) BY <1>1, OwingIs
<1>6. Total(Owing(ks)) = Total(Owing(js)) + Owed(j) BY <1>2, <1>3, <1>4, <1>5, TotalAppend
<1>7. Total(Owing(js)) \in Nat /\ Owed(j) \in Nat BY OwingIs, OwedIs
<1>8. TerminalReserve(ks) = 8192 + Total(Owing(ks)) /\ TerminalReserve(js) = 8192 + Total(Owing(js)) BY <1>1, OwingIs
<1> QED BY <1>6, <1>7, <1>8 DEF ks

LEMMA ChangeOwes ==
    ASSUME NEW js \in Seq(JobRecords), NEW j \in JobRecords, NEW i \in DOMAIN js
    PROVE  /\ [js EXCEPT ![i] = j] \in Seq(JobRecords)
           /\ TerminalReserve([js EXCEPT ![i] = j]) + Owed(js[i]) = TerminalReserve(js) + Owed(j)
<1> DEFINE ks == [js EXCEPT ![i] = j]
<1>1. /\ ks \in Seq(JobRecords) /\ Len(ks) = Len(js) /\ i \in 1..Len(js) /\ Len(js) \in Nat /\ ks[i] = j
      /\ \A k \in 1..Len(js) : k # i => ks[k] = js[k]
  OBVIOUS
<1> HIDE DEF ks
<1>2. Owing(ks) \in Seq(Nat) /\ Owing(js) \in Seq(Nat) /\ Len(Owing(ks)) = Len(Owing(js)) /\ i \in 1..Len(Owing(js))
  BY <1>1, OwingIs
<1>3. ASSUME NEW k \in 1..Len(Owing(js)), k # i PROVE Owing(ks)[k] = Owing(js)[k]
  <2>1. k \in 1..Len(js) /\ k \in 1..Len(ks) BY <1>1, OwingIs
  <2>2. Owing(ks)[k] = Owed(ks[k]) BY <1>1, <2>1, OwingAt
  <2>3. Owing(js)[k] = Owed(js[k]) BY <2>1, OwingAt
  <2> QED BY <1>1, <1>3, <2>1, <2>2, <2>3
<1>4. Owing(ks)[i] = Owed(j) /\ Owing(js)[i] = Owed(js[i])
  <2>1. i \in 1..Len(ks) BY <1>1
  <2>2. Owing(ks)[i] = Owed(ks[i]) BY <1>1, <2>1, OwingAt
  <2>3. Owing(js)[i] = Owed(js[i]) BY <1>1, OwingAt
  <2> QED BY <1>1, <2>2, <2>3
<1>5. Total(Owing(ks)) + Owing(js)[i] = Total(Owing(js)) + Owing(ks)[i] BY <1>2, <1>3, TotalChange
<1>6. Total(Owing(js)) \in Nat /\ Total(Owing(ks)) \in Nat /\ Owed(j) \in Nat /\ Owed(js[i]) \in Nat
  BY <1>1, OwingIs, OwedIs
<1>7. TerminalReserve(ks) = 8192 + Total(Owing(ks)) /\ TerminalReserve(js) = 8192 + Total(Owing(js)) BY <1>1, OwingIs
<1>8. TerminalReserve(ks) + Owed(js[i]) = TerminalReserve(js) + Owed(j) BY <1>4, <1>5, <1>6, <1>7
<1> QED BY <1>1, <1>8 DEF ks

LEMMA RemoveIs ==
    ASSUME NEW js \in Seq(JobRecords), NEW i \in DOMAIN js
    PROVE  /\ RemoveAt(js, i) \in Seq(JobRecords) /\ Len(RemoveAt(js, i)) = Len(js) - 1
           /\ \A k \in 1..Len(js) - 1 : RemoveAt(js, i)[k] = IF k < i THEN js[k] ELSE js[k + 1]
<1>1. i \in 1..Len(js) /\ Len(js) \in Nat /\ i \in Nat OBVIOUS
<1> DEFINE a == SubSeq(js, 1, i - 1)  b == SubSeq(js, i + 1, Len(js))
<1>2. /\ a \in Seq(JobRecords) /\ Len(a) = i - 1 /\ \A k \in 1..i - 1 : a[k] = js[k]
  BY <1>1
<1>3. /\ b \in Seq(JobRecords) /\ Len(b) = Len(js) - i /\ \A k \in 1..Len(js) - i : b[k] = js[i + k]
  BY <1>1
<1>4. RemoveAt(js, i) = a \o b BY DEF RemoveAt
<1> HIDE DEF a, b
<1>5. a \o b \in Seq(JobRecords) /\ Len(a \o b) = Len(js) - 1 BY <1>1, <1>2, <1>3
<1>6. ASSUME NEW k \in 1..Len(js) - 1 PROVE (a \o b)[k] = IF k < i THEN js[k] ELSE js[k + 1]
  <2>1. CASE k < i
    <3>1. k \in 1..i - 1 BY <1>1, <2>1
    <3>2. (a \o b)[k] = a[k] BY <1>2, <1>3, <3>1
    <3> QED BY <1>2, <2>1, <3>1, <3>2
  <2>2. CASE ~(k < i)
    <3>1. k - (i - 1) \in 1..Len(js) - i /\ i + (k - (i - 1)) = k + 1 BY <1>1, <2>2
    <3>2. k > Len(a) /\ k <= Len(a) + Len(b) /\ k - Len(a) = k - (i - 1) BY <1>1, <1>2, <1>3, <2>2
    <3>3. (a \o b)[k] = b[k - Len(a)]
      <4>1. k \in Nat /\ 1 <= k BY <1>1
      <4>2. k \in 1..Len(a) + Len(b) /\ ~(k <= Len(a)) BY <1>1, <1>2, <1>3, <3>2, <4>1
      <4>3. \A n \in 1..Len(a) + Len(b) : (a \o b)[n] = IF n <= Len(a) THEN a[n] ELSE b[n - Len(a)]
        BY <1>2, <1>3, ConcatProperties
      <4> QED BY <4>2, <4>3
    <3> QED BY <1>3, <2>2, <3>1, <3>2, <3>3
  <2> QED BY <2>1, <2>2
<1> QED BY <1>4, <1>5, <1>6

LEMMA RemoveOwes ==
    ASSUME NEW js \in Seq(JobRecords), NEW i \in DOMAIN js
    PROVE  TerminalReserve(RemoveAt(js, i)) + Owed(js[i]) = TerminalReserve(js)
<1> DEFINE ks == RemoveAt(js, i)
<1>1. /\ ks \in Seq(JobRecords) /\ Len(ks) = Len(js) - 1 /\ i \in 1..Len(js) /\ Len(js) \in Nat
      /\ \A k \in 1..Len(js) - 1 : ks[k] = IF k < i THEN js[k] ELSE js[k + 1]
  <2>1. /\ ks \in Seq(JobRecords) /\ Len(ks) = Len(js) - 1
        /\ \A k \in 1..Len(js) - 1 : ks[k] = IF k < i THEN js[k] ELSE js[k + 1]
    BY RemoveIs
  <2>2. i \in 1..Len(js) /\ Len(js) \in Nat OBVIOUS
  <2> HIDE DEF ks
  <2> QED BY <2>1, <2>2
<1> HIDE DEF ks
<1>2. /\ Owing(ks) \in Seq(Nat) /\ Owing(js) \in Seq(Nat) /\ Len(Owing(ks)) = Len(Owing(js)) - 1
      /\ Len(Owing(ks)) = Len(js) - 1 /\ i \in 1..Len(Owing(js))
  BY <1>1, OwingIs
<1>3. ASSUME NEW k \in 1..Len(Owing(ks)) PROVE Owing(ks)[k] = IF k < i THEN Owing(js)[k] ELSE Owing(js)[k + 1]
  <2>1. k \in 1..Len(ks) /\ k \in 1..Len(js) /\ k + 1 \in 1..Len(js) /\ k \in 1..Len(js) - 1 BY <1>1, <1>2
  <2>2. Owing(ks)[k] = Owed(ks[k]) /\ Owing(js)[k] = Owed(js[k]) /\ Owing(js)[k + 1] = Owed(js[k + 1])
    BY <1>1, <2>1, OwingAt
  <2>3. ks[k] = IF k < i THEN js[k] ELSE js[k + 1] BY <1>1, <2>1
  <2> QED BY <2>2, <2>3
<1>4. Owing(js)[i] = Owed(js[i]) BY <1>1, OwingAt
<1>5. Total(Owing(ks)) + Owing(js)[i] = Total(Owing(js)) BY <1>2, <1>3, TotalRemove
<1>6. Total(Owing(js)) \in Nat /\ Total(Owing(ks)) \in Nat /\ Owed(js[i]) \in Nat BY <1>1, OwingIs, OwedIs
<1>7. TerminalReserve(ks) = 8192 + Total(Owing(ks)) /\ TerminalReserve(js) = 8192 + Total(Owing(js)) BY <1>1, OwingIs
<1> QED BY <1>4, <1>5, <1>6, <1>7 DEF ks

-----------------------------------------------------------------------------
(* Steps: how many jobs wait. *)

Queued(js) == {i \in DOMAIN js : js[i].state = "queued"}

LEMMA QueuedIs ==
    ASSUME NEW js \in Seq(JobRecords)
    PROVE  IsFiniteSet(Queued(js)) /\ Pending(js) = Cardinality(Queued(js)) /\ Pending(js) \in Nat
<1>1. Len(js) \in Nat /\ DOMAIN js = 1..Len(js) OBVIOUS
<1>2. IsFiniteSet(1..Len(js)) BY <1>1, FS_Interval
<1>3. Queued(js) \in SUBSET (1..Len(js)) BY <1>1 DEF Queued
<1>4. IsFiniteSet(Queued(js)) BY <1>2, <1>3, FS_Subset
<1>5. Pending(js) = Cardinality(Queued(js)) BY DEF Pending, Queued
<1> QED BY <1>4, <1>5, FS_CardinalityType

LEMMA AppendWaits ==
    ASSUME NEW js \in Seq(JobRecords), NEW j \in JobRecords
    PROVE  Append(js, j) \in Seq(JobRecords) /\ Pending(Append(js, j)) <= Pending(js) + 1
<1> DEFINE ks == Append(js, j)
<1>1. /\ ks \in Seq(JobRecords) /\ Len(ks) = Len(js) + 1 /\ Len(js) \in Nat
      /\ DOMAIN ks = 1..Len(js) + 1 /\ DOMAIN js = 1..Len(js)
      /\ \A i \in 1..Len(js) : ks[i] = js[i]
  OBVIOUS
<1> HIDE DEF ks
<1>2. Queued(ks) \in SUBSET (Queued(js) \cup {Len(js) + 1})
  <2>1. ASSUME NEW i \in Queued(ks) PROVE i \in Queued(js) \cup {Len(js) + 1}
    <3>1. i \in 1..Len(js) + 1 /\ ks[i].state = "queued" BY <1>1 DEF Queued
    <3>2. CASE i \in 1..Len(js) BY <1>1, <3>1, <3>2 DEF Queued
    <3>3. CASE i = Len(js) + 1 BY <3>3
    <3> QED BY <1>1, <3>1, <3>2, <3>3
  <2> QED BY <2>1
<1>3. IsFiniteSet(Queued(js)) BY QueuedIs
<1>4. IsFiniteSet(Queued(js) \cup {Len(js) + 1})
      /\ Cardinality(Queued(js) \cup {Len(js) + 1}) \in {Cardinality(Queued(js)), Cardinality(Queued(js)) + 1}
  BY <1>3, FS_AddElement
<1>5. Cardinality(Queued(ks)) <= Cardinality(Queued(js) \cup {Len(js) + 1}) BY <1>2, <1>4, FS_Subset
<1>6. Pending(js) = Cardinality(Queued(js)) /\ Pending(js) \in Nat BY QueuedIs
<1>7. Pending(ks) = Cardinality(Queued(ks)) /\ Pending(ks) \in Nat BY <1>1, QueuedIs
<1>8. Pending(ks) <= Pending(js) + 1 BY <1>4, <1>5, <1>6, <1>7
<1> QED BY <1>1, <1>8 DEF ks

(* A job that goes on does not wait again. *)
LEMMA ChangeWaits ==
    ASSUME NEW js \in Seq(JobRecords), NEW j \in JobRecords, NEW i \in DOMAIN js,
           j.state = "queued" => js[i].state = "queued"
    PROVE  Pending([js EXCEPT ![i] = j]) <= Pending(js)
<1> DEFINE ks == [js EXCEPT ![i] = j]
<1>1. ks \in Seq(JobRecords) /\ DOMAIN ks = DOMAIN js /\ ks[i] = j /\ \A k \in DOMAIN js : k # i => ks[k] = js[k]
  OBVIOUS
<1> HIDE DEF ks
<1>2. Queued(ks) \in SUBSET Queued(js) BY <1>1 DEF Queued
<1>3. IsFiniteSet(Queued(js)) BY QueuedIs
<1>4. Cardinality(Queued(ks)) <= Cardinality(Queued(js)) BY <1>2, <1>3, FS_Subset
<1> QED BY <1>1, <1>4, QueuedIs DEF ks

LEMMA RemoveWaits ==
    ASSUME NEW js \in Seq(JobRecords), NEW i \in DOMAIN js
    PROVE  Pending(RemoveAt(js, i)) <= Pending(js)
<1> DEFINE ks == RemoveAt(js, i)
           f == [k \in Queued(ks) |-> IF k < i THEN k ELSE k + 1]
<1>1. /\ ks \in Seq(JobRecords) /\ Len(ks) = Len(js) - 1 /\ i \in 1..Len(js) /\ Len(js) \in Nat
      /\ \A k \in 1..Len(js) - 1 : ks[k] = IF k < i THEN js[k] ELSE js[k + 1]
  <2>1. /\ ks \in Seq(JobRecords) /\ Len(ks) = Len(js) - 1
        /\ \A k \in 1..Len(js) - 1 : ks[k] = IF k < i THEN js[k] ELSE js[k + 1]
    BY RemoveIs
  <2>2. i \in 1..Len(js) /\ Len(js) \in Nat OBVIOUS
  <2> HIDE DEF ks
  <2> QED BY <2>1, <2>2
<1> HIDE DEF ks
<1>2. DOMAIN ks = 1..Len(js) - 1 /\ DOMAIN js = 1..Len(js) BY <1>1
<1>3. ASSUME NEW k \in Queued(ks) PROVE k \in 1..Len(js) - 1 /\ f[k] \in Queued(js)
  <2>1. k \in 1..Len(js) - 1 /\ ks[k].state = "queued" BY <1>2 DEF Queued
  <2>2. f[k] \in 1..Len(js) BY <1>1, <2>1
  <2>3. js[f[k]] = ks[k] BY <1>1, <2>1
  <2> QED BY <1>2, <2>1, <2>2, <2>3 DEF Queued
<1>4. ASSUME NEW k \in Queued(ks), NEW m \in Queued(ks), f[k] = f[m] PROVE k = m
  <2>1. k \in Nat /\ m \in Nat /\ i \in Nat BY <1>1, <1>3
  <2> QED BY <1>4, <2>1
<1>5. f \in [Queued(ks) -> Queued(js)] BY <1>3
<1>6. f \in Injection(Queued(ks), Queued(js)) BY <1>4, <1>5 DEF Injection, IsInjective
<1>7. IsFiniteSet(Queued(js)) BY QueuedIs
<1>8. Cardinality(Queued(ks)) <= Cardinality(Queued(js)) BY <1>6, <1>7, FS_Injection
<1> QED BY <1>1, <1>8, QueuedIs DEF ks

-----------------------------------------------------------------------------
(* Steps: a change of state is never refused for size. *)

(* The changes that cancelJob, dispatch, complete and a restart make, and what they add at most. *)
Moves(i, state, grown) ==
    /\ i \in DOMAIN jobs /\ grown \in Nat
    /\ \/ state = "running" /\ jobs[i].state = "queued" /\ grown <= 60 /\ Active = {}
       \/ state = "cancelled" /\ jobs[i].state = "queued" /\ grown <= 300
       \/ state = "cancelling" /\ jobs[i].state = "running" /\ grown <= 20
       \/ Terminal(state) /\ jobs[i].state # "queued" /\ grown <= 33068

LEMMA AccountParts ==
    ASSUME AccountsInv
    PROVE  /\ size \in Nat /\ jobs \in Seq(JobRecords) /\ Len(jobs) \in Nat /\ DOMAIN jobs = 1..Len(jobs)
           /\ TerminalReserve(jobs) \in Nat /\ Pending(jobs) \in Nat /\ Pending(jobs) <= 64
           /\ size + TerminalReserve(jobs) <= 268435456 /\ size >= 64
<1>1. size \in Nat /\ jobs \in Seq(JobRecords) BY DEF AccountsInv
<1>2. Len(jobs) \in Nat /\ DOMAIN jobs = 1..Len(jobs) BY <1>1
<1>3. TerminalReserve(jobs) \in Nat /\ Pending(jobs) \in Nat BY <1>1, OwingIs, QueuedIs
<1> QED BY <1>1, <1>2, <1>3, Sizes DEF AccountsInv

LEMMA JobParts ==
    ASSUME AccountsInv, NEW i \in DOMAIN jobs
    PROVE  /\ jobs[i] \in JobRecords /\ jobs[i].len \in Nat /\ jobs[i].len >= 1
           /\ jobs[i].len <= 16703488 + Added(jobs[i].state)
           /\ jobs[i].state = "queued" => Added(jobs[i].state) = 0
           /\ jobs[i].state = "running" => Added(jobs[i].state) = 60
           /\ jobs[i].state = "cancelling" => Added(jobs[i].state) = 80
           /\ jobs[i].state \in {"queued", "running", "cancelling"}
<1>1. jobs[i] \in JobRecords BY AccountParts
<1> QED BY <1>1, Sizes DEF AccountsInv, JobRecords, Added

(* What is left of the jobs, and what the change sets free. *)
LEMMA MoveLeaves ==
    ASSUME AccountsInv, NEW i, NEW state, NEW grown, Moves(i, state, grown)
    PROVE  LET js == Replaced(i, state, grown)
               len == jobs[i].len + grown
           IN  /\ js \in Seq(JobRecords) /\ len \in Nat /\ len <= 16736636
               /\ Pending(js) \in Nat /\ Pending(js) <= 64
               /\ TerminalReserve(js) \in Nat
               /\ len + 3347 + TerminalReserve(js) <= TerminalReserve(jobs)
               /\ \A k \in DOMAIN js : js[k].len >= 1 /\ js[k].len <= Longest + Added(js[k].state)
               /\ \A k \in DOMAIN js : \A m \in DOMAIN js :
                      js[k].state # "queued" /\ js[m].state # "queued" => k = m
<1> DEFINE js == Replaced(i, state, grown)  len == jobs[i].len + grown
<1>1. /\ jobs \in Seq(JobRecords) /\ Len(jobs) \in Nat /\ DOMAIN jobs = 1..Len(jobs)
      /\ TerminalReserve(jobs) \in Nat /\ Pending(jobs) \in Nat /\ Pending(jobs) <= 64
  BY AccountParts
<1>2. i \in DOMAIN jobs /\ grown \in Nat /\ i \in 1..Len(jobs) BY <1>1 DEF Moves
<1>3. /\ jobs[i] \in JobRecords /\ jobs[i].len \in Nat /\ jobs[i].len >= 1
      /\ jobs[i].len <= 16703488 + Added(jobs[i].state)
      /\ jobs[i].state = "queued" => Added(jobs[i].state) = 0
      /\ jobs[i].state = "running" => Added(jobs[i].state) = 60
      /\ jobs[i].state = "cancelling" => Added(jobs[i].state) = 80
      /\ jobs[i].state \in {"queued", "running", "cancelling"}
  BY <1>2, JobParts
<1>4. /\ Owed(jobs[i]) \in Nat
      /\ jobs[i].state = "queued" => Owed(jobs[i]) = 3 * jobs[i].len + 77824
      /\ jobs[i].state = "running" => Owed(jobs[i]) = 2 * jobs[i].len + 73728
      /\ jobs[i].state = "cancelling" => Owed(jobs[i]) = jobs[i].len + 69632
  BY <1>3, OwedIs
<1>5. \A k \in DOMAIN jobs : \A m \in DOMAIN jobs : jobs[k].state # "queued" /\ jobs[m].state # "queued" => k = m
  BY DEF AccountsInv, Active
<1>6. \A k \in DOMAIN jobs : jobs[k].len >= 1 /\ jobs[k].len <= Longest + Added(jobs[k].state)
  BY DEF AccountsInv
<1>7. len \in Nat /\ grown <= 33068 /\ len <= 16736636 BY <1>2, <1>3 DEF Moves, Terminal
<1>8. CASE Terminal(state)
  <2>1. js = RemoveAt(jobs, i) BY <1>8 DEF Replaced
  <2> HIDE DEF js, len
  <2>2. /\ js \in Seq(JobRecords) /\ Len(js) = Len(jobs) - 1
        /\ \A k \in 1..Len(jobs) - 1 : js[k] = IF k < i THEN jobs[k] ELSE jobs[k + 1]
    <3>1. /\ RemoveAt(jobs, i) \in Seq(JobRecords) /\ Len(RemoveAt(jobs, i)) = Len(jobs) - 1
          /\ \A k \in 1..Len(jobs) - 1 : RemoveAt(jobs, i)[k] = IF k < i THEN jobs[k] ELSE jobs[k + 1]
      BY <1>1, <1>2, RemoveIs
    <3> QED BY <2>1, <3>1
  <2>3. Pending(js) <= Pending(jobs) BY <1>1, <1>2, <2>1, RemoveWaits
  <2>4. TerminalReserve(js) + Owed(jobs[i]) = TerminalReserve(jobs) BY <1>1, <1>2, <2>1, RemoveOwes
  <2>5. TerminalReserve(js) \in Nat /\ Pending(js) \in Nat BY <2>2, OwingIs, QueuedIs
  <2>6. Owed(jobs[i]) >= len + 3347
    <3>1. jobs[i].state = "queued" => grown <= 300 BY <1>8 DEF Moves, Terminal
    <3>2. grown <= 33068 BY <1>7
    <3>3. len = jobs[i].len + grown /\ grown \in Nat /\ jobs[i].len \in Nat BY <1>2, <1>3 DEF len
    <3>4. CASE jobs[i].state = "queued"
      <4>1. Owed(jobs[i]) = 3 * jobs[i].len + 77824 /\ grown <= 300 BY <1>4, <3>1, <3>4
      <4> QED BY <3>3, <4>1
    <3>5. CASE jobs[i].state = "running"
      <4>1. Owed(jobs[i]) = 2 * jobs[i].len + 73728 BY <1>4, <3>5
      <4> QED BY <3>2, <3>3, <4>1
    <3>6. CASE jobs[i].state = "cancelling"
      <4>1. Owed(jobs[i]) = jobs[i].len + 69632 BY <1>4, <3>6
      <4> QED BY <3>2, <3>3, <4>1
    <3> QED BY <1>3, <3>4, <3>5, <3>6
  <2>7. len + 3347 + TerminalReserve(js) <= TerminalReserve(jobs) BY <1>1, <1>4, <1>7, <2>4, <2>5, <2>6
  <2>8. DOMAIN js = 1..Len(jobs) - 1 BY <1>1, <2>2
  <2>9. ASSUME NEW k \in DOMAIN js PROVE js[k].len >= 1 /\ js[k].len <= Longest + Added(js[k].state)
    <3>1. k \in 1..Len(jobs) - 1 /\ k \in DOMAIN jobs /\ k + 1 \in DOMAIN jobs BY <1>1, <2>8
    <3>2. js[k] = jobs[k] \/ js[k] = jobs[k + 1] BY <2>2, <3>1
    <3> QED BY <1>6, <3>1, <3>2
  <2>10. ASSUME NEW k \in DOMAIN js, NEW m \in DOMAIN js, js[k].state # "queued", js[m].state # "queued" PROVE k = m
    <3>1. /\ k \in 1..Len(jobs) - 1 /\ k \in DOMAIN jobs /\ k + 1 \in DOMAIN jobs
          /\ m \in 1..Len(jobs) - 1 /\ m \in DOMAIN jobs /\ m + 1 \in DOMAIN jobs
      BY <1>1, <2>8
    <3>2. js[k] = IF k < i THEN jobs[k] ELSE jobs[k + 1] BY <2>2, <3>1
    <3>3. js[m] = IF m < i THEN jobs[m] ELSE jobs[m + 1] BY <2>2, <3>1
    <3> DEFINE x == IF k < i THEN k ELSE k + 1  y == IF m < i THEN m ELSE m + 1
    <3>4. x \in DOMAIN jobs /\ y \in DOMAIN jobs /\ jobs[x].state # "queued" /\ jobs[y].state # "queued"
      BY <2>10, <3>1, <3>2, <3>3
    <3>5. x = y
      <4> HIDE DEF x, y
      <4> QED BY <1>5, <3>4
    <3>6. k \in Nat /\ m \in Nat /\ i \in Nat BY <1>1, <1>2, <3>1
    <3> QED BY <3>5, <3>6
  <2> QED BY <1>1, <1>7, <2>2, <2>3, <2>5, <2>7, <2>9, <2>10 DEF js, len
<1>9. CASE ~Terminal(state)
  <2> DEFINE j == [state |-> state, len |-> len]
  <2>1. js = [jobs EXCEPT ![i] = j] BY <1>9 DEF Replaced
  <2> HIDE DEF js
  <2>2. \/ state = "running" /\ jobs[i].state = "queued" /\ grown <= 60 /\ Active = {}
        \/ state = "cancelling" /\ jobs[i].state = "running" /\ grown <= 20
    BY <1>9 DEF Moves, Terminal
  <2>3. j \in JobRecords /\ j.state = state /\ j.len = len BY <1>7, <2>2 DEF JobRecords
  <2>4. /\ Owed(j) \in Nat
        /\ state = "running" => Owed(j) = 2 * len + 73728
        /\ state = "cancelling" => Owed(j) = len + 69632
    BY <2>3, OwedIs
  <2>5. js \in Seq(JobRecords) /\ TerminalReserve(js) + Owed(jobs[i]) = TerminalReserve(jobs) + Owed(j)
    BY <1>1, <1>2, <2>1, <2>3, ChangeOwes
  <2>6. Pending(js) <= Pending(jobs) BY <1>1, <1>2, <2>1, <2>2, <2>3, ChangeWaits
  <2>7. TerminalReserve(js) \in Nat /\ Pending(js) \in Nat BY <2>5, OwingIs, QueuedIs
  <2>8. DOMAIN js = DOMAIN jobs /\ js[i] = j /\ \A k \in DOMAIN jobs : k # i => js[k] = jobs[k] BY <1>1, <1>2, <2>1
  <2> HIDE DEF len, j
  <2>9. Owed(jobs[i]) >= len + 3347 + Owed(j)
    <3>1. len = jobs[i].len + grown /\ grown \in Nat /\ jobs[i].len \in Nat BY <1>2, <1>3 DEF len
    <3>2. CASE state = "running"
      <4>1. Owed(jobs[i]) = 3 * jobs[i].len + 77824 /\ grown <= 60 BY <1>4, <2>2, <3>2
      <4>2. Owed(j) = 2 * len + 73728 BY <2>4, <3>2
      <4> QED BY <3>1, <4>1, <4>2
    <3>3. CASE state = "cancelling"
      <4>1. Owed(jobs[i]) = 2 * jobs[i].len + 73728 /\ grown <= 20 BY <1>4, <2>2, <3>3
      <4>2. Owed(j) = len + 69632 BY <2>4, <3>3
      <4> QED BY <3>1, <4>1, <4>2
    <3> QED BY <2>2, <3>2, <3>3
  <2>10. len + 3347 + TerminalReserve(js) <= TerminalReserve(jobs) BY <1>1, <1>4, <1>7, <2>4, <2>5, <2>7, <2>9
  <2>11. len >= 1 /\ len <= Longest + Added(state)
    <3>1. state = "running" => Added(state) = 60 BY DEF Added
    <3>2. state = "cancelling" => Added(state) = 80 BY DEF Added
    <3> QED BY <1>2, <1>3, <2>2, <3>1, <3>2, Sizes DEF len
  <2>12. ASSUME NEW k \in DOMAIN js PROVE js[k].len >= 1 /\ js[k].len <= Longest + Added(js[k].state)
    BY <1>6, <2>3, <2>8, <2>11
  <2>13. \A k \in DOMAIN jobs : js[k].state # "queued" => k = i \/ jobs[k].state # "queued" BY <2>8
  <2>14. ASSUME NEW k \in DOMAIN js, NEW m \in DOMAIN js, js[k].state # "queued", js[m].state # "queued" PROVE k = m
    <3>1. CASE Active = {}
      <4>1. \A n \in DOMAIN jobs : jobs[n].state = "queued" BY <3>1 DEF Active
      <4> QED BY <2>8, <2>13, <2>14, <4>1
    <3>2. CASE jobs[i].state = "running"
      <4>1. \A n \in DOMAIN jobs : jobs[n].state # "queued" => n = i BY <1>2, <1>5, <3>2
      <4> QED BY <2>8, <2>13, <2>14, <4>1
    <3> QED BY <2>2, <3>1, <3>2
  <2> QED BY <1>1, <1>7, <2>5, <2>6, <2>7, <2>10, <2>12, <2>14 DEF js, len
<1> QED BY <1>8, <1>9

LEMMA MoveKeeps ==
    ASSUME AccountsInv, NEW i, NEW state, NEW grown, Moves(i, state, grown), Move(i, state, grown)
    PROVE  AccountsInv'
<1> DEFINE js == Replaced(i, state, grown)
           len == jobs[i].len + grown
           payload == Payload(len, js)
<1>1. /\ js \in Seq(JobRecords) /\ len \in Nat /\ len <= 16736636
      /\ Pending(js) \in Nat /\ Pending(js) <= 64
      /\ TerminalReserve(js) \in Nat
      /\ len + 3347 + TerminalReserve(js) <= TerminalReserve(jobs)
      /\ \A k \in DOMAIN js : js[k].len >= 1 /\ js[k].len <= Longest + Added(js[k].state)
      /\ \A k \in DOMAIN js : \A m \in DOMAIN js :
             js[k].state # "queued" /\ js[m].state # "queued" => k = m
  BY MoveLeaves
<1>2. /\ size \in Nat /\ TerminalReserve(jobs) \in Nat /\ size + TerminalReserve(jobs) <= 268435456 /\ size >= 64
  BY AccountParts
<1>3. payload = 600 + len + 35 * (Pending(js) + 1) BY Sizes DEF Payload
<1>4. /\ Fits(payload, js, FALSE) =>
             size' = size + FrameBytes + payload /\ jobs' = js /\ UNCHANGED denied
      /\ ~Fits(payload, js, FALSE) => UNCHANGED <<size, jobs>> /\ denied' = denied \cup {state}
      /\ paused' = paused
  BY DEF Move, commit
<1> HIDE DEF js, len, payload
<1>5. payload \in Nat /\ payload <= 600 + len + 2275 BY <1>1, <1>3
<1>6. payload <= 16777216 BY <1>1, <1>5
<1>7. size + 72 + payload + TerminalReserve(js) <= 268435456 BY <1>1, <1>2, <1>5
<1>8. Fits(payload, js, FALSE) BY <1>6, <1>7, Sizes DEF Fits
<1>9. size' = size + 72 + payload /\ jobs' = js /\ denied' = denied BY <1>4, <1>8, Sizes
<1>10. size' \in Nat /\ size' >= 64 /\ size' + TerminalReserve(js) <= 268435456 BY <1>2, <1>5, <1>7, <1>9
<1>11. (TerminalReserve(jobs))' = TerminalReserve(js) /\ (Pending(jobs))' = Pending(js)
  BY <1>9 DEF TerminalReserve, Pending, Owed
<1>12. \A k \in Active' : \A m \in Active' : k = m BY <1>1, <1>9 DEF Active
<1>13. \A k \in DOMAIN jobs' : jobs'[k].len >= 1 /\ jobs'[k].len <= Longest + Added(jobs'[k].state) BY <1>1, <1>9
<1>14. jobs' \in Seq(JobRecords) BY <1>1, <1>9
<1> QED BY <1>1, <1>4, <1>9, <1>10, <1>11, <1>12, <1>13, <1>14, Sizes DEF AccountsInv

(* A transaction that is refused when it does not fit. *)
LEMMA CommitKeeps ==
    ASSUME AccountsInv, NEW payload \in Nat, NEW js \in Seq(JobRecords), NEW receipt,
           Fits(payload, js, receipt), commit(payload, js), denied' = denied, paused' \in BOOLEAN,
           Pending(js) <= 64,
           \A k \in DOMAIN js : js[k].len >= 1 /\ js[k].len <= Longest + Added(js[k].state),
           \A k \in DOMAIN js : \A m \in DOMAIN js : js[k].state # "queued" /\ js[m].state # "queued" => k = m
    PROVE  AccountsInv'
<1>1. size \in Nat /\ size >= 64 BY AccountParts
<1>2. size' = size + 72 + payload /\ jobs' = js BY Sizes DEF commit
<1>3. size + 72 + payload + TerminalReserve(js) <= 268435456 BY Sizes DEF Fits
<1>4. TerminalReserve(js) \in Nat BY OwingIs
<1>5. size' \in Nat /\ size' >= 64 /\ size' + TerminalReserve(js) <= 268435456 BY <1>1, <1>2, <1>3, <1>4
<1>6. (TerminalReserve(jobs))' = TerminalReserve(js) /\ (Pending(jobs))' = Pending(js)
  BY <1>2 DEF TerminalReserve, Pending, Owed
<1>7. \A k \in Active' : \A m \in Active' : k = m BY <1>2 DEF Active
<1>8. \A k \in DOMAIN jobs' : jobs'[k].len >= 1 /\ jobs'[k].len <= Longest + Added(jobs'[k].state) BY <1>2
<1>9. jobs' \in Seq(JobRecords) /\ denied' = {} BY <1>2 DEF AccountsInv
<1> QED BY <1>5, <1>6, <1>7, <1>8, <1>9, Sizes DEF AccountsInv

LEMMA GrowthIs ==
    /\ Growth["running"] = 60 /\ Growth["cancelling"] = 20
    /\ \A state \in {"cancelled", "interrupted", "failed"} : Growth[state] = 300
    /\ Growth["succeeded"] = 100
    /\ DOMAIN Growth = {"running", "cancelling", "cancelled", "interrupted", "succeeded", "failed"}
BY DEF Growth

LEMMA AccountsStart == AccountsInit => AccountsInv
<1> SUFFICES ASSUME AccountsInit PROVE AccountsInv
  OBVIOUS
<1>1. PICK r \in Recovered : size = Found(r) /\ jobs = Waiting(r.queued) /\ paused = (r.queued > 0)
  BY DEF AccountsInit
<1> DEFINE q == r.queued  job == [state |-> "queued", len |-> 700]
<1>2. r \in [used : Nat, queued : 0..MaxPending] /\ Found(r) + TerminalReserve(Waiting(q)) <= HardBytes
  BY ReserveAssumption
<1>3. r.used \in Nat /\ q \in Nat /\ q <= 64 BY <1>2, Sizes
<1>4. size = 64 + r.used + q * 4140 BY <1>1, Sizes DEF Found
<1>5. jobs = [i \in 1..q |-> job] BY <1>1, Sizes DEF Waiting
<1>6. paused \in BOOLEAN /\ denied = {} BY <1>1 DEF AccountsInit
<1>7. job \in JobRecords /\ job.state = "queued" /\ job.len = 700 BY DEF JobRecords
<1> HIDE DEF q, job
<1>8. jobs \in Seq(JobRecords) /\ DOMAIN jobs = 1..q /\ \A i \in 1..q : jobs[i] = job BY <1>3, <1>5, <1>7
<1>9. Pending(jobs) = q
  <2>1. Queued(jobs) = 1..q BY <1>7, <1>8 DEF Queued
  <2>2. Cardinality(1..q) = q BY <1>3, FS_Interval
  <2> QED BY <1>8, <2>1, <2>2, QueuedIs
<1>10. size + TerminalReserve(jobs) <= HardBytes BY <1>1, <1>2 DEF q
<1>11. size \in Nat /\ size >= 64 BY <1>3, <1>4
<1>12. \A i \in DOMAIN jobs : jobs[i].len >= 1 /\ jobs[i].len <= Longest + Added(jobs[i].state)
  BY <1>7, <1>8, Sizes DEF Added
<1>13. Active = {} BY <1>7, <1>8 DEF Active
<1> QED BY <1>3, <1>6, <1>8, <1>9, <1>10, <1>11, <1>12, <1>13, Sizes DEF AccountsInv

LEMMA CreateKeeps ==
    ASSUME AccountsInv, NEW len \in Int, create(len)
    PROVE  AccountsInv'
<1> DEFINE j == [state |-> "queued", len |-> len]
           js == Append(jobs, j)
           payload == Payload(len + ReceiptBytes, js)
<1>1. len >= 700 /\ len + 73728 <= 16777216 /\ Pending(jobs) < 64 BY Sizes DEF create, CheckJobFits
<1>2. Fits(payload, js, TRUE) /\ commit(payload, js) /\ denied' = denied /\ paused' = paused BY DEF create
<1>3. /\ jobs \in Seq(JobRecords) /\ Len(jobs) \in Nat /\ DOMAIN jobs = 1..Len(jobs) /\ Pending(jobs) \in Nat
  BY AccountParts
<1>4. j \in JobRecords /\ j.state = "queued" /\ j.len = len BY <1>1 DEF JobRecords
<1> HIDE DEF j
<1>5. js \in Seq(JobRecords) /\ Pending(js) <= Pending(jobs) + 1 BY <1>3, <1>4, AppendWaits
<1>6. Pending(js) \in Nat /\ Pending(js) <= 64
  <2> HIDE DEF js, payload
  <2>1. Pending(js) \in Nat BY <1>5, QueuedIs
  <2> QED BY <1>1, <1>3, <1>5, <2>1
<1>7. payload \in Nat
  <2>1. payload = 600 + (len + 1000) + 35 * (Pending(js) + 1) BY Sizes DEF Payload
  <2> HIDE DEF payload, js
  <2> QED BY <1>1, <1>6, <2>1
<1>8. DOMAIN js = 1..Len(jobs) + 1 /\ js[Len(jobs) + 1] = j /\ \A k \in 1..Len(jobs) : js[k] = jobs[k] BY <1>3, <1>4
<1> HIDE DEF js, payload
<1>9. ASSUME NEW k \in DOMAIN js PROVE js[k].len >= 1 /\ js[k].len <= Longest + Added(js[k].state)
  <2>1. CASE k \in 1..Len(jobs) BY <1>3, <1>8, <2>1 DEF AccountsInv
  <2>2. CASE k = Len(jobs) + 1
    <3>1. js[k] = j BY <1>8, <2>2
    <3>2. Longest + Added(j.state) = 16703488 BY <1>4, Sizes DEF Added
    <3> QED BY <1>1, <1>4, <3>1, <3>2
  <2> QED BY <1>3, <1>8, <2>1, <2>2
<1>10. ASSUME NEW k \in DOMAIN js, NEW m \in DOMAIN js, js[k].state # "queued", js[m].state # "queued" PROVE k = m
  <2>1. k \in 1..Len(jobs) /\ m \in 1..Len(jobs) BY <1>3, <1>4, <1>8, <1>10
  <2>2. k \in Active /\ m \in Active BY <1>3, <1>8, <1>10, <2>1 DEF Active
  <2> QED BY <2>2 DEF AccountsInv
<1>11. paused' \in BOOLEAN BY <1>2 DEF AccountsInv
<1> QED BY <1>2, <1>5, <1>6, <1>7, <1>9, <1>10, <1>11, CommitKeeps

LEMMA DispatchKeeps == ASSUME AccountsInv, dispatch PROVE AccountsInv'
<1>1. Active = {} /\ jobs # <<>> /\ Move(1, "running", Growth["running"]) BY DEF dispatch
<1>2. jobs \in Seq(JobRecords) /\ Len(jobs) \in Nat /\ DOMAIN jobs = 1..Len(jobs) BY AccountParts
<1>3. 1 \in DOMAIN jobs BY <1>1, <1>2
<1>4. jobs[1].state = "queued" BY <1>1, <1>3 DEF Active
<1>5. Moves(1, "running", Growth["running"]) BY <1>1, <1>3, <1>4, GrowthIs DEF Moves
<1> QED BY <1>1, <1>5, MoveKeeps

LEMMA EmitKeeps ==
    ASSUME AccountsInv, NEW i \in DOMAIN jobs, NEW len \in Nat, emit(i, len)
    PROVE  AccountsInv'
<1> DEFINE j == [state |-> jobs[i].state, len |-> jobs[i].len + len]
           js == [jobs EXCEPT ![i].len = @ + len]
           ks == [jobs EXCEPT ![i] = j]
           payload == 2 * EventBytes + len
<1>1. /\ jobs[i] \in JobRecords /\ jobs[i].len \in Nat /\ jobs[i].len >= 1
      /\ jobs[i].state \in {"queued", "running", "cancelling"}
  BY JobParts
<1>2. jobs \in Seq(JobRecords) /\ Len(jobs) \in Nat /\ DOMAIN jobs = 1..Len(jobs) /\ Pending(jobs) <= 64 /\ Pending(jobs) \in Nat
  BY AccountParts
<1>3. js = ks
  <2>1. [jobs[i] EXCEPT !.len = @ + len] = j BY <1>1 DEF JobRecords
  <2>2. js = [jobs EXCEPT ![i] = [jobs[i] EXCEPT !.len = @ + len]] BY <1>2
  <2> QED BY <2>1, <2>2
<1>4. /\ i \in Active /\ CheckJobFits(js[i].len) /\ Fits(payload, js, FALSE) /\ commit(payload, js)
      /\ denied' = denied /\ paused' = paused
  BY DEF emit
<1> HIDE DEF js
<1>5. j \in JobRecords /\ j.state = jobs[i].state /\ j.len = jobs[i].len + len /\ jobs[i].state # "queued"
  BY <1>1, <1>4 DEF JobRecords, Active
<1> HIDE DEF j
<1>6. ks \in Seq(JobRecords) BY <1>2, <1>5, ChangeOwes
<1>7. Pending(ks) <= Pending(jobs) BY <1>2, <1>5, ChangeWaits
<1>8. DOMAIN ks = DOMAIN jobs /\ ks[i] = j /\ \A k \in DOMAIN jobs : k # i => ks[k] = jobs[k] BY <1>2
<1> HIDE DEF ks
<1>9. j.len + 73728 <= 16777216
  <2>1. CheckJobFits(j.len)
    <3>1. js[i] = j BY <1>3, <1>8
    <3> QED BY <1>4, <3>1
  <2>2. j.len + MetadataReserve + 8192 <= MaxCommitBytes BY <2>1 DEF CheckJobFits
  <2>3. j.len \in Nat BY <1>1, <1>5
  <2> QED BY <2>2, <2>3, Sizes
<1>10. payload \in Nat
  <2>1. payload = 600 + len BY Sizes
  <2> QED BY <2>1
<1> HIDE DEF payload
<1>11. ASSUME NEW k \in DOMAIN ks PROVE ks[k].len >= 1 /\ ks[k].len <= Longest + Added(ks[k].state)
  <2>1. CASE k = i
    <3>1. ks[k] = j BY <1>8, <2>1
    <3>2. Added(j.state) \in Nat BY DEF Added
    <3>3. Longest = 16703488 BY Sizes
    <3>4. j.len \in Nat /\ j.len >= 1 BY <1>1, <1>5
    <3> QED BY <1>9, <3>1, <3>2, <3>3, <3>4
  <2>2. CASE k # i BY <1>8, <2>2 DEF AccountsInv
  <2> QED BY <2>1, <2>2
<1>12. ASSUME NEW k \in DOMAIN ks, NEW m \in DOMAIN ks, ks[k].state # "queued", ks[m].state # "queued" PROVE k = m
  <2>1. k \in Active /\ m \in Active BY <1>5, <1>8, <1>12 DEF Active
  <2> QED BY <2>1 DEF AccountsInv
<1>13. paused' \in BOOLEAN BY <1>4 DEF AccountsInv
<1>14. Pending(ks) <= 64 BY <1>2, <1>6, <1>7, QueuedIs
<1>15. Fits(payload, ks, FALSE) /\ commit(payload, ks) /\ denied' = denied BY <1>3, <1>4
<1> QED BY <1>6, <1>10, <1>11, <1>12, <1>13, <1>14, <1>15, CommitKeeps

LEMMA CancelKeeps == ASSUME AccountsInv, NEW i \in DOMAIN jobs, cancelJob(i) PROVE AccountsInv'
<1>1. CASE jobs[i].state = "queued" /\ Move(i, "cancelled", Growth["cancelled"])
  <2>1. Moves(i, "cancelled", Growth["cancelled"]) BY <1>1, GrowthIs DEF Moves
  <2> QED BY <1>1, <2>1, MoveKeeps
<1>2. CASE jobs[i].state = "running" /\ Move(i, "cancelling", Growth["cancelling"])
  <2>1. Moves(i, "cancelling", Growth["cancelling"]) BY <1>2, GrowthIs DEF Moves
  <2> QED BY <1>2, <2>1, MoveKeeps
<1> QED BY <1>1, <1>2 DEF cancelJob

LEMMA CompleteKeeps ==
    ASSUME AccountsInv, NEW i \in DOMAIN jobs, NEW metadata \in {0, MetadataReserve \div 2}, complete(i, metadata)
    PROVE  AccountsInv'
<1>1. PICK state \in {"cancelled", "interrupted", "succeeded", "failed"} : Move(i, state, metadata + Growth[state])
  BY DEF complete
<1>2. jobs[i].state # "queued" BY DEF complete, Active
<1>3. metadata \in Nat /\ metadata <= 32768 BY Sizes
<1>4. Growth[state] \in Nat /\ Growth[state] <= 300 BY GrowthIs
<1>5. metadata + Growth[state] \in Nat /\ metadata + Growth[state] <= 33068 BY <1>3, <1>4
<1>6. Moves(i, state, metadata + Growth[state]) BY <1>2, <1>5 DEF Moves, Terminal
<1> QED BY <1>1, <1>6, MoveKeeps

LEMMA InterruptKeeps == ASSUME AccountsInv, NEW i \in DOMAIN jobs, interrupt(i) PROVE AccountsInv'
<1>1. jobs[i].state # "queued" /\ Move(i, "interrupted", Growth["interrupted"]) BY DEF interrupt, Active
<1>2. Moves(i, "interrupted", Growth["interrupted"]) BY <1>1, GrowthIs DEF Moves, Terminal
<1> QED BY <1>1, <1>2, MoveKeeps

LEMMA PauseKeeps == ASSUME AccountsInv, setQueuePaused PROVE AccountsInv'
<1> DEFINE payload == 2 * EventBytes + IdBytes * (Pending(jobs) + 1)
<1>1. Fits(payload, jobs, FALSE) /\ commit(payload, jobs) /\ denied' = denied /\ paused' \in BOOLEAN
  BY DEF setQueuePaused
<1>2. jobs \in Seq(JobRecords) /\ Pending(jobs) \in Nat /\ Pending(jobs) <= 64 BY AccountParts
<1>3. payload \in Nat
  <2>1. payload = 600 + 35 * (Pending(jobs) + 1) BY Sizes
  <2> HIDE DEF payload
  <2> QED BY <1>2, <2>1
<1> HIDE DEF payload
<1>4. \A k \in DOMAIN jobs : jobs[k].len >= 1 /\ jobs[k].len <= Longest + Added(jobs[k].state) BY DEF AccountsInv
<1>5. \A k \in DOMAIN jobs : \A m \in DOMAIN jobs : jobs[k].state # "queued" /\ jobs[m].state # "queued" => k = m
  BY DEF AccountsInv, Active
<1> QED BY <1>1, <1>2, <1>3, <1>4, <1>5, CommitKeeps

(* The same accounts, unmoved. *)
LEMMA AccountsRest == AccountsInv /\ UNCHANGED accounts => AccountsInv'
<1> SUFFICES ASSUME AccountsInv, UNCHANGED accounts PROVE AccountsInv'
  OBVIOUS
<1>1. size' = size /\ jobs' = jobs /\ paused' = paused /\ denied' = denied BY DEF accounts
<1>2. (TerminalReserve(jobs))' = TerminalReserve(jobs) /\ (Pending(jobs))' = Pending(jobs)
  BY <1>1 DEF TerminalReserve, Pending, Owed
<1>3. Active' = Active BY <1>1 DEF Active
<1> QED BY <1>1, <1>2, <1>3 DEF AccountsInv

LEMMA AccountsStep == AccountsInv /\ [AccountsNext]_accounts => AccountsInv'
<1> SUFFICES ASSUME AccountsInv, [AccountsNext]_accounts PROVE AccountsInv'
  OBVIOUS
<1>1. size \in Nat /\ TerminalReserve(jobs) \in Nat /\ Pending(jobs) \in Nat BY AccountParts
<1>2. CASE \E len \in JobSizes \cup {Brim} : create(len)
  <2>1. Brim \in Int BY <1>1, Sizes DEF Brim
  <2>2. \A len \in JobSizes \cup {Brim} : len \in Int BY <2>1, ReserveAssumption
  <2> QED BY <1>2, <2>2, CreateKeeps
<1>3. CASE dispatch BY <1>3, DispatchKeeps
<1>4. ASSUME NEW i \in Distinct, NEW len \in {1, 6 * MaxChunkBytes, BrimOutput}, 0 < len, emit(i, len)
      PROVE  AccountsInv'
  <2>1. BrimOutput \in Int BY <1>1, Sizes DEF BrimOutput
  <2>2. MaxChunkBytes = 16384 BY DEF MaxChunkBytes, KiB
  <2>3. len \in Int BY <2>1, <2>2
  <2>4. len \in Nat BY <1>4, <2>3
  <2> QED BY <1>4, <2>4, EmitKeeps DEF Distinct
<1>5. ASSUME NEW i \in Distinct, cancelJob(i) PROVE AccountsInv' BY <1>5, CancelKeeps DEF Distinct
<1>6. ASSUME NEW i \in Distinct, NEW metadata \in {0, MetadataReserve \div 2}, complete(i, metadata)
      PROVE  AccountsInv'
  BY <1>6, CompleteKeeps DEF Distinct
<1>7. ASSUME NEW i \in Distinct, interrupt(i) PROVE AccountsInv' BY <1>7, InterruptKeeps DEF Distinct
<1>8. CASE setQueuePaused BY <1>8, PauseKeeps
<1>9. CASE UNCHANGED accounts BY <1>9, AccountsRest
<1> QED BY <1>2, <1>3, <1>4, <1>5, <1>6, <1>7, <1>8, <1>9 DEF AccountsNext

LEMMA AccountsFit == AccountsInv => LifecycleFits
<1> SUFFICES ASSUME AccountsInv PROVE LifecycleFits
  OBVIOUS
<1>1. /\ size \in Nat /\ jobs \in Seq(JobRecords) /\ Len(jobs) \in Nat /\ DOMAIN jobs = 1..Len(jobs)
      /\ TerminalReserve(jobs) \in Nat /\ size + TerminalReserve(jobs) <= 268435456 /\ size >= 64
  BY AccountParts
<1>2. size \in HeaderBytes..HardBytes
  <2>1. size <= 268435456 BY <1>1
  <2>2. size <= HardBytes /\ HeaderBytes <= size BY <1>1, <2>1, Sizes
  <2>3. HardBytes \in Nat /\ HeaderBytes \in Nat BY Sizes
  <2> QED BY <1>1, <2>2, <2>3
<1>3. jobs \in Seq([state : {"queued", "running", "cancelling"}, len : 1..MaxCommitBytes])
  <2>1. ASSUME NEW i \in DOMAIN jobs PROVE jobs[i] \in [state : {"queued", "running", "cancelling"}, len : 1..MaxCommitBytes]
    <3>1. /\ jobs[i] \in JobRecords /\ jobs[i].len \in Nat /\ jobs[i].len >= 1
          /\ jobs[i].len <= 16703488 + Added(jobs[i].state)
          /\ jobs[i].state \in {"queued", "running", "cancelling"}
      BY JobParts
    <3>2. Added(jobs[i].state) \in Nat /\ Added(jobs[i].state) <= 80 BY DEF Added
    <3>3. jobs[i].len <= 16777216 BY <3>1, <3>2
    <3>4. jobs[i].len <= MaxCommitBytes /\ MaxCommitBytes \in Nat
      <4>1. MaxCommitBytes = 16777216 BY Sizes
      <4> QED BY <3>3, <4>1
    <3>5. jobs[i].len \in 1..MaxCommitBytes BY <3>1, <3>4
    <3> QED BY <3>1, <3>5 DEF JobRecords
  <2> DEFINE S == [state : {"queued", "running", "cancelling"}, len : 1..MaxCommitBytes]
  <2>2. \A i \in DOMAIN jobs : jobs[i] \in S BY <2>1
  <2>3. jobs \in Seq(JobRecords) BY <1>1
  <2> HIDE DEF S
  <2>4. jobs \in Seq(S) BY <2>2, <2>3
  <2> QED BY <2>4 DEF S
<1>4. Cardinality(Active) <= 1
  <2>1. CASE Active = {}
    <3>1. Cardinality(Active) = 0 BY <2>1, FS_EmptySet
    <3> QED BY <3>1
  <2>2. CASE Active # {}
    <3>1. PICK i \in Active : TRUE BY <2>2
    <3>2. Active = {i} BY <3>1 DEF AccountsInv
    <3>3. Cardinality(Active) = 1 BY <3>2, FS_Singleton
    <3> QED BY <3>3
  <2> QED BY <2>1, <2>2
<1> QED BY <1>2, <1>3, <1>4 DEF AccountsInv, LifecycleFits, AccountsTypeOK

(* However large the jobs, their output and what is stored before them: no transaction that starts,
   cancels or ends an accepted job is refused for size, and the journal keeps its hard limit. *)
THEOREM LifecycleTheorem == AccountsSpec => []LifecycleFits
<1>1. AccountsInit => AccountsInv BY AccountsStart
<1>2. AccountsInv /\ [AccountsNext]_accounts => AccountsInv' BY AccountsStep
<1>3. AccountsInv => LifecycleFits BY AccountsFit
<1> QED BY <1>1, <1>2, <1>3, PTL DEF AccountsSpec
==============================================================================
