------------------------------- MODULE Journal -------------------------------
(***************************************************************************)
(* The journal file and its directory lock (internal/adapters/journal):    *)
(* processes that open, append to and close one data directory, and die    *)
(* at any point; power failures; writes and syncs that fail.               *)
(*                                                                         *)
(* The file is a sequence of bytes, each named by the frame it was written *)
(* for and its place in it, so that a checksum matches exactly when all    *)
(* the bytes it covers belong together.  Frame 0 is the file header.       *)
(* file is what a process reads, stable what the device has confirmed.     *)
(* Sizes are counted in units of a few bytes; the budget checks of Append  *)
(* are in module Reserve, the reducer in module Reducer: what is left of   *)
(* ApplyCommit is that a frame continues the sequence.                     *)
(***************************************************************************)
EXTENDS Integers, Sequences, SequencesExt

CONSTANTS
    Procs, NoProc,  \* processes that are started on the directory
    HeaderSize,     \* of the file header (64 in the code)
    PrefixSize,     \* of a frame's version, length and their checksum (40)
    FrameSize,      \* of the whole frame header (72)
    MaxPayload,     \* longest payload
    MaxAppends,     \* bound: appends begun in a behaviour
    MaxLosses,      \* bound: power failures
    MaxErrors,      \* bound: input/output errors
    Devices,        \* kinds of devices: "ordered" ones keep the order of writes, "free" ones do not
    EntryLoss       \* whether an unsynced directory entry can be lost

ASSUME JournalAssumption ==
    /\ {HeaderSize, PrefixSize, FrameSize, MaxPayload} \subseteq Nat \ {0}
    /\ PrefixSize < FrameSize
    /\ NoProc \notin Procs

VARIABLES
    names,      \* the directory and journal.bin: "absent", "volatile" or "durable"
    file, stable,
    owner,      \* who has owner.lock
    pc,         \* where each process is in Open or Append
    buf,        \* what writeFull has still to write
    off,        \* pos while Open reads, then the handle's file offset
    mem,        \* j.records: the index entries of the frames the handle knows
    poisoned,   \* j.poisoned
    frames,     \* sequence number and payload length of every frame ever begun
    acked,      \* the entries a successful Append has confirmed
    losses, errors,
    device      \* the kind of the device

handle == <<pc, buf, off, mem, poisoned>>
vars == <<names, file, stable, owner, handle, frames, acked, losses, errors, device>>

Byte(of, at) == [of |-> of, at |-> at]
Hole == Byte(0, 0)
Bytes(f) == [i \in 1..FrameSize + frames[f].len |-> Byte(f, i)]
Header == [i \in 1..HeaderSize |-> Byte(0, i)]

Init ==
    /\ names = [dir |-> "absent", journal |-> "absent"]
    /\ file = <<>> /\ stable = <<>> /\ owner = NoProc
    /\ pc = [p \in Procs |-> "closed"] /\ buf = [p \in Procs |-> <<>>]
    /\ off = [p \in Procs |-> 0] /\ mem = [p \in Procs |-> <<>>]
    /\ poisoned = [p \in Procs |-> FALSE]
    /\ frames = <<>> /\ acked = <<>> /\ losses = 0 /\ errors = 0
    /\ device \in Devices

-----------------------------------------------------------------------------
(* Reading the file.  An entry of j.records says where a frame is. *)

Entry(f, at) == [frame |-> f, offset |-> at, len |-> frames[f].len]
EndOf(r, i) == IF i = 0 THEN HeaderSize ELSE r[i].offset + FrameSize + r[i].len
End(r) == EndOf(r, Len(r))

HeaderOK(b) == Len(b) >= HeaderSize /\ \A i \in 1..HeaderSize : b[i] = Byte(0, i)

(* At the place the loop of Open has reached: an incomplete frame (or nothing) at the end of the
   file, or a frame that is whole.  Anything else is damage. *)
Left(b, at) == Len(b) - at
FrameAt(b, at) == b[at + 1].of
SizeAt(b, at) == FrameSize + frames[FrameAt(b, at)].len
PrefixOK(b, at) == FrameAt(b, at) # 0 /\ \A i \in 1..PrefixSize : b[at + i] = Byte(FrameAt(b, at), i)
Torn(b, at) == Left(b, at) >= FrameSize => PrefixOK(b, at) /\ SizeAt(b, at) > Left(b, at)
Complete(b, at) ==
    /\ Left(b, at) >= FrameSize /\ PrefixOK(b, at) /\ SizeAt(b, at) <= Left(b, at)
    /\ \A i \in 1..SizeAt(b, at) : b[at + i] = Byte(FrameAt(b, at), i)

(* ApplyCommit: a transaction continues the sequence of those before it. *)
Follows(f, r) == frames[f].seq = Len(r) + 1

(* The whole frames of a file from each place on, and from its header on. *)
FramesFrom(b) ==
    LET from[at \in HeaderSize..Len(b)] ==
            IF Complete(b, at) THEN <<FrameAt(b, at)>> \o from[at + SizeAt(b, at)] ELSE <<>>
    IN  from
Whole(b) == IF HeaderOK(b) THEN FramesFrom(b)[HeaderSize] ELSE <<>>

-----------------------------------------------------------------------------
(* Open. *)

Go(p, place) == pc' = [pc EXCEPT ![p] = place]

(* fail, Close or the end of the process: the lock goes with the handle. *)
Leave(p) ==
    /\ Go(p, "closed")
    /\ buf' = [buf EXCEPT ![p] = <<>>] /\ off' = [off EXCEPT ![p] = 0]
    /\ mem' = [mem EXCEPT ![p] = <<>>] /\ poisoned' = [poisoned EXCEPT ![p] = FALSE]
    /\ owner' = IF owner = p THEN NoProc ELSE owner

MkdirAll(p) ==
    /\ pc[p] = "closed"
    /\ \/ names.dir = "absent" /\ names' = [names EXCEPT !.dir = "volatile"] /\ Go(p, "mkdir")
       \/ names.dir # "absent" /\ Go(p, "lock") /\ UNCHANGED names
    /\ UNCHANGED <<file, stable, owner, buf, off, mem, poisoned, frames, acked, losses, errors>>

syncParent(p) ==
    /\ pc[p] = "mkdir"
    /\ names' = [names EXCEPT !.dir = "durable"]
    /\ Go(p, "lock")
    /\ UNCHANGED <<file, stable, owner, buf, off, mem, poisoned, frames, acked, losses, errors>>

(* Mutant: the lock file is opened and not locked. *)
lockNothing(p) ==
    /\ pc[p] = "lock"
    /\ owner' = p /\ Go(p, "create")
    /\ UNCHANGED <<names, file, stable, buf, off, mem, poisoned, frames, acked, losses, errors>>

lockDirectory(p) ==
    /\ pc[p] = "lock"
    /\ \/ owner = NoProc /\ owner' = p /\ Go(p, "create")
       \/ owner # NoProc /\ Go(p, "closed") /\ UNCHANGED owner
    /\ UNCHANGED <<names, file, stable, buf, off, mem, poisoned, frames, acked, losses, errors>>

openFile(p) ==
    /\ pc[p] = "create"
    /\ \/ /\ names.journal = "absent"
          /\ names' = [names EXCEPT !.journal = "volatile"]
          /\ buf' = [buf EXCEPT ![p] = Header]
          /\ Go(p, "header")
       \/ /\ names.journal # "absent"
          /\ Go(p, "check")
          /\ UNCHANGED <<names, buf>>
    /\ UNCHANGED <<file, stable, owner, off, mem, poisoned, frames, acked, losses, errors>>

(* One more piece of what writeFull was given reaches the file, at the handle's offset. *)
writeFull(p) ==
    /\ pc[p] \in {"header", "write"} /\ buf[p] # <<>>
    /\ off' = [off EXCEPT ![p] = @ + 1]
    /\ file' = [i \in 1..(IF off[p] < Len(file) THEN Len(file) ELSE off[p] + 1) |->
                    IF i = off[p] + 1 THEN Head(buf[p]) ELSE IF i > Len(file) THEN Hole ELSE file[i]]
    /\ buf' = [buf EXCEPT ![p] = Tail(@)]
    /\ UNCHANGED <<names, stable, owner, pc, mem, poisoned, frames, acked, losses, errors>>

headerSync(p) ==
    /\ pc[p] = "header" /\ buf[p] = <<>>
    /\ stable' = file
    /\ Go(p, "entry")
    /\ UNCHANGED <<names, file, owner, buf, off, mem, poisoned, frames, acked, losses, errors>>

syncDirectory(p) ==
    /\ pc[p] = "entry"
    /\ names' = [names EXCEPT !.journal = "durable"]
    /\ Go(p, "check")
    /\ UNCHANGED <<file, stable, owner, buf, off, mem, poisoned, frames, acked, losses, errors>>

readHeader(p) ==
    /\ pc[p] = "check" /\ HeaderOK(file)
    /\ off' = [off EXCEPT ![p] = HeaderSize]
    /\ Go(p, "scan")
    /\ UNCHANGED <<names, file, stable, owner, buf, mem, poisoned, frames, acked, losses, errors>>

readFrame(p) ==
    /\ pc[p] = "scan" /\ Complete(file, off[p]) /\ Follows(FrameAt(file, off[p]), mem[p])
    /\ mem' = [mem EXCEPT ![p] = Append(@, Entry(FrameAt(file, off[p]), off[p]))]
    /\ off' = [off EXCEPT ![p] = @ + SizeAt(file, off[p])]
    /\ UNCHANGED <<names, file, stable, owner, pc, buf, poisoned, frames, acked, losses, errors>>

(* Mutant: an incomplete tail is left where it is. *)
endInPlace(p) ==
    /\ pc[p] = "scan" /\ Torn(file, off[p])
    /\ Go(p, "open")
    /\ UNCHANGED <<names, file, stable, owner, buf, off, mem, poisoned, frames, acked, losses, errors>>

endScan(p) ==
    /\ pc[p] = "scan" /\ Torn(file, off[p])
    /\ Go(p, IF off[p] = Len(file) THEN "open" ELSE "truncate")
    /\ UNCHANGED <<names, file, stable, owner, buf, off, mem, poisoned, frames, acked, losses, errors>>

(* What Open takes for damage: neither an incomplete end nor the next transaction. *)
Damaged(p) ==
    /\ ~Torn(file, off[p])
    /\ ~(Complete(file, off[p]) /\ Follows(FrameAt(file, off[p]), mem[p]))

(* A short or damaged header, or a damaged frame: Open fails and leaves the file alone. *)
refuse(p) ==
    /\ \/ pc[p] = "check" /\ ~HeaderOK(file)
       \/ pc[p] = "scan" /\ Damaged(p)
    /\ Leave(p)
    /\ UNCHANGED <<names, file, stable, frames, acked, losses, errors>>

(* Mutant: the tail is cut one byte short, in the last whole frame. *)
truncateShort(p) ==
    /\ pc[p] = "truncate"
    /\ file' = SubSeq(file, 1, off[p] - 1)
    /\ Go(p, "tail")
    /\ UNCHANGED <<names, stable, owner, buf, off, mem, poisoned, frames, acked, losses, errors>>

truncate(p) ==
    /\ pc[p] = "truncate"
    /\ file' = SubSeq(file, 1, off[p])
    /\ Go(p, "tail")
    /\ UNCHANGED <<names, stable, owner, buf, off, mem, poisoned, frames, acked, losses, errors>>

tailSync(p) ==
    /\ pc[p] = "tail"
    /\ stable' = file
    /\ Go(p, "open")
    /\ UNCHANGED <<names, file, owner, buf, off, mem, poisoned, frames, acked, losses, errors>>

(* A system call of Open fails. *)
openFails(p) ==
    /\ errors < MaxErrors /\ errors' = errors + 1
    /\ pc[p] \in {"mkdir", "lock", "create", "header", "entry", "check", "scan", "truncate", "tail"}
    /\ Leave(p)
    /\ UNCHANGED <<names, file, stable, frames, acked, losses>>

-----------------------------------------------------------------------------
(* Append and Close. *)

(* Mutant: a poisoned handle goes on writing. *)
beginUnchecked(p, n) ==
    /\ pc[p] = "open" /\ Len(frames) < MaxAppends
    /\ frames' = Append(frames, [seq |-> Len(mem[p]) + 1, len |-> n])
    /\ buf' = [buf EXCEPT ![p] = [i \in 1..FrameSize + n |-> Byte(Len(frames) + 1, i)]]
    /\ Go(p, "write")
    /\ UNCHANGED <<names, file, stable, owner, off, mem, poisoned, acked, losses, errors>>

beginAppend(p, n) ==
    /\ pc[p] = "open" /\ ~poisoned[p] /\ Len(frames) < MaxAppends
    /\ frames' = Append(frames, [seq |-> Len(mem[p]) + 1, len |-> n])
    /\ buf' = [buf EXCEPT ![p] = [i \in 1..FrameSize + n |-> Byte(Len(frames) + 1, i)]]
    /\ Go(p, "write")
    /\ UNCHANGED <<names, file, stable, owner, off, mem, poisoned, acked, losses, errors>>

(* index{j.size, len(b), ...}: where writeFull put the frame that ends at the offset. *)
LastEntry(p) ==
    LET f == file[off[p]].of IN Entry(f, off[p] - FrameSize - frames[f].len)

(* Mutant: the append is acknowledged without File.Sync. *)
ackUnsynced(p) ==
    /\ pc[p] = "write" /\ buf[p] = <<>>
    /\ mem' = [mem EXCEPT ![p] = Append(@, LastEntry(p))]
    /\ acked' = mem'[p]
    /\ Go(p, "open")
    /\ UNCHANGED <<names, file, stable, owner, buf, off, poisoned, frames, losses, errors>>

(* File.Sync returned: the handle knows the frame and the caller is told. *)
sync(p) ==
    /\ pc[p] = "write" /\ buf[p] = <<>>
    /\ stable' = file
    /\ mem' = [mem EXCEPT ![p] = Append(@, LastEntry(p))]
    /\ acked' = mem'[p]
    /\ Go(p, "open")
    /\ UNCHANGED <<names, file, owner, buf, off, poisoned, frames, losses, errors>>

appendFails(p) ==
    /\ errors < MaxErrors /\ errors' = errors + 1
    /\ pc[p] = "write"
    /\ poisoned' = [poisoned EXCEPT ![p] = TRUE]
    /\ buf' = [buf EXCEPT ![p] = <<>>]
    /\ Go(p, "open")
    /\ UNCHANGED <<names, file, stable, owner, off, mem, frames, acked, losses>>

Close(p) ==
    /\ pc[p] = "open"
    /\ Leave(p)
    /\ UNCHANGED <<names, file, stable, frames, acked, losses, errors>>

-----------------------------------------------------------------------------
(* The world. *)

Crash(p) ==
    /\ pc[p] # "closed"
    /\ Leave(p)
    /\ UNCHANGED <<names, file, stable, frames, acked, losses, errors>>

(* The bytes up to the first that file and stable do not share. *)
Settled == {i \in DOMAIN file : i <= Len(stable) /\ \A k \in 1..i : file[k] = stable[k]}

(* What the device may hold: in write order a prefix of the file, or what it had; in any order
   each byte the new one, none, or the old one. *)
Lengths(b) == {n \in 0..Len(b) : Settled \subseteq 1..n}
Mixture(n, new, gone) ==
    [i \in 1..n |-> IF i \in Settled \cup new THEN file[i]
                    ELSE IF i \in gone \/ i > Len(stable) THEN Hole ELSE stable[i]]
Mixed(n) == {Mixture(n, new, gone) : new \in SUBSET ((1..n \cap DOMAIN file) \ Settled),
                                     gone \in SUBSET ((1..n \cap DOMAIN stable) \ Settled)}
Survivors ==
    {SubSeq(file, 1, n) : n \in Lengths(file)} \cup {stable} \cup
    IF device = "ordered" THEN {} ELSE UNION {Mixed(n) : n \in Lengths(file) \cup Lengths(stable)}

PowerFails ==
    /\ losses < MaxLosses /\ losses' = losses + 1
    /\ \/ file' \in Survivors /\ UNCHANGED names
       \/ /\ EntryLoss /\ "volatile" \in {names.dir, names.journal}
          /\ names' = [dir |-> IF names.dir = "volatile" THEN "absent" ELSE names.dir,
                       journal |-> "absent"]
          /\ file' = <<>>
    /\ stable' = file'
    /\ owner' = NoProc
    /\ pc' = [p \in Procs |-> "closed"] /\ buf' = [p \in Procs |-> <<>>]
    /\ off' = [p \in Procs |-> 0] /\ mem' = [p \in Procs |-> <<>>]
    /\ poisoned' = [p \in Procs |-> FALSE]
    /\ UNCHANGED <<frames, acked, errors>>

Next ==
    /\ UNCHANGED device
    /\ \/ \E p \in Procs :
           \/ MkdirAll(p) \/ syncParent(p) \/ lockDirectory(p) \/ openFile(p) \/ writeFull(p)
           \/ headerSync(p) \/ syncDirectory(p) \/ readHeader(p) \/ readFrame(p)
           \/ endScan(p) \/ refuse(p) \/ truncate(p) \/ tailSync(p) \/ openFails(p)
           \/ \E n \in 1..MaxPayload : beginAppend(p, n)
           \/ sync(p) \/ appendFails(p) \/ Close(p) \/ Crash(p)
       \/ PowerFails

Spec == Init /\ [][Next]_vars

-----------------------------------------------------------------------------
(* Properties. *)

Octets == [of : 0..Len(frames), at : Nat]
Entries == [frame : DOMAIN frames, offset : Nat, len : 1..MaxPayload]

TypeOK ==
    /\ names \in [{"dir", "journal"} -> {"absent", "volatile", "durable"}]
    /\ frames \in Seq([seq : Nat, len : 1..MaxPayload])
    /\ file \in Seq(Octets) /\ stable \in Seq(Octets)
    /\ owner \in Procs \cup {NoProc}
    /\ acked \in Seq(Entries)
    /\ pc \in [Procs -> {"closed", "mkdir", "lock", "create", "header", "entry", "check", "scan",
                         "truncate", "tail", "open", "write"}]
    /\ buf \in [Procs -> Seq(Octets)]
    /\ off \in [Procs -> Nat]
    /\ mem \in [Procs -> Seq(Entries)]
    /\ poisoned \in [Procs -> BOOLEAN]
    /\ \A p \in Procs : off[p] <= Len(file)

Ready(p) == pc[p] \in {"open", "write"}

(* The frames of r are whole in b, in order, right behind the header. *)
Indexed(r) ==
    \A i \in DOMAIN r : /\ frames[r[i].frame] = [seq |-> i, len |-> r[i].len]
                        /\ r[i].offset = EndOf(r, i - 1)
Stored(e, b) ==
    /\ e.offset + FrameSize + e.len <= Len(b)
    /\ \A k \in 1..FrameSize + e.len : b[e.offset + k] = Byte(e.frame, k)
Holds(b, r) == HeaderOK(b) /\ \A i \in DOMAIN r : Stored(r[i], b)

(* Every frame an Append confirmed is whole in the file, in order, right behind the header,
   whatever processes, crashes, failed writes and power failures came after; and a process that
   opened the journal knows it. *)
AckedRecovered ==
    /\ acked # <<>> => Indexed(acked) /\ Holds(file, acked)
    /\ \A p \in Procs : Ready(p) => IsPrefix(acked, mem[p])

(* On a device that keeps the order of writes, a journal with a whole header opens again:
   every half-written state that crashes, failed writes and failed syncs leave is one that Open
   tells from damage; and the file holds nothing but bytes of frames at all times. *)
Reopens == TypeOK /\ \A p \in Procs : device = "ordered" /\ pc[p] = "scan" => ~Damaged(p)

(* A process never takes a whole frame out of the journal, confirmed or not: only a power failure
   may, for a later process may have shown it to clients. *)
WholeFramesStay == [][losses' = losses => IsPrefix(Whole(file), Whole(file)')]_vars

(* The file with its half-written states implements the atomic list the worker relies on. *)
Promise == INSTANCE AppendLog WITH log <- Whole(file), firm <- Len(acked),
                                   ordered <- (device = "ordered")
ImplementsAppendLog == Promise!Spec
==============================================================================
