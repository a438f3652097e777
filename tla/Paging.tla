------------------------------- MODULE Paging -------------------------------
(***************************************************************************)
(* A job's output from the backend to an agent that pages through it:      *)
(* Worker.emit splits what the backend hands over into chunks and commits  *)
(* them one by one, read_job_output cuts pages out of the text there is.   *)
(* Both cut by bytes and must not cut a character; the text grows between  *)
(* two pages and the job may end.                                          *)
(*                                                                         *)
(* A byte is <<n, k, w>>: the kth of the w bytes of the nth character.     *)
(***************************************************************************)
EXTENDS Integers, Sequences, SequencesExt

CONSTANTS
    Widths,          \* bytes of a character, within 1..4
    PageSizes,       \* the max_bytes an agent asks for
    MaxChunkBytes, MaxOutputBytes,
    MaxRunes         \* bound: characters of one emit

ASSUME PagingAssumption ==
    /\ Widths \subseteq Nat \ {0} /\ PageSizes \subseteq Nat
    /\ {MaxChunkBytes, MaxOutputBytes, MaxRunes} \subseteq Nat
    /\ \A w \in Widths, n \in PageSizes \cup {MaxChunkBytes} : w <= n

VARIABLES
    text, state,     \* the job's retained output and its state
    rest,            \* what emit has still to commit
    chunks,          \* the committed deltas
    pages, ended     \* the agent: the pages put together, and end_of_output

pageVars == <<text, state, rest, chunks, pages, ended>>

PageInit ==
    /\ text = <<>> /\ state = "running" /\ rest = <<>> /\ chunks = <<>>
    /\ pages = <<>> /\ ended = FALSE

(* What text[i] tells, counting from 0 as the code does. *)
RuneStart(s, i) == s[i + 1][2] = 1

(* The largest character boundary of s that is not after n and not before low. *)
Back(s, n, low) == Max({low} \cup {i \in low..n : RuneStart(s, i)})

(* The bytes of characters of the given widths, numbered from n on. *)
Encode(n, ws) == FlattenSeq([i \in 1..Len(ws) |-> [k \in 1..ws[i] |-> <<n + i, k, ws[i]>>]])
Runes == IF text = <<>> THEN 0 ELSE Last(text)[1]

(* The backend hands over characters. *)
Emit(ws) ==
    /\ state = "running" /\ rest = <<>>
    /\ rest' = Encode(Runes, ws)
    /\ UNCHANGED <<text, state, chunks, pages, ended>>

(* Mutant: the chunk is cut at the limit. *)
CutAnywhere(s) == IF Len(s) < MaxChunkBytes THEN Len(s) ELSE MaxChunkBytes

Cut(s) == IF Len(s) <= MaxChunkBytes THEN Len(s) ELSE Back(s, MaxChunkBytes, 0)

(* One turn of emit's loop: a chunk is committed, or the output is too long and the job fails. *)
Commit ==
    LET n == Cut(rest)
    IN  /\ state = "running" /\ rest # <<>>
        /\ IF Len(text) + n > MaxOutputBytes
           THEN state' = "failed" /\ rest' = <<>> /\ UNCHANGED <<text, chunks>>
           ELSE /\ text' = text \o SubSeq(rest, 1, n)
                /\ chunks' = Append(chunks, [offset |-> Len(text), text |-> SubSeq(rest, 1, n)])
                /\ rest' = SubSeq(rest, n + 1, Len(rest))
                /\ UNCHANGED state
        /\ UNCHANGED <<pages, ended>>

Finish ==
    /\ state = "running" /\ rest = <<>> /\ state' = "succeeded"
    /\ UNCHANGED <<text, rest, chunks, pages, ended>>

(* Mutant: a page ends where its size says. *)
pageOutputRaw(s, offset, max) == IF offset + max >= Len(s) THEN Len(s) ELSE offset + max

(* The end of the page of s from offset on; offset itself when no character fits. *)
pageOutput(s, offset, max) ==
    IF offset + max >= Len(s) THEN Len(s) ELSE Back(s, offset + max, offset)

(* Mutant: a page that reaches the end of what there is ends the output. *)
endOfOutputEarly(next) == next = Len(text)

endOfOutput(next) == state # "running" /\ next = Len(text)

(* The agent reads on where its last page ended; a page without a character is refused.
   The job is read under the mutex that emit holds until all is committed. *)
ReadPage(max) ==
    LET offset == Len(pages)
        next == pageOutput(text, offset, max)
    IN  /\ ~ended /\ rest = <<>>
        /\ offset < Len(text) => RuneStart(text, offset) /\ next > offset
        /\ pages' = pages \o SubSeq(text, offset + 1, next)
        /\ ended' = endOfOutput(next)
        /\ UNCHANGED <<text, state, rest, chunks>>

PageNext ==
    \/ \E ws \in BoundedSeq(Widths, MaxRunes) \ {<<>>} : Emit(ws)
    \/ Commit \/ Finish \/ \E max \in PageSizes : ReadPage(max)

PageSpec == PageInit /\ [][PageNext]_pageVars

-----------------------------------------------------------------------------
(* Properties. *)

(* Complete characters: the first byte starts one, the last one ends one. *)
Complete(s) == s # <<>> => s[1][2] = 1 /\ Last(s)[2] = Last(s)[3]

(* The types; the committed chunks are complete characters and put together they are the text. *)
PageTypeOK ==
    /\ state \in {"running", "succeeded", "failed"}
    /\ Len(text) <= MaxOutputBytes
    /\ \A c \in Range(chunks) : Complete(c.text) /\ Len(c.text) \in 1..MaxChunkBytes
    /\ text = FlattenSeq([i \in 1..Len(chunks) |-> chunks[i].text])

(* An agent that was told the output ended has all of it, for good. *)
EndIsEnd == ended => pages = text

(* The pages an agent reads put together are the text up to a character boundary, wherever chunks
   and pages were cut and however the text grew in between; one told that the output ended has
   all of it. *)
PagesAreText == PageTypeOK /\ IsPrefix(pages, text) /\ Complete(pages) /\ EndIsEnd
==============================================================================
