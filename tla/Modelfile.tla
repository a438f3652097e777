------------------------------ MODULE Modelfile ------------------------------
(***************************************************************************)
(* templateOnlyModelfile (ollama/modelfile.go): whether a model is served  *)
(* through its template alone can only be seen in the Modelfile the daemon *)
(* generates, and that text is ambiguous: quotes are not escaped, and a    *)
(* value with a quote but without a line break is written as it is.  The   *)
(* loop below reads the text the daemon writes for any of a set of models. *)
(*                                                                         *)
(* A text is a sequence of tokens: words, Space, Break and Quote.  Tabs,   *)
(* carriage returns, NUL and the letter case of commands are left out, and *)
(* so are paths with line breaks.                                          *)
(***************************************************************************)
EXTENDS Integers, Sequences, SequencesExt, FiniteSetsExt

CONSTANTS
    Words,       \* what else may stand in a text
    Candidates   \* models: [path, adapters, template, system, renderer, suffix], suffix a sequence
                 \* of [command, value]

Space == "space"
Break == "break"
Quote == "quote"
Triple == <<Quote, Quote, Quote>>

Commands == {"FROM", "ADAPTER", "TEMPLATE", "SYSTEM", "RENDERER", "PARAMETER", "LICENSE", "PARSER", "MESSAGE"}
Text == Seq(Words \cup Commands \cup {Space, Break, Quote, "#", "generated", "stop", "qwen"})
ASSUME ModelfileAssumption ==
    /\ Candidates \subseteq
          [path : Text, adapters : Seq(Text), template : Text, system : Text, renderer : BOOLEAN,
           suffix : Seq([command : {"PARAMETER", "LICENSE", "PARSER", "MESSAGE"}, value : Text])]
    /\ \A m \in Candidates : ~Contains(m.path, Break)

VARIABLES
    model,          \* the model in the daemon
    source,         \* what is still to be read
    seen, tail,     \* foundFrom, foundTemplate and foundSystem as a set; tail
    verdict

textVars == <<model, source, seen, tail, verdict>>

-----------------------------------------------------------------------------
(* The daemon's serialization. *)

serializedValue(s) ==
    IF Contains(s, Break) \/ (s # <<>> /\ Space \in {Head(s), Last(s)})
    THEN IF Contains(s, Quote) THEN Triple \o s \o Triple ELSE <<Quote>> \o s \o <<Quote>>
    ELSE s

Directive(command, text) == [command |-> command, text |-> text]

(* The directives of a model in their order, with what follows the command. *)
Directives(m) ==
    <<Directive("FROM", m.path)>>
    \o [i \in 1..Len(m.adapters) |-> Directive("ADAPTER", serializedValue(m.adapters[i]))]
    \o <<Directive("TEMPLATE", serializedValue(m.template))>>
    \o (IF m.system = <<>> THEN <<>> ELSE <<Directive("SYSTEM", serializedValue(m.system))>>)
    \o (IF m.renderer THEN <<Directive("RENDERER", <<"qwen">>)>> ELSE <<>>)
    \o [i \in 1..Len(m.suffix) |->
          Directive(m.suffix[i].command,
                    (IF m.suffix[i].command = "PARAMETER" THEN <<"stop", Space>> ELSE <<>>)
                    \o serializedValue(m.suffix[i].value))]

LineOf(d) == <<d.command, Space>> \o d.text \o <<Break>>

(* The text from each of the directives on. *)
Written(ds) ==
    LET from[k \in 1..Len(ds) + 1] == IF k > Len(ds) THEN <<>> ELSE LineOf(ds[k]) \o from[k + 1]
    IN  from

Comment == <<"#", "generated", Break>>
Generated(m) == Comment \o Written(Directives(m))[1]

-----------------------------------------------------------------------------
(* Reading. *)

From(s, i) == SubSeq(s, i, Len(s))

(* The first place of one of the tokens, one past the end if there is none; s without those
   in front, or at both ends. *)
IndexAny(s, tokens) == Min({i \in DOMAIN s : s[i] \in tokens} \cup {Len(s) + 1})
TrimLeft(s, tokens) == From(s, Min({i \in DOMAIN s : s[i] \notin tokens} \cup {Len(s) + 1}))
Trim(s, tokens) == Reverse(TrimLeft(Reverse(TrimLeft(s, tokens)), tokens))

modelfileLine(s) == LET i == IndexAny(s, {Break}) IN [line |-> SubSeq(s, 1, i - 1), rest |-> From(s, i + 1)]

Failed == [value |-> <<>>, rest |-> <<>>, ok |-> FALSE]

(* Mutant: the value ends with the last delimiter of the text. *)
DelimitedLast(s, delimiter) ==
    LET n == Len(delimiter)
        ends == {i \in n + 1..Len(s) - n + 1 : SubSeq(s, i, i + n - 1) = delimiter}
        after == modelfileLine(From(s, Max(ends) + n))
    IN  IF ends = {} \/ Trim(after.line, {Space}) # <<>> THEN Failed
        ELSE [value |-> SubSeq(s, n + 1, Max(ends) - 1), rest |-> after.rest, ok |-> TRUE]

(* A value in a pair of delimiters, with nothing behind it on its line. *)
Delimited(s, delimiter) ==
    LET n == Len(delimiter)
        ends == {i \in n + 1..Len(s) - n + 1 : SubSeq(s, i, i + n - 1) = delimiter}
        after == modelfileLine(From(s, Min(ends) + n))
    IN  IF ends = {} \/ Trim(after.line, {Space}) # <<>> THEN Failed
        ELSE [value |-> SubSeq(s, n + 1, Min(ends) - 1), rest |-> after.rest, ok |-> TRUE]

modelfileValue(s) ==
    IF s = <<>> \/ Head(s) = Break THEN Failed
    ELSE IF IsPrefix(Triple, s) THEN Delimited(s, Triple)
    ELSE IF Head(s) = Quote THEN Delimited(s, <<Quote>>)
    ELSE [value |-> Trim(modelfileLine(s).line, {Space}), rest |-> modelfileLine(s).rest, ok |-> TRUE]

TextInit ==
    /\ model \in Candidates
    /\ source = Generated(model) /\ seen = {} /\ tail = FALSE /\ verdict = "none"

Reject == verdict' = "reject" /\ UNCHANGED <<source, seen, tail>>
ReadOn(rest) == source' = rest /\ UNCHANGED verdict

(* FROM and ADAPTER: a line without quotes, before the template. *)
Path(command, s) ==
    LET l == modelfileLine(s)
    IN  IF \/ Trim(l.line, {Space}) = <<>> \/ Contains(l.line, Quote)
           \/ "TEMPLATE" \in seen \/ tail
           \/ (command = "FROM") = ("FROM" \in seen)
        THEN Reject
        ELSE ReadOn(l.rest) /\ seen' = seen \cup ({command} \cap {"FROM"}) /\ UNCHANGED tail

(* Mutant: any system text will do. *)
MatchesTemplate(command, value) == command = "TEMPLATE" => value = model.template

(* Template and system are those the daemon reports apart from the Modelfile. *)
Matches(command, value) ==
    /\ command = "TEMPLATE" => value = model.template
    /\ command = "SYSTEM" => value = model.system

(* Where a command with a value may stand. *)
Admitted(command) ==
    \/ command = "TEMPLATE" /\ "FROM" \in seen /\ "TEMPLATE" \notin seen /\ ~tail
    \/ command = "SYSTEM" /\ "TEMPLATE" \in seen /\ "SYSTEM" \notin seen /\ ~tail /\ model.system # <<>>
    \/ /\ command \in {"LICENSE", "PARSER", "REQUIRES", "PARAMETER"}
       /\ "TEMPLATE" \in seen /\ (model.system # <<>> => "SYSTEM" \in seen)

(* A command with a value; PARAMETER has its name first. *)
Valued(command, s) ==
    LET i == IndexAny(s, {Space, Break})
        named == i > 1 /\ i <= Len(s) /\ s[i] = Space /\ ~Contains(SubSeq(s, 1, i - 1), Quote)
        v == modelfileValue(IF command = "PARAMETER" THEN TrimLeft(From(s, i), {Space}) ELSE s)
    IN  IF \/ ~Admitted(command) \/ (command = "PARAMETER" /\ ~named)
           \/ ~v.ok \/ (v.value = <<>> /\ command # "PARAMETER")
           \/ ~Matches(command, v.value)
        THEN Reject
        ELSE /\ ReadOn(v.rest)
             /\ seen' = seen \cup ({command} \cap {"TEMPLATE", "SYSTEM"})
             /\ tail' = (tail \/ command \notin {"TEMPLATE", "SYSTEM"})

(* One turn of the loop of templateOnlyModelfile. *)
Turn ==
    LET s == TrimLeft(source, {Space, Break})
        end == IndexAny(s, {Space, Break})
        command == s[1]
        rest == TrimLeft(From(s, end), {Space})
    IN  /\ verdict = "none" /\ s # <<>>
        /\ IF command = "#" THEN ReadOn(modelfileLine(s).rest) /\ UNCHANGED <<seen, tail>>
           ELSE IF end # 2 \/ end > Len(s) \/ s[end] = Break THEN Reject
           ELSE IF command \in {"FROM", "ADAPTER"} THEN Path(command, rest)
           ELSE Valued(command, rest)
        /\ UNCHANGED model

HasMessages == \E i \in DOMAIN model.suffix : model.suffix[i].command = "MESSAGE"

(* The text is read; usable also looks at the messages, which the daemon reports apart. *)
Decide ==
    /\ verdict = "none" /\ TrimLeft(source, {Space, Break}) = <<>>
    /\ verdict' = IF {"FROM", "TEMPLATE"} \subseteq seen /\ (model.system # <<>> => "SYSTEM" \in seen)
                     /\ ~HasMessages
                  THEN "accept" ELSE "reject"
    /\ UNCHANGED <<model, source, seen, tail>>

TextNext == Turn \/ Decide
TextSpec == TextInit /\ [][TextNext]_textVars

-----------------------------------------------------------------------------
(* Properties. *)

(* A model without renderer and messages, with values without quotes, and paths that are written as
   they are. *)
Plain(s) == s # <<>> /\ ~Contains(s, Quote)
Simple(s) == Plain(s) /\ serializedValue(s) = s
Ordinary(m) ==
    /\ ~m.renderer /\ \A i \in DOMAIN m.suffix : m.suffix[i].command # "MESSAGE" /\ Plain(m.suffix[i].value)
    /\ Simple(m.path) /\ \A i \in DOMAIN m.adapters : Simple(m.adapters[i])
    /\ Plain(m.template) /\ ~Contains(m.system, Quote)

(* No value of any field hides a renderer or a stored message: a model that is accepted is served
   through its template alone.  And an ordinary model is not refused, whatever directives its texts
   seem to contain. *)
NothingHidden ==
    /\ verdict = "accept" => ~model.renderer /\ ~HasMessages
    /\ Ordinary(model) => verdict # "reject"
==============================================================================
