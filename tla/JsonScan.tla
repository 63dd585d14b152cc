------------------------------- MODULE JsonScan -------------------------------
(***************************************************************************)
(* The reader of json_scan.hpp: the cursor that skips a value, as the      *)
(* machine its recursion makes of the text, and the search that finds a    *)
(* key without parsing.  A text comes lexeme by lexeme: a punctuation mark,*)
(* a string or another scalar, each a sequence of characters.              *)
(***************************************************************************)
EXTENDS Integers, SequencesExt

CONSTANTS
  Strings,    \* string lexemes: sequences of characters from quote to quote
  Scalars,    \* numbers, true, false, null, and what is none of them
  Malformed,  \* lexemes at which parse_string, parse_bool or skip_number fails
  Key,        \* the key that is looked for: a sequence of characters
  MaxDepth,   \* kMaxNestingDepth
  MaxLexemes  \* bound: length of a text

Q == "quote"
Backslash == "backslash"

ASSUME JsonScanAssumption ==
  /\ MaxDepth \in Nat /\ MaxLexemes \in Nat
  /\ \A s \in Strings : Len(s) >= 2 /\ s[1] = Q /\ s[Len(s)] = Q
  /\ Malformed \subseteq Strings \cup Scalars

Marks == {<<"{">>, <<"}">>, <<"[">>, <<"]">>, <<",">>, <<":">>}
Lexemes == Marks \cup Strings \cup Scalars

VARIABLES
  text,   \* the lexemes read
  stack,  \* the open containers, the innermost first: "{" or "["
  depth,  \* depth_
  due,    \* what is read next
  result  \* "skipping", "skipped" or "failed"

vars == <<text, stack, depth, due, result>>

Init == text = << >> /\ stack = << >> /\ depth = 0 /\ due = "value" /\ result = "skipping"

Fail == result' = "failed" /\ UNCHANGED <<stack, depth, due>>

Expect(what) == due' = what /\ UNCHANGED <<stack, depth, result>>

(* A value has ended: of the outermost, the skip is over. *)
Ended(open) ==
  /\ stack' = open /\ due' = "next"
  /\ result' = IF open = << >> THEN "skipped" ELSE "skipping"

Opens(lexeme) == lexeme \in {<<"{">>, <<"[">>}
Closes(lexeme) == \/ lexeme = <<"}">> /\ Head(stack) = "{"
                  \/ lexeme = <<"]">> /\ Head(stack) = "["

(* Where a value begins: skip_value, and enter_container. *)
ValueBegins(lexeme) ==
  IF Opens(lexeme) /\ depth < MaxDepth
  THEN /\ stack' = lexeme \o stack /\ depth' = depth + 1
       /\ due' = IF lexeme = <<"{">> THEN "first name" ELSE "first value"
       /\ UNCHANGED result
  ELSE IF lexeme \in Marks \cup Malformed THEN Fail
  ELSE Ended(stack) /\ UNCHANGED depth

NameBegins(lexeme) == IF lexeme \in Strings \ Malformed THEN Expect("colon") ELSE Fail

(* Slip: an empty container is left without telling. *)
LeaveUnlessEmpty == Ended(Tail(stack)) /\ depth' = IF due = "next" THEN depth - 1 ELSE depth

LeaveContainer == Ended(Tail(stack)) /\ depth' = depth - 1

(* What the loops of skip_object and skip_array expect after a comma. *)
AfterComma == IF Head(stack) = "{" THEN "name" ELSE "value"

Scan(lexeme) ==
  CASE due = "value" -> ValueBegins(lexeme)
    [] due = "first value" -> IF Closes(lexeme) THEN LeaveContainer ELSE ValueBegins(lexeme)
    [] due = "first name" -> IF Closes(lexeme) THEN LeaveContainer ELSE NameBegins(lexeme)
    [] due = "name" -> NameBegins(lexeme)
    [] due = "colon" -> IF lexeme = <<":">> THEN Expect("value") ELSE Fail
    [] due = "next" -> IF Closes(lexeme) THEN LeaveContainer
                       ELSE IF lexeme = <<",">> THEN Expect(AfterComma) ELSE Fail

SkipValue ==
  /\ result = "skipping" /\ Len(text) < MaxLexemes
  /\ \E lexeme \in Lexemes : text' = Append(text, lexeme) /\ Scan(lexeme)

Rest == (result # "skipping" \/ Len(text) = MaxLexemes) /\ UNCHANGED vars

Next == SkipValue \/ Rest

Spec == Init /\ [][Next]_vars

-----------------------------------------------------------------------------
(* find_key_value on the characters of a text: the position behind the     *)
(* colon, or 0.                                                            *)
Pattern == <<Q>> \o Key \o <<Q>>
MatchesAt(chars, i) ==
  i + Len(Pattern) - 1 <= Len(chars) /\ SubSeq(chars, i, i + Len(Pattern) - 1) = Pattern
IsColon(chars, i) == i <= Len(chars) /\ chars[i] = ":"

(* Slip: the first match is taken, a key or not. *)
FindAnywhere(chars) ==
  LET at == {i \in DOMAIN chars : MatchesAt(chars, i)}
  IN IF at = {} THEN 0 ELSE (CHOOSE i \in at : \A j \in at : i <= j) + Len(Pattern) + 1

FindKeyValue(chars) ==
  LET at == {i \in DOMAIN chars : MatchesAt(chars, i) /\ IsColon(chars, i + Len(Pattern))}
  IN IF at = {} THEN 0 ELSE (CHOOSE i \in at : \A j \in at : i <= j) + Len(Pattern) + 1

-----------------------------------------------------------------------------
(* JSON, said as a grammar: the texts of at most n lexemes whose containers*)
(* nest at most d deep.                                                    *)
RECURSIVE Values(_, _), Lists(_, _, _)

Values(n, d) ==
  {<<s>> : s \in IF n >= 1 THEN (Strings \cup Scalars) \ Malformed ELSE {}}
  \cup IF n < 2 \/ d = 0 THEN {}
       ELSE {<< <<"[">> >> \o list \o << <<"]">> >> : list \in {<< >>} \cup Lists(n - 2, d - 1, "[")}
            \cup {<< <<"{">> >> \o list \o << <<"}">> >> : list \in {<< >>} \cup Lists(n - 2, d - 1, "{")}

(* One member or more, with commas between them. *)
Lists(n, d, kind) ==
  LET named == IF kind = "{" THEN {<<name, <<":">> >> : name \in Strings \ Malformed} ELSE {<< >>}
      room == n - IF kind = "{" THEN 2 ELSE 0
      firsts == {name \o value : name \in named, value \in Values(room, d)}
  IN IF n < 1 THEN {}
     ELSE firsts \cup UNION {{first \o << <<",">> >> \o more :
                                more \in Lists(n - Len(first) - 1, d, kind)} : first \in firsts}

Json == Values(MaxLexemes, MaxDepth)
Beginnings == UNION {{SubSeq(t, 1, i) : i \in DOMAIN t} : t \in Json}

(* The cursor skips exactly one value: it stops behind every text of the   *)
(* grammar, as soon as it is complete and never before, and gives up at    *)
(* the first lexeme that no value could continue with; the depth it counts *)
(* is back where it was after every container, the empty ones included     *)
(* (json_scan.hpp:125-154, 207-264).                                       *)
SkipsExactlyOneValue ==
  CASE result = "skipped" -> text \in Json
    [] result = "failed" -> text \notin Beginnings
    [] OTHER -> text \notin Json

(* In a well-formed text find_key_value misses no member called Key, at    *)
(* whatever depth the first one is, and what it finds is a member, never a *)
(* string value; the member's name is Key, or ends in an escaped quote and *)
(* Key, which the search cannot tell apart (json_scan.hpp:267-279).        *)
Behind(i) == Len(FlattenSeq(SubSeq(text, 1, i)))
IsMember(i) == i < Len(text) /\ text[i] \in Strings /\ text[i + 1] = <<":">>

FindsTheFirstMember ==
  result = "skipped" =>
    LET found == FindKeyValue(FlattenSeq(text))
        named == {i \in DOMAIN text : IsMember(i) /\ text[i] = Pattern}
        alike == {i \in DOMAIN text : IsMember(i) /\ IsSuffix(<<Backslash>> \o Pattern, text[i])}
    IN /\ found = 0 <=> named \cup alike = {}
       /\ found # 0 => /\ \E i \in named \cup alike : found = Behind(i + 1) + 1
                       /\ \A i \in named : found <= Behind(i + 1) + 1
=============================================================================
