------------------------------- MODULE Templates -------------------------------
(* How a template file becomes a page: load_template_recursive, render_template  *)
(* and the passes it makes over the text (src/src/cgi.rs).                       *)
(*                                                                               *)
(* A text is a sequence of tokens.  "text" and "sym" are a run of characters and *)
(* @name@; the markers of a condition n are                                      *)
(*   then  @if-n-then@   else  @else-not-n@    endif  @endif-n@                  *)
(*   start @if-nstart@   dash  @if-n-start@    end    @if-n-end@                 *)
(* and "nl" ends a line.                                                         *)
EXTENDS Naturals, Sequences, SequencesExt, FiniteSetsExt

Tok(kind, name) == [kind |-> kind, name |-> name]

Markers == {"then", "else", "endif", "start", "dash", "end"}

\* The end of a line has no name.
Name == STRING \cup {""}
Token == [kind : {"text", "sym", "nl"} \cup Markers, name : Name]

Line == [is : {"tokens", "comment", "include"}, toks : Seq(Token), name : Name]

Written(toks) == [is |-> "tokens", toks |-> toks, name |-> ""]
Comment == [is |-> "comment", toks |-> <<>>, name |-> ""]
IncludeOf(name) == [is |-> "include", toks |-> <<>>, name |-> name]

-----------------------------------------------------------------------------
\* Loading.  files maps the names of the templates directory to their lines.

LineText(line) ==
  IF line.is = "tokens" THEN Append(line.toks, Tok("nl", "")) ELSE <<>>

\* A file that is included: its own includes begin with "#" and count as comments;
\* one that cannot be read leaves nothing.
Included(files, name) ==
  IF name \in DOMAIN files
  THEN FlattenSeq([i \in DOMAIN files[name] |-> LineText(files[name][i])])
  ELSE <<>>

LoadTemplate(files, name) ==
  FlattenSeq([i \in DOMAIN files[name] |->
    LET line == files[name][i]
    IN IF line.is = "include" THEN Included(files, line.name) ELSE LineText(line)])

-----------------------------------------------------------------------------
\* Rendering.  symbols maps names to values.

\* Mistake: a name that has a value at all is true, be the value empty.
FilledNoEmpty(symbols, name) == name \in DOMAIN symbols

Filled(symbols, name) == name \in DOMAIN symbols /\ symbols[name] # ""

\* The leftmost match of "@if-(.+?)" with the end of a marker of one of the kinds:
\* where it begins and ends, <<>> if there is none.  Any marker that begins with
\* "@if-" may begin it, and "." does not match the end of a line.
Match(text, kinds) ==
  LET Ends(i) == {j \in i .. Len(text) :
                    /\ text[j].kind \in kinds
                    /\ \A k \in i .. j : text[k].kind # "nl"}
      starts == {i \in DOMAIN text :
                   text[i].kind \in {"then", "start", "dash", "end"} /\ Ends(i) # {}}
  IN IF starts = {} THEN <<>> ELSE <<Min(starts), Min(Ends(Min(starts)))>>

\* Where token stands behind position i for the first time, 0 if it does not.
After(text, i, token) ==
  LET found == {j \in i + 1 .. Len(text) : text[j] = token}
  IN IF found = {} THEN 0 ELSE Min(found)

Spliced(text, from, part, to) ==
  SubSeq(text, 1, from - 1) \o part \o SubSeq(text, to + 1, Len(text))

\* One turn of the loop of handle_if_then_else.  A match that runs over several
\* markers yields a name no marker has; that and a missing marker end the loop.
IfThenElse(text, symbols) ==
  LET m == Match(text, {"then"})
  IN IF m = <<>> \/ m[1] # m[2] THEN text
     ELSE LET name == text[m[1]].name
              else == After(text, m[1], Tok("else", name))
              endif == IF else = 0 THEN 0 ELSE After(text, else, Tok("endif", name))
          IN IF endif = 0 THEN text
             ELSE Spliced(text, m[1],
                    IF Filled(symbols, name) THEN SubSeq(text, m[1] + 1, else - 1)
                                             ELSE SubSeq(text, else + 1, endif - 1),
                    endif)

\* One turn of the loop of handle_conditional_blocks.  The name in @if-n-start@ is
\* "n-", for which there is no end marker.
ConditionalBlock(text, symbols) ==
  LET m == Match(text, {"start", "dash"})
  IN IF m = <<>> \/ m[1] # m[2] \/ text[m[1]].kind = "dash" THEN text
     ELSE LET name == text[m[1]].name
              end == After(text, m[1], Tok("end", name))
          IN IF end = 0 THEN text
             ELSE Spliced(text, m[1],
                    IF Filled(symbols, name) THEN SubSeq(text, m[1] + 1, end - 1) ELSE <<>>,
                    end)

\* Every turn of a loop takes tokens out of the text or is its last, so that there
\* are no more of them than tokens.
HandleIfThenElse(text, symbols) ==
  FoldLeft(LAMBDA t, token : IfThenElse(t, symbols), text, text)

HandleConditionalBlocks(text, symbols) ==
  FoldLeft(LAMBDA t, token : ConditionalBlock(t, symbols), text, text)

Substitute(text, symbols) ==
  [i \in DOMAIN text |->
    IF text[i].kind = "sym" /\ text[i].name \in DOMAIN symbols
    THEN Tok("text", symbols[text[i].name]) ELSE text[i]]

\* A text without the tokens of some kinds.
Without(text, kinds) ==
  FlattenSeq([i \in DOMAIN text |-> IF text[i].kind \in kinds THEN <<>> ELSE <<text[i]>>])

\* What replace_all with an empty text does to the matches of "@if-.+?" and a kind.
RemoveMatches(text, kind) ==
  FoldLeft(LAMBDA t, token :
             LET m == Match(t, {kind}) IN IF m = <<>> THEN t ELSE Spliced(t, m[1], <<>>, m[2]),
           text, text)

\* @if-nstart@ is no match of "-start@": it stays if its end is missing.
RemoveRemainingMarkers(text) ==
  LET plain == Without(RemoveMatches(text, "then"), {"else", "endif"})
  IN RemoveMatches(RemoveMatches(plain, "dash"), "end")

Render(text, symbols) ==
  RemoveRemainingMarkers(
    Substitute(HandleConditionalBlocks(HandleIfThenElse(text, symbols), symbols), symbols))
=============================================================================
