--------------------------- MODULE TokenizerMarkup ---------------------------
(***************************************************************************)
(* The handlers of the tokenizer for what begins with "<!" or is no tag:   *)
(* comments, bogus comments, doctypes and CDATA sections.  Both collect    *)
(* their text in the temporary buffer.                                     *)
(***************************************************************************)
EXTENDS TokenizerState

\* utf8iterator_maybe_consume_match looks at the unit after a dash: it is chosen now.
LookAhead ==
  /\ In("MARKUP_DECLARATION") /\ Current = "-" /\ pos = Len(source)
  /\ \E u \in Following : source' = Append(source, u)
  /\ UNCHANGED <<shape, pos, state, modeVars, buffered, temporaryVars, tagVars, doctype, outputVars>>

TwoDashes == Current = "-" /\ pos < Len(source) /\ source[pos + 1] = "-"

MarkupDeclarationState ==
  /\ In("MARKUP_DECLARATION") /\ (Current = "-" => pos < Len(source))
  /\ \/ /\ TwoDashes /\ AdvanceTo(pos + 2) /\ state' = "COMMENT_START"
        /\ UNCHANGED <<shape, buffered, foreign, outputVars, doctype, inCdata>> /\ KeepTemporary
     \/ /\ Current = "DOCTYPE" /\ NextChar("DOCTYPE") /\ KeepTemporary
        /\ doctype' = [doctype EXCEPT !.strings = TRUE] /\ UNCHANGED inCdata
     \/ /\ foreign /\ Current = "[CDATA[" /\ NextChar("CDATA") /\ KeepTemporary
        /\ inCdata' = TRUE /\ UNCHANGED doctype
     \/ /\ ~TwoDashes /\ Current # "DOCTYPE" /\ ~(foreign /\ Current = "[CDATA[")
        /\ Reconsume("BOGUS_COMMENT") /\ ClearTemporary(<<>>) /\ UNCHANGED <<doctype, inCdata>>
  /\ KeepTag

\* The loop of the handler, a unit at a time.
BogusCommentState ==
  /\ In("BOGUS_COMMENT")
  /\ \/ Current \notin {">", EOF} /\ NextChar("BOGUS_COMMENT") /\ AppendTemporary(<<Current>>)
     \/ Current \in {">", EOF} /\ EmitComment("DATA")

\* A section of a foreign element: its text is emitted as it is, and its ends belong to no token.
CdataState ==
  /\ In("CDATA")
  /\ \/ /\ Current \in {EOF, "]]>"}
        /\ state' = "DATA" /\ Advance
        /\ tokenStart' = pos' /\ inCdata' = FALSE
        /\ UNCHANGED <<shape, buffered, foreign, tokens, handled>>
     \/ Current \notin {EOF, "]]>"} /\ EmitCurrentChar("CDATA") /\ UNCHANGED inCdata
  /\ KeepTemporary /\ KeepTag /\ UNCHANGED doctype

-----------------------------------------------------------------------------
CommentEnds(s, units) == In(s) /\ Current \in units /\ EmitComment("DATA")

\* Back to the text of the comment, with what had looked like the beginning of its end.
CommentGoesOn(s, held, special) ==
  /\ In(s) /\ Current \notin {EOF} \union special
  /\ NextChar("COMMENT") /\ AppendTemporary(held \o <<Current>>)

Dash(s, next) == In(s) /\ Current = "-" /\ NextChar(next) /\ KeepTemporary

CommentStartState ==
  \/ Dash("COMMENT_START", "COMMENT_START_DASH")
  \/ CommentEnds("COMMENT_START", {">", EOF}) \/ CommentGoesOn("COMMENT_START", <<>>, {"-", ">"})

CommentStartDashState ==
  \/ Dash("COMMENT_START_DASH", "COMMENT_END")
  \/ CommentEnds("COMMENT_START_DASH", {">", EOF}) \/ CommentGoesOn("COMMENT_START_DASH", <<"-">>, {"-", ">"})

CommentState ==
  \/ Dash("COMMENT", "COMMENT_END_DASH")
  \/ CommentEnds("COMMENT", {EOF}) \/ CommentGoesOn("COMMENT", <<>>, {"-"})

\* Mutant: the dash that ended nothing is lost.
CommentEndDashLosingDash ==
  \/ Dash("COMMENT_END_DASH", "COMMENT_END")
  \/ CommentEnds("COMMENT_END_DASH", {EOF}) \/ CommentGoesOn("COMMENT_END_DASH", <<>>, {"-"})

CommentEndDashState ==
  \/ Dash("COMMENT_END_DASH", "COMMENT_END")
  \/ CommentEnds("COMMENT_END_DASH", {EOF}) \/ CommentGoesOn("COMMENT_END_DASH", <<"-">>, {"-"})

CommentEndState ==
  \/ In("COMMENT_END") /\ Current = "!" /\ NextChar("COMMENT_END_BANG") /\ KeepTemporary
  \/ In("COMMENT_END") /\ Current = "-" /\ NextChar("COMMENT_END") /\ AppendTemporary(<<"-">>)
  \/ CommentEnds("COMMENT_END", {">", EOF}) \/ CommentGoesOn("COMMENT_END", <<"-", "-">>, {">", "!", "-"})

CommentEndBangState ==
  \/ In("COMMENT_END_BANG") /\ Current = "-" /\ NextChar("COMMENT_END_DASH") /\ AppendTemporary(<<"-", "-", "!">>)
  \/ CommentEnds("COMMENT_END_BANG", {">", EOF}) \/ CommentGoesOn("COMMENT_END_BANG", <<"-", "-", "!">>, {"-", ">"})

CommentHandler ==
  /\ \/ BogusCommentState \/ CommentStartState \/ CommentStartDashState \/ CommentState
     \/ CommentEndDashState \/ CommentEndState \/ CommentEndBangState
  /\ KeepTag /\ UNCHANGED <<doctype, inCdata>>

-----------------------------------------------------------------------------
\* What ends a doctype early makes the page quirky.
Quirky(d) == [d EXCEPT !.quirks = TRUE]
KeepDoctype == UNCHANGED doctype
DoctypeEnds(s, units, d) == In(s) /\ Current \in units /\ EmitDoctype("DATA", d) /\ KeepTemporary
SkipSpace(s, next) == In(s) /\ Current = " " /\ NextChar(next) /\ KeepTemporary /\ KeepDoctype

\* A quote begins an identifier.
Quote(s, double, single) ==
  /\ In(s) /\ KeepTemporary /\ KeepDoctype
  /\ \/ Current = "dq" /\ NextChar(double)
     \/ Current = "sq" /\ NextChar(single)

\* Anything else: the rest is skipped, and in some states the doctype is emitted here already.
Otherwise(s, special) == In(s) /\ Current \notin {" ", EOF} \union special /\ KeepTemporary
Bogus(s, special, d) == Otherwise(s, special) /\ NextChar("BOGUS_DOCTYPE") /\ doctype' = d
BogusNow(s, special) == Otherwise(s, special) /\ EmitDoctype("BOGUS_DOCTYPE", Quirky(doctype))

DoctypeState ==
  \/ SkipSpace("DOCTYPE", "BEFORE_DOCTYPE_NAME")
  \/ DoctypeEnds("DOCTYPE", {EOF}, Quirky(doctype))
  \/ Otherwise("DOCTYPE", {}) /\ Reconsume("BEFORE_DOCTYPE_NAME") /\ doctype' = Quirky(doctype)

DoctypeNameChar(s) ==
  /\ In(s) /\ Current \notin {" ", ">", EOF}
  /\ NextChar("DOCTYPE_NAME") /\ AppendTemporary(<<Lower(Current)>>)
  /\ doctype' = [doctype EXCEPT !.quirks = FALSE]

BeforeDoctypeNameState ==
  \/ SkipSpace("BEFORE_DOCTYPE_NAME", "BEFORE_DOCTYPE_NAME")
  \/ DoctypeEnds("BEFORE_DOCTYPE_NAME", {">", EOF}, Quirky(doctype))
  \/ DoctypeNameChar("BEFORE_DOCTYPE_NAME")

WithName == [doctype EXCEPT !.name = temporary]

DoctypeNameState ==
  \/ /\ In("DOCTYPE_NAME") /\ ClearTemporary(<<>>)
     /\ \/ Current = " " /\ NextChar("AFTER_DOCTYPE_NAME") /\ doctype' = WithName
        \/ Current = ">" /\ EmitDoctype("DATA", WithName)
        \/ Current = EOF /\ EmitDoctype("DATA", Quirky(WithName))
  \/ DoctypeNameChar("DOCTYPE_NAME")

AfterDoctypeNameState ==
  \/ SkipSpace("AFTER_DOCTYPE_NAME", "AFTER_DOCTYPE_NAME")
  \/ DoctypeEnds("AFTER_DOCTYPE_NAME", {">"}, doctype)
  \/ DoctypeEnds("AFTER_DOCTYPE_NAME", {EOF}, Quirky(doctype))
  \/ /\ In("AFTER_DOCTYPE_NAME") /\ KeepTemporary /\ KeepDoctype
     /\ \/ Current = "PUBLIC" /\ NextChar("AFTER_DOCTYPE_PUBLIC_KEYWORD")
        \/ Current = "SYSTEM" /\ NextChar("AFTER_DOCTYPE_SYSTEM_KEYWORD")
  \/ Bogus("AFTER_DOCTYPE_NAME", {">", "PUBLIC", "SYSTEM"}, Quirky(doctype))

QuotePublic(s) == Quote(s, "DOCTYPE_PUBLIC_ID_DOUBLE_QUOTED", "DOCTYPE_PUBLIC_ID_SINGLE_QUOTED")
QuoteSystem(s) == Quote(s, "DOCTYPE_SYSTEM_ID_DOUBLE_QUOTED", "DOCTYPE_SYSTEM_ID_SINGLE_QUOTED")

AfterDoctypePublicKeywordState ==
  \/ SkipSpace("AFTER_DOCTYPE_PUBLIC_KEYWORD", "BEFORE_DOCTYPE_PUBLIC_ID")
  \/ QuotePublic("AFTER_DOCTYPE_PUBLIC_KEYWORD")
  \/ DoctypeEnds("AFTER_DOCTYPE_PUBLIC_KEYWORD", {">", EOF}, Quirky(doctype))
  \/ BogusNow("AFTER_DOCTYPE_PUBLIC_KEYWORD", {">", "dq", "sq"})

BeforeDoctypePublicIdState ==
  \/ SkipSpace("BEFORE_DOCTYPE_PUBLIC_ID", "BEFORE_DOCTYPE_PUBLIC_ID")
  \/ QuotePublic("BEFORE_DOCTYPE_PUBLIC_ID")
  \/ DoctypeEnds("BEFORE_DOCTYPE_PUBLIC_ID", {">", EOF}, Quirky(doctype))
  \/ BogusNow("BEFORE_DOCTYPE_PUBLIC_ID", {">", "dq", "sq"})

\* finish_doctype_public_id, finish_doctype_system_id.
WithPublicId == [doctype EXCEPT !.publicId = temporary, !.hasPublic = TRUE]
WithSystemId == [doctype EXCEPT !.systemId = temporary, !.hasSystem = TRUE]

DoctypeId(s, quote, next, finished) ==
  \/ /\ In(s) /\ ClearTemporary(<<>>)
     /\ \/ Current = quote /\ NextChar(next) /\ doctype' = finished
        \/ Current \in {">", EOF} /\ EmitDoctype("DATA", Quirky(finished))
  \/ /\ In(s) /\ Current \notin {quote, ">", EOF}
     /\ NextChar(s) /\ AppendTemporary(<<Current>>) /\ KeepDoctype

DoctypePublicIdDoubleQuotedState ==
  DoctypeId("DOCTYPE_PUBLIC_ID_DOUBLE_QUOTED", "dq", "AFTER_DOCTYPE_PUBLIC_ID", WithPublicId)
DoctypePublicIdSingleQuotedState ==
  DoctypeId("DOCTYPE_PUBLIC_ID_SINGLE_QUOTED", "sq", "AFTER_DOCTYPE_PUBLIC_ID", WithPublicId)

\* At the end of the input the current unit is kept, which makes no difference there.
AfterDoctypePublicIdState ==
  \/ SkipSpace("AFTER_DOCTYPE_PUBLIC_ID", "BETWEEN_DOCTYPE_PUBLIC_SYSTEM_ID")
  \/ QuoteSystem("AFTER_DOCTYPE_PUBLIC_ID")
  \/ DoctypeEnds("AFTER_DOCTYPE_PUBLIC_ID", {">"}, doctype)
  \/ DoctypeEnds("AFTER_DOCTYPE_PUBLIC_ID", {EOF}, Quirky(doctype))
  \/ Bogus("AFTER_DOCTYPE_PUBLIC_ID", {">", "dq", "sq"}, Quirky(doctype))

BetweenDoctypePublicSystemIdState ==
  \/ SkipSpace("BETWEEN_DOCTYPE_PUBLIC_SYSTEM_ID", "BETWEEN_DOCTYPE_PUBLIC_SYSTEM_ID")
  \/ QuoteSystem("BETWEEN_DOCTYPE_PUBLIC_SYSTEM_ID")
  \/ DoctypeEnds("BETWEEN_DOCTYPE_PUBLIC_SYSTEM_ID", {">"}, doctype)
  \/ DoctypeEnds("BETWEEN_DOCTYPE_PUBLIC_SYSTEM_ID", {EOF}, Quirky(doctype))
  \/ BogusNow("BETWEEN_DOCTYPE_PUBLIC_SYSTEM_ID", {">", "dq", "sq"})

AfterDoctypeSystemKeywordState ==
  \/ SkipSpace("AFTER_DOCTYPE_SYSTEM_KEYWORD", "BEFORE_DOCTYPE_SYSTEM_ID")
  \/ QuoteSystem("AFTER_DOCTYPE_SYSTEM_KEYWORD")
  \/ DoctypeEnds("AFTER_DOCTYPE_SYSTEM_KEYWORD", {">", EOF}, Quirky(doctype))
  \/ Bogus("AFTER_DOCTYPE_SYSTEM_KEYWORD", {">", "dq", "sq"}, Quirky(doctype))

BeforeDoctypeSystemIdState ==
  \/ SkipSpace("BEFORE_DOCTYPE_SYSTEM_ID", "BEFORE_DOCTYPE_SYSTEM_ID")
  \/ QuoteSystem("BEFORE_DOCTYPE_SYSTEM_ID")
  \/ DoctypeEnds("BEFORE_DOCTYPE_SYSTEM_ID", {">", EOF}, Quirky(doctype))
  \/ Bogus("BEFORE_DOCTYPE_SYSTEM_ID", {">", "dq", "sq"}, Quirky(doctype))

DoctypeSystemIdDoubleQuotedState ==
  DoctypeId("DOCTYPE_SYSTEM_ID_DOUBLE_QUOTED", "dq", "AFTER_DOCTYPE_SYSTEM_ID", WithSystemId)
DoctypeSystemIdSingleQuotedState ==
  DoctypeId("DOCTYPE_SYSTEM_ID_SINGLE_QUOTED", "sq", "AFTER_DOCTYPE_SYSTEM_ID", WithSystemId)

AfterDoctypeSystemIdState ==
  \/ SkipSpace("AFTER_DOCTYPE_SYSTEM_ID", "AFTER_DOCTYPE_SYSTEM_ID")
  \/ DoctypeEnds("AFTER_DOCTYPE_SYSTEM_ID", {">"}, doctype)
  \/ DoctypeEnds("AFTER_DOCTYPE_SYSTEM_ID", {EOF}, Quirky(doctype))
  \/ Bogus("AFTER_DOCTYPE_SYSTEM_ID", {">"}, doctype)

BogusDoctypeState ==
  \/ DoctypeEnds("BOGUS_DOCTYPE", {">", EOF}, doctype)
  \/ In("BOGUS_DOCTYPE") /\ Current \notin {">", EOF} /\ NextChar("BOGUS_DOCTYPE") /\ KeepTemporary /\ KeepDoctype

DoctypeHandler ==
  /\ \/ DoctypeState \/ BeforeDoctypeNameState \/ DoctypeNameState \/ AfterDoctypeNameState
     \/ AfterDoctypePublicKeywordState \/ BeforeDoctypePublicIdState
     \/ DoctypePublicIdDoubleQuotedState \/ DoctypePublicIdSingleQuotedState \/ AfterDoctypePublicIdState
     \/ BetweenDoctypePublicSystemIdState \/ AfterDoctypeSystemKeywordState \/ BeforeDoctypeSystemIdState
     \/ DoctypeSystemIdDoubleQuotedState \/ DoctypeSystemIdSingleQuotedState \/ AfterDoctypeSystemIdState
     \/ BogusDoctypeState
  /\ KeepTag /\ UNCHANGED inCdata
=============================================================================
