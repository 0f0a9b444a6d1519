---------------------------- MODULE MCTokenizer ----------------------------
(***************************************************************************)
(* The pages the tokenizer is checked on: every page of four units of the  *)
(* general alphabet, and for each kind of markup the pages that go through *)
(* all of its states.  Every page may end after any of its units.          *)
(***************************************************************************)
EXTENDS Tokenizer, TLC

MCLetters == {"x", "y", "s", "S", "cript", "t", "itle", "tyle", "plaintext", "svg", "DOCTYPE", "PUBLIC", "SYSTEM"}
MCScriptName == <<"s", "cript">>
MCTextStates ==
  <<"t", "itle">> :> "RCDATA" @@ <<"s", "tyle">> :> "RAWTEXT" @@ <<"s", "cript">> :> "SCRIPT"
    @@ <<"plaintext">> :> "PLAINTEXT"
MCForeignNames == {<<"svg">>}

One(s) == [i \in 1..Len(s) |-> {s[i]}]
Repeat(n, units) == [i \in 1..n |-> units]

General == Repeat(4, {"<", "/", ">", "!", "?", "-", "x", " ", "&", "&2;"})
AfterEmptyEndTag == One(<<"<", "/", ">">>) \o << {"<", "x"}, {"/", "!", "x"}, {">", "-", "x"}, {"-", ">", "x"}, {"x"}, {">"}>>
EndTagOf(name) == <<{"<"}, {"/", "x"}>> \o [i \in 1..Len(name) |-> {name[i], IF i = 1 THEN "/" ELSE "x"}]
Title == One(<<"<", "t", "itle", ">">>) \o <<{"<", "&1;", "&2;"}>> \o EndTagOf(<<"t", "itle">>) \o <<{">", " ", "/", "x"}, {"/", "x"}, {">"}>>
Style == One(<<"<", "s", "tyle", ">">>) \o EndTagOf(<<"S", "tyle">>) \o <<{">", " ", "/"}, {">", "x"}>>
Script == One(<<"<", "s", "cript", ">">>) \o EndTagOf(<<"s", "cript">>) \o <<{">", " ", "/"}, {">", "x"}>>
EscapedScript ==
  One(<<"<", "s", "cript", ">", "<", "!">>)
    \o <<{"-", "x"}, {"-", "x"}, {"<", "-", "x", ">"}, {"/", "-", "<", "S", "?"}, {"s", "-", ">", "cript", "<"},
         {"cript", "-", " ", "x"}, {">", " ", "/", "x"}>>
DoubleEscapedScript ==
  One(<<"<", "s", "cript", ">", "<", "!", "-", "-", "<", "s", "cript", ">">>)
    \o <<{"<", "-", "x"}, {"/", "-", "x", "<"}, {"S", "-", "<", ">"}, {"cript", ">", "x", "<"}, {">", "/", "?"}, {"x", "<"}>>
Plaintext == One(<<"<", "plaintext", ">">>) \o <<{"<", "x"}, {"/"}, {"plaintext"}, {">"}>>

EndTag == One(<<"<", "/", "x">>) \o <<{" ", "/", ">"}, {"x", "/", ">"}, {"=", ">"}, {"y", ">"}, {">"}>>
Attributes ==
  One(<<"<", "x", " ">>)
    \o <<{"x", "S"}, {" ", "="}, {"x", "s"}, {" ", "="}, {"x", "y", "="}, {" ", "=", ">"}, {"x", "y", ">"}, {" ", ">", "="}, {"y", ">"}, {">"}>>
AttributeSyntax == One(<<"<", "x", " ">>) \o Repeat(4, {"x", " ", "=", "/", ">", "dq", "<"}) \o One(<<"x", ">">>)
Values ==
  One(<<"<", "x", " ", "y", "=">>)
    \o <<{"dq", "sq", " ", "&1;", "x", ">"}, {"&", "&2;", "x", ">"}, {"dq", "sq", "/", " "}, {"x", "/", ">", " "}, {">", "x"}>>

Comments == One(<<"<", "!", "-", "-">>) \o Repeat(5, {"-", "!", ">", "x"}) \o One(<<"-", ">">>)
BogusComments == <<{"<"}, {"!", "/", "?"}, {" ", "x", "-", "[CDATA["}, {"-", ">", "x"}, {"x"}, {">"}, {"x"}>>
Cdata == One(<<"<", "svg", ">", "<", "!", "[CDATA[">>) \o <<{"]]>", " ", "<"}, {"]]>", ">", "x"}, {"<", "x", "]]>"}, {"/"}, {"svg"}, {">"}, {"x"}>>
CdataAgain == One(<<"<", "svg", ">", "<", "!", "[CDATA[", "]]>", "<", "!", "[CDATA[">>) \o <<{"x", "]]>"}, {"x"}>>

DoctypeName == One(<<"<", "!", "DOCTYPE">>) \o <<{" ", "x", ">"}, {" ", "S", ">"}, {" ", "x", ">"}, {" ", "PUBLIC", "SYSTEM", "x", ">"}, {">", "x"}, {"x"}>>
DoctypeIds ==
  One(<<"<", "!", "DOCTYPE", " ", "x", " ">>)
    \o <<{"PUBLIC", "SYSTEM"}, {" ", "dq", "sq", "x", ">"}, {" ", "dq", "sq", "x", ">"}, {"x", "dq", "sq"},
         {"dq", "sq", " "}, {" ", "dq", ">", "x"}, {"sq", "dq", " "}, {"dq", ">"}>>

MCShapes ==
  {General, AfterEmptyEndTag, Title, Style, Script, EscapedScript, DoubleEscapedScript, Plaintext, EndTag,
   Attributes, AttributeSyntax, Values, Comments, BogusComments, Cdata, CdataAgain, DoctypeName, DoctypeIds}
=============================================================================
