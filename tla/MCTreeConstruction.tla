------------------------- MODULE MCTreeConstruction -------------------------
(***************************************************************************)
(* The pages tree construction is checked on: for each part of the rules   *)
(* every page of a few tokens of an alphabet of its own.  Every page may   *)
(* end after any of its tokens.  The characters of a page are told apart   *)
(* by their place in it.                                                   *)
(***************************************************************************)
EXTENDS TreeConstruction, TLC

Plain(type, tag) ==
  [type |-> type, tag |-> tag, attrs |-> <<>>, char |-> "", selfClosing |-> FALSE, quirks |-> FALSE]
S(tag) == Plain("StartTag", tag)
E(tag) == Plain("EndTag", tag)
With(tag, name, value) == [S(tag) EXCEPT !.attrs = name :> value]
Closed(tag) == [S(tag) EXCEPT !.selfClosing = TRUE]
X == Plain("Character", "")
Blanks == [Plain("Whitespace", "") EXCEPT !.char = " "]
Newline == [Plain("Whitespace", "") EXCEPT !.char = "\n"]
CData == Plain("CData", "")
Comment == Plain("Comment", "")
Doctype == Plain("Doctype", "")
Quirks == [Doctype EXCEPT !.quirks = TRUE]

Characters == <<"c1", "c2", "c3", "c4", "c5", "c6", "c7", "c8", "c9", "c10", "c11", "c12", "c13", "c14">>
Numbered(page) ==
  [i \in DOMAIN page |->
     {IF t.type \in {"Character", "CData"} THEN [t EXCEPT !.char = Characters[i]] ELSE t : t \in page[i]}]
One(s) == [i \in DOMAIN s |-> {s[i]}]
Repeat(n, tokens) == [i \in 1 .. n |-> tokens]

Start == <<{Doctype, Quirks, Comment, S("html")}, {S("html"), S("head"), E("br"), Blanks, Comment}>>
  \o Repeat(2, {S("head"), S("title"), S("noscript"), S("script"), E("head"), Comment, Doctype})
  \o Repeat(3, {E("head"), E("title"), E("noscript"), S("meta"), X, S("html"), S("style")})
HeadEnd == One(<<S("head"), E("head")>>)
  \o Repeat(4, {S("template"), E("template"), S("title"), E("title"), Blanks, Comment, S("body"), X, E("body")})
Framesets == Repeat(2, {S("html"), E("head"), S("p"), Comment, S("b")})
  \o Repeat(3, {S("frameset"), E("frameset"), S("frame"), S("noframes"), E("noframes"), E("body"), Comment, E("html"), Blanks, X})
AfterFramesets == <<{S("frameset")}, {E("frameset"), S("frameset"), S("html")}, {E("html"), E("frameset")}>>
  \o Repeat(2, {Comment, Doctype, Blanks, S("html"), S("noframes"), E("html"), X})

Formatting == Repeat(7, {S("b"), E("b"), S("p"), X})
Blocks == <<{S("div")}, {S("b"), S("i")}, {S("b"), X}>>
  \o Repeat(4, {S("p"), S("div"), E("b"), E("i"), E("div"), X}) \o <<{E("i"), E("b")}, {X}>>
Alike == Repeat(4, {S("b"), With("b", "class", "x")}) \o <<{S("b")}, {S("td"), S("object"), S("p")}, {S("b"), X}, {E("p")}, {X}>>
Nesting == <<{S("b")}, {S("i"), S("span")}, {S("u"), S("span")}, {S("s"), S("p")}, {S("em")}, {S("p")}, {X},
             {E("b"), E("u")}, {E("p"), S("b")}, {E("em"), X}, {E("s"), E("p")}, {E("u"), E("i")}, {X}>>
Anchors == Repeat(2, {S("a"), S("nobr"), S("div")})
  \o Repeat(4, {S("a"), S("nobr"), S("table"), S("td"), E("a"), X})

Lists == Repeat(5, {S("li"), S("dd"), S("ul"), E("ul"), S("h1"), E("h2"), E("p"), E("li")})
Controls == Repeat(3, {S("form"), E("form"), S("button"), S("isindex"), S("object"), E("object"), S("div"), X})
  \o Repeat(2, {E("button"), E("form"), E("div"), S("form"), X})
Verbatim == <<{S("pre"), S("textarea"), S("xmp"), S("plaintext"), S("iframe"), S("image"), S("img"), S("param"), S("noembed")}>>
  \o Repeat(3, {Newline, X, E("textarea"), E("pre"), S("b"), Comment})
Ruby == Repeat(4, {S("ruby"), S("rt"), S("rtc"), S("rb"), E("ruby"), E("br"), S("hr"), X})
Endings == Repeat(5, {S("body"), E("body"), E("html"), Comment, X, Blanks, S("p"), S("html")})

Tables == One(<<S("table")>>) \o Repeat(5, {S("tr"), S("td"), S("b"), X, E("table"), E("tr")})
Parts == One(<<S("table")>>)
  \o Repeat(4, {S("caption"), S("col"), S("colgroup"), S("tbody"), S("th"), E("colgroup"), E("caption"),
                E("tbody"), E("th"), E("table"), S("table"), Blanks, X})
Guests == One(<<S("p"), S("table")>>)
  \o <<{S("tr"), S("p"), S("form"), S("style"), S("svg")}>>
  \o Repeat(3, {With("input", "type", "hidden"), S("form"), E("style"), S("template"), S("tr"), Comment, E("p"), X, E("body")})
Selects == <<{S("select"), S("table")}, {S("select"), S("td"), S("tr")}>>
  \o Repeat(4, {S("select"), S("option"), S("optgroup"), E("optgroup"), E("select"), S("input"), S("td"), X, E("table")})
Options == One(<<S("select")>>)
  \o Repeat(3, {Comment, S("html"), S("option"), E("option"), S("script"), S("template"), E("template"), S("textarea"), X})
Columns == One(<<Doctype, S("p"), S("table")>>)
  \o <<{S("col"), S("colgroup")}>> \o Repeat(2, {S("html"), Comment, Blanks, X, E("col"), E("colgroup"), E("p"), E("table")})
Templates == <<{S("template"), S("div")}>>
  \o Repeat(4, {S("template"), E("template"), S("tr"), S("td"), S("col"), S("form"), E("form"), X, E("td")})
Templated == One(<<S("template")>>) \o Repeat(5, {S("b"), E("b"), S("p"), S("table"), S("a"), X})

Foreign == <<{S("svg"), S("math"), S("p")}>>
  \o Repeat(3, {S("svg"), S("foreignobject"), S("mi"), S("annotation-xml"), S("font"), With("font", "color", "red"),
                S("p"), E("svg"), E("math"), E("p"), Closed("g"), CData, X})
ForeignNested == One(<<S("div"), S("svg")>>) \o Repeat(5, {S("foreignobject"), E("foreignobject"), S("b"), E("svg"), X, Blanks, CData})

MCShapes ==
  {Numbered(page) : page \in
    {Start, HeadEnd, Framesets, AfterFramesets, Formatting, Blocks, Alike, Nesting, Anchors, Lists, Controls, Verbatim, Ruby,
     Endings, Tables, Parts, Guests, Selects, Options, Columns, Templates, Templated, Foreign, ForeignNested}}
=============================================================================
