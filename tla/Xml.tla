-------------------------------- MODULE Xml ---------------------------------
(***************************************************************************)
(* The XML parser (xmlparser/): a document is cut into tags, the tags are  *)
(* linked to a tree with a stack, the tree is copied to a property tree,   *)
(* and the property tree is saved to a document again.                     *)
(*                                                                         *)
(* A document is a sequence of items: the start, end and empty tags with   *)
(* their attributes, comments, tags without their ">" and the characters   *)
(* between tags.  The text of the attributes is kept character by          *)
(* character, because the properties are about where it is cut.            *)
(***************************************************************************)
EXTENDS StringOps, SequencesExt

CONSTANTS Items,      \* the items a document is made of
          MaxItems    \* bound: items of a document that is written by hand

VARIABLES doc, tree   \* the document; the tree it was saved from, {} at first
xmlVars == <<doc, tree>>

Item(k, name, attrs) == [k |-> k, name |-> name, attrs |-> attrs]
Char(c) == Item("char", c, <<>>)
IsTag(t) == t.k \in {"start", "end", "empty"}

-----------------------------------------------------------------------------
(* _parseOneXmlAttribute and _parseNameAndValueOfOneXmlAttribute: what is  *)
(* before the first ":" is the prefix; the first and the last token of the *)
(* rest, cut at "=", are the name and the value with its quotes; {} for a  *)
(* value that cannot be quoted.                                            *)
NameAndValue(prefix, nv) ==
    LET v == nv[Len(nv)]
    IN IF Len(v) < 2 THEN {}
       ELSE {[prefix |-> prefix, name |-> nv[1], value |-> SubSeq(v, 2, Len(v) - 1)]}

AttributeAt(f, prefix, from) == NameAndValue(prefix, ParseAdvFrom(f, from, <<"=">>))

AttributeCut(f, colon) ==
    AttributeAt(f, IF Len(colon) > 1 THEN colon[1] ELSE <<>>,
                IF Len(colon) > 1 THEN Len(colon[1]) + 1 ELSE 0)

ParseAttribute(f) == AttributeCut(f, ParseAdv(f, <<":">>))

(* parseXmlAttributeList: the first token is the name of the element,      *)
(* tokens that are empty or all spaces are skipped (isAllSpaceInXmlBuffer).*)
AllAttributes(fields) == [i \in 1..Len(fields) |-> ParseAttribute(fields[i])]

ParseAttributeList(text) ==
    AllAttributes(SelectSeq(Tail(ParseAdv(text, <<" ">>)), LAMBDA f : f # <<>> /\ Chars(f) # {" "}))

(* _fnSaveNodeAttributeToXmlFile.                                          *)
SaveAttribute(a) ==
    <<" ">> \o (IF a.prefix = <<>> THEN <<>> ELSE a.prefix \o <<":">>) \o a.name
    \o <<"=", "\"">> \o a.value \o <<"\"">>

SaveAttributes(as) == FlattenSeq([i \in 1..Len(as) |-> SaveAttribute(as[i])])

-----------------------------------------------------------------------------
(* _parseXml: a tag node per tag with the place where the segment it       *)
(* bounds begins or ends; an empty tag gets a bogus end tag that bounds    *)
(* the segment where it begins (_newXmlNode).                              *)
Node(t, start, seg) ==
    [start |-> start, name |-> t.name, seg |-> seg,
     attrs |-> ParseAttributeList(<<t.name>> \o SaveAttributes(t.attrs))]

Starts(k) == CASE k = "start" -> <<TRUE>> [] k = "end" -> <<FALSE>>
               [] k = "empty" -> <<TRUE, FALSE>> [] OTHER -> <<>>

NewXmlNode(t, i) ==
    [n \in 1..Len(Starts(t.k)) |-> Node(t, Starts(t.k)[n], IF t.k = "end" THEN i - 1 ELSE i + 1)]

ParsedNodes(d, nodes) ==
    [nodes |-> nodes,
     ok |-> /\ \E i \in 1..Len(d) : d[i].k # "char"
            /\ \A i \in 1..Len(d) : d[i].k # "cut"
            /\ \A n \in ToSet(nodes) : n.start => {} \notin ToSet(n.attrs)]

ParseXml(d) == ParsedNodes(d, FlattenSeq([i \in 1..Len(d) |-> NewXmlNode(d[i], i)]))

(* No node, 0, is linked to another yet.                                   *)
NoLinks(nodes) == LET none == [i \in 1..Len(nodes) |-> 0]
                  IN [ok |-> TRUE, child |-> none, sibling |-> none, pair |-> none]

RECURSIVE ProcessNodes(_, _, _, _)

(* Mutant: an end tag closes whatever tag is open.                         *)
ProcessNodesAnyName(nodes, i, stack, l) ==
    IF i > Len(nodes) THEN [l EXCEPT !.ok = stack = <<>>]
    ELSE IF nodes[i].start
    THEN LET p == IF stack = <<>> THEN 0 ELSE Head(stack)
         IN ProcessNodes(nodes, i + 1, <<i>> \o stack,
                         IF p # 0 /\ l.child[p] = 0 THEN [l EXCEPT !.child[p] = i] ELSE l)
    ELSE IF stack = <<>> THEN [l EXCEPT !.ok = FALSE]
    ELSE LET t == Head(stack)
             next == IF i < Len(nodes) /\ nodes[i + 1].start THEN i + 1 ELSE 0
         IN ProcessNodes(nodes, i + 1, Tail(stack), [l EXCEPT !.sibling[t] = next, !.pair[t] = i])

(* _processXmlNodeList from the i-th node on, with the stack of the open   *)
(* tags.                                                                   *)
ProcessNodes(nodes, i, stack, l) ==
    IF i > Len(nodes) THEN [l EXCEPT !.ok = stack = <<>>]
    ELSE IF nodes[i].start
    THEN LET p == IF stack = <<>> THEN 0 ELSE Head(stack)
         IN ProcessNodes(nodes, i + 1, <<i>> \o stack,
                         IF p # 0 /\ l.child[p] = 0 THEN [l EXCEPT !.child[p] = i] ELSE l)
    ELSE IF stack = <<>> \/ nodes[Head(stack)].name # nodes[i].name THEN [l EXCEPT !.ok = FALSE]
    ELSE LET t == Head(stack)
             next == IF i < Len(nodes) /\ nodes[i + 1].start THEN i + 1 ELSE 0
         IN ProcessNodes(nodes, i + 1, Tail(stack), [l EXCEPT !.sibling[t] = next, !.pair[t] = i])

(* _readXmlNodeContent: from the segment of the start tag to the one of    *)
(* the end tag; the bogus end tag leaves one character, the one after the  *)
(* empty tag, which is "<" before another tag and anything at the end.     *)
Content(d, s, e, empty) ==
    IF ~empty THEN SubSeq(d, s, e)
    ELSE IF s > Len(d) THEN <<Char("?")>>
    ELSE IF d[s].k = "char" THEN <<d[s]>> ELSE <<Item("cut", "", <<>>)>>

(* _copyXmlTreeNodeToPtree: the node, its children, then its siblings.     *)
Element(name, attrs, content, kids) ==
    [name |-> name, attrs |-> attrs, content |-> content, kids |-> kids]

RECURSIVE CopyToPtree(_, _, _, _)
CopyToPtree(d, nodes, l, n) ==
    IF n = 0 THEN <<>>
    ELSE LET e == nodes[l.pair[n]]
             as == nodes[n].attrs
             kids == CopyToPtree(d, nodes, l, l.child[n])
             content == IF kids # <<>> THEN <<>>
                        ELSE Content(d, nodes[n].seg, e.seg, e.seg = nodes[n].seg /\ d[e.seg - 1].k = "empty")
         IN <<Element(nodes[n].name, [i \in 1..Len(as) |-> CHOOSE a \in as[i] : TRUE], content, kids)>> \o CopyToPtree(d, nodes, l, l.sibling[n])

(* jf_xmlparser_parseXmlDoc: the set of the tree, {} for an error.  A      *)
(* document without any element is not given to it: its root is used       *)
(* unchecked by _validateXmlDoc.                                           *)
TreeOf(d, x, l) ==
    IF x.ok /\ x.nodes # <<>> /\ l.ok /\ l.sibling[1] = 0
    THEN {CopyToPtree(d, x.nodes, l, 1)[1]} ELSE {}

ValidateXmlDoc(d, x) == TreeOf(d, x, ProcessNodes(x.nodes, 1, <<>>, NoLinks(x.nodes)))

ParseXmlDoc(d) == ValidateXmlDoc(d, ParseXml(d))

(* jf_xmlparser_saveXmlFile: _traverseXmlPtree with its lines.             *)
RECURSIVE SaveNodes(_)
SaveNodes(s) ==
    IF s = <<>> THEN <<>>
    ELSE LET n == Head(s)
             body == IF n.kids = <<>> THEN n.content ELSE <<Char("\n")>> \o SaveNodes(n.kids)
         IN <<Item("start", n.name, n.attrs)>> \o body
            \o <<Item("end", n.name, <<>>), Char("\n")>> \o SaveNodes(Tail(s))

-----------------------------------------------------------------------------
XmlInit == doc = <<>> /\ tree = {}

Write(t) == /\ tree = {} /\ Len(doc) < MaxItems
            /\ doc' = Append(doc, t)
            /\ UNCHANGED tree

SaveXmlFile ==
    \E parsed \in {ParseXmlDoc(doc)} :
        /\ parsed # {} /\ parsed # tree
        /\ tree' = parsed
        /\ doc' = SaveNodes(<<CHOOSE t \in parsed : TRUE>>)

XmlNext == (\E t \in Items : Write(t)) \/ SaveXmlFile

XmlSpec == XmlInit /\ [][XmlNext]_xmlVars

-----------------------------------------------------------------------------
(* The trees a sequence of items can be read as, by the grammar: an item   *)
(* that is no tag, or an element and what follows it.                      *)
RECURSIVE Forests(_)
Forests(d) ==
    LET tags == {i \in 1..Len(d) : IsTag(d[i])}
        i == CHOOSE j \in tags : \A k \in tags : j <= k
        after(j) == Forests(SubSeq(d, j + 1, Len(d)))
        el(inner, kids) == Element(d[i].name, d[i].attrs, IF kids = <<>> THEN inner ELSE <<>>, kids)
    IN IF tags = {} THEN {<<>>}
       ELSE IF d[i].k = "end" THEN {}
       ELSE IF d[i].k = "empty" THEN {<<el(<<>>, <<>>)>> \o f : f \in after(i)}
       ELSE UNION {{<<el(SubSeq(d, i + 1, j - 1), kids)>> \o f :
                       kids \in Forests(SubSeq(d, i + 1, j - 1)), f \in after(j)} :
                   j \in {k \in tags : d[k].k = "end" /\ d[k].name = d[i].name}}

Documents(d) == IF \E i \in 1..Len(d) : d[i].k = "cut" THEN {} ELSE {f[1] : f \in {g \in Forests(d) : Len(g) = 1}}

(* A document is accepted exactly if its tags nest, by name, under one     *)
(* root; the tree is the one of the grammar, with its order, attributes    *)
(* and text; and a saved tree is read back as it was.  Empty tags are left *)
(* to EmptyHasNoContent, and a prefix longer than its value with one quote *)
(* to AttributesExact.                                                     *)
XmlExact ==
    LET plain == \A i \in 1..Len(doc) : /\ doc[i].k \notin {"empty", "cut"}
                                        /\ \A a \in ToSet(doc[i].attrs) : Len(a.prefix) <= Len(a.value) + 1
    IN \A parsed \in {ParseXmlDoc(doc)}, read \in {Documents(doc)} :
          /\ (parsed = {}) = (read = {})
          /\ plain => parsed = read
          /\ tree # {} /\ plain => tree = parsed

(* Every attribute is read as it was written.  VIOLATED: the size given to *)
(* jf_string_parseAdv excludes the offset of the name, the "=" after a     *)
(* long prefix is not found.                                               *)
AttributesExact ==
    (\A i \in 1..Len(doc) : doc[i].k # "empty") => ParseXmlDoc(doc) = Documents(doc)

(* An empty tag has no content.  VIOLATED: the bogus end tag leaves it the *)
(* character after the tag.                                                *)
EmptyHasNoContent == ParseXmlDoc(doc) = Documents(doc)
=============================================================================
