------------------------------- MODULE Ptree -------------------------------
(***************************************************************************)
(* The property tree, jf_ptree.c: nodes linked by parent, first child and  *)
(* sibling pointers, found by dotted keys.  A key is a sequence of fields, *)
(* a field an optional name space prefix ("" when absent) and a name.  The *)
(* node pool Ids is the memory: an operation fails when it is exhausted.   *)
(***************************************************************************)
EXTENDS Integers, Sequences, FiniteSets, SequencesExt

CONSTANTS
    Ids,            \* node addresses, positive integers
    Keys,           \* keys the application uses
    Values,         \* node values, NoValue excluded
    NoValue,
    AttrNames,      \* [prefix, name] of attributes
    MaxAttrCalls,   \* bound: calls that work on attributes
    MaxAttrNodes,   \* bound: nodes of a tree with attributes
    AttrValues,     \* attribute values
    Leaves          \* the leaves, in traversal order, of trees to merge from

VARIABLES
    mem,            \* allocated nodes
    root,           \* ip_pipnRoot
    text,           \* address -> attribute value, of the strings not freed
    declared,       \* ipn_jhNameSpace: id -> prefix -> address of a declared value
    built,          \* id -> prefix -> the value declared when the table was built
    changed,        \* <<id, prefix>> whose declaration got another value since
    last,           \* the latest replaceNode: its key, its value and whether it succeeded
    side,           \* whether this behaviour uses values or attributes
    stored,         \* the largest number of nodes findNode wrote into its one result
    calls           \* calls that worked on attributes

attrVars == <<text, declared, built, changed>>
ptreeVars == <<mem, root, attrVars, last, side, stored, calls>>

NULL == 0
Unwritten == -1     \* what lookupNamespace was called with
Freed == -2         \* a pointer to a string that was freed
Xmlns == "xmlns"

-----------------------------------------------------------------------------
Siblings(m, n) ==
    LET RECURSIVE From(_)
        From(k) == IF k = NULL THEN <<>> ELSE <<k>> \o From(m[k].sibling)
    IN  From(n)

Path(m, n) ==
    LET RECURSIVE Up(_)
        Up(k) == IF k = NULL THEN <<>> ELSE Append(Up(m[k].parent), k)
    IN  Up(n)

(***************************************************************************)
(* _traversePtree with the callback of findAllNode, _matchPtreeNode.  The  *)
(* key is compared with the node names alone.  A result other than no      *)
(* error ends the loop over the siblings, but the result of a node that    *)
(* has children is replaced by the one of its children.                    *)
(***************************************************************************)
Matches(m, n, key) ==
    LET path == Path(m, n) IN
    /\ Len(path) = Len(key)
    /\ \A i \in DOMAIN key : key[i].ns = "" /\ key[i].name = m[path[i]].name

RECURSIVE TraverseFind(_, _, _, _, _)
TraverseFind(m, n, key, max, found) ==
    IF n = NULL THEN [found |-> found, stop |-> FALSE]
    ELSE LET hit   == Matches(m, n, key)
             f     == IF hit THEN Append(found, n) ELSE found
             r     == IF m[n].child = NULL
                      THEN [found |-> f, stop |-> hit /\ Len(f) = max]
                      ELSE TraverseFind(m, m[n].child, key, max, f)
         IN  IF r.stop THEN r ELSE TraverseFind(m, m[n].sibling, key, max, r.found)

FindAllNode(m, r, key, max) == TraverseFind(m, r, key, max, <<>>).found

FindNode(m, r, key) ==
    LET found == FindAllNode(m, r, key, 1) IN IF found = <<>> THEN NULL ELSE found[1]

Traverse(m, r) ==
    LET RECURSIVE T(_)
        T(n) == IF n = NULL THEN <<>> ELSE <<n>> \o T(m[n].child) \o T(m[n].sibling)
    IN  T(r)

FindChildNode(m, r, parent, field) ==
    LET list == Siblings(m, IF parent = NULL THEN r ELSE m[parent].child)
        hits == {i \in DOMAIN list : m[list[i]].ns = field.ns /\ m[list[i]].name = field.name}
    IN  IF hits = {} THEN NULL ELSE list[CHOOSE i \in hits : \A j \in hits : i <= j]

-----------------------------------------------------------------------------
(***************************************************************************)
(* Operations on the tree t = [mem, root, ok].                             *)
(***************************************************************************)
NewNode(field, value, parent) ==
    [ns |-> field.ns, name |-> field.name, value |-> value, parent |-> parent,
     child |-> NULL, sibling |-> NULL, attrs |-> <<>>]

AddSibling(m, n, new) == LET s == Siblings(m, n) IN [m EXCEPT ![s[Len(s)]].sibling = new]

AddChildNode(t, parent, field, value) ==
    IF Ids \ DOMAIN t.mem = {} THEN [t EXCEPT !.ok = FALSE, !.node = NULL]
    ELSE LET n == CHOOSE i \in Ids \ DOMAIN t.mem : \A j \in Ids \ DOMAIN t.mem : i <= j
             m == [i \in DOMAIN t.mem \cup {n} |->
                     IF i = n THEN NewNode(field, value, parent) ELSE t.mem[i]]
         IN  [ok |-> TRUE, node |-> n,
              root |-> IF parent = NULL /\ t.root = NULL THEN n ELSE t.root,
              mem |-> IF parent # NULL
                      THEN IF m[parent].child = NULL THEN [m EXCEPT ![parent].child = n]
                           ELSE AddSibling(m, m[parent].child, n)
                      ELSE IF t.root = NULL THEN m ELSE AddSibling(m, t.root, n)]

\* _addPtreeNode: inner fields are found or created, the last one is always created.
RECURSIVE AddPtreeNode(_, _, _, _)
AddPtreeNode(t, parent, key, value) ==
    IF Len(key) = 1 THEN AddChildNode(t, parent, key[1], value)
    ELSE LET child == FindChildNode(t.mem, t.root, parent, key[1])
             a     == IF child = NULL THEN AddChildNode(t, parent, key[1], NoValue)
                      ELSE [t EXCEPT !.node = child]
         IN  IF a.ok THEN AddPtreeNode(a, a.node, Tail(key), value) ELSE a

ChangeNodeValue(t, n, value) == [t EXCEPT !.mem[n].value = IF value = NoValue THEN @ ELSE value]

ReplaceInTree(t, key, value) ==
    LET n == FindNode(t.mem, t.root, key) IN
    IF n # NULL THEN ChangeNodeValue(t, n, value) ELSE AddPtreeNode(t, NULL, key, value)

Tree == [mem |-> mem, root |-> root, ok |-> TRUE, node |-> NULL]
SetTree(t) == mem' = t.mem /\ root' = t.root

NoReplace == [key |-> <<>>, value |-> NoValue, ok |-> FALSE]

Larger(a, b) == IF a > b THEN a ELSE b

ReplaceNode(key, value) ==
    LET t == ReplaceInTree(Tree, key, value) IN
    /\ SetTree(t)
    /\ last' = [key |-> key, value |-> value, ok |-> t.ok]
    /\ stored' = Larger(stored, Len(FindAllNode(mem, root, key, 1)))
    /\ UNCHANGED attrVars

AppendChild(parent, field, value) ==
    /\ SetTree(AddChildNode(Tree, parent, field, value))
    /\ last' = NoReplace
    /\ UNCHANGED <<attrVars, stored>>

SetNodeValue(n, value) ==
    /\ SetTree(ChangeNodeValue(Tree, n, value))
    /\ last' = NoReplace
    /\ UNCHANGED <<attrVars, stored>>

\* The subtree of a node, freed by _destroyPtreeNodeList with the node.
SubTree(m, n) == {n} \cup ToSet(Traverse(m, m[n].child))

\* Mutant: the deletion forgets the siblings of a first child.
UnlinkTail(m, n) ==
    LET p == m[n].parent IN
    IF m[p].child = n THEN [m EXCEPT ![p].child = NULL]
    ELSE [m EXCEPT ![CHOOSE k \in DOMAIN m : m[k].sibling = n].sibling = m[n].sibling]

Unlink(m, n) ==
    LET p == m[n].parent IN
    IF m[p].child = n THEN [m EXCEPT ![p].child = m[n].sibling]
    ELSE [m EXCEPT ![CHOOSE k \in DOMAIN m : m[k].sibling = n].sibling = m[n].sibling]

\* The addresses of strings in attributes and tables; a string that none of them has
\* is freed or leaked, and left out of the model either way.
Cells(m, d) ==
    {NULL} \cup UNION {{x.cell : x \in ToSet(m[n].attrs)} : n \in DOMAIN m}
    \cup UNION {{d[n][k] : k \in DOMAIN d[n]} : n \in DOMAIN d}
Strings(tx, m, d) == [c \in DOMAIN tx \cap Cells(m, d) |-> tx[c]]

\* A node without parent is refused, the root and its siblings are never deleted.
DeleteNode(n) ==
    /\ IF mem[n].parent = NULL THEN UNCHANGED <<mem, attrVars>>
       ELSE LET u == Unlink(mem, n)
                gone == SubTree(mem, n)
            IN  /\ mem' = [k \in DOMAIN mem \ gone |-> u[k]]
                /\ declared' = [k \in DOMAIN declared \ gone |-> declared[k]]
                /\ built' = [k \in DOMAIN built \ gone |-> built[k]]
                /\ changed' = {c \in changed : c[1] \notin gone}
                /\ text' = Strings(text, mem', declared')
    /\ last' = NoReplace
    /\ UNCHANGED <<root, stored>>

\* jf_ptree_merge: every leaf of the source replaces the node of its full name.
RECURSIVE MergeLeaves(_, _)
MergeLeaves(t, leaves) ==
    IF leaves = <<>> \/ ~ t.ok THEN t
    ELSE MergeLeaves(ReplaceInTree(t, leaves[1].key, leaves[1].value), Tail(leaves))

Merge(leaves) ==
    LET t == MergeLeaves(Tree, leaves)
        l == leaves[Len(leaves)]
    IN  /\ SetTree(t)
        /\ last' = [key |-> l.key, value |-> l.value, ok |-> t.ok]
        /\ UNCHANGED <<attrVars, stored>>

DestroyPtree ==
    /\ mem' = <<>> /\ root' = NULL
    /\ declared' = <<>> /\ built' = <<>> /\ changed' = {} /\ text' = <<>>
    /\ last' = NoReplace
    /\ UNCHANGED stored

-----------------------------------------------------------------------------
(***************************************************************************)
(* Attributes, and the name space table built from them.  The table of a   *)
(* node maps the prefix a declaration introduces, or "xmlns" for the       *)
(* default, to the address of the value.  Changing a value frees the       *)
(* string and allocates another, if there is memory; a deleted attribute   *)
(* is taken off its list but not freed.                                    *)
(***************************************************************************)
NewString(n, a, value, at) ==
    LET c == CHOOSE c \in 1..(Cardinality(Cells(mem, declared)) + 1) : c \notin Cells(mem, declared)
        all == [k \in DOMAIN text \cup {c} |-> IF k = c THEN value ELSE text[k]]
    IN  /\ mem' = [mem EXCEPT ![n].attrs =
                     IF at > Len(@) THEN Append(@, [id |-> a, cell |-> c])
                     ELSE [@ EXCEPT ![at].cell = c]]
        /\ text' = Strings([k \in DOMAIN all \ {IF at > Len(mem[n].attrs) THEN NULL
                                                ELSE mem[n].attrs[at].cell} |-> all[k]],
                           mem', declared)

AddNodeAttribute(n, a, value) ==
    LET hits == {i \in DOMAIN mem[n].attrs : mem[n].attrs[i].id = a} IN
    /\ \/ hits = {} /\ NewString(n, a, value, Len(mem[n].attrs) + 1) /\ UNCHANGED changed
       \/ \E i \in hits :
            /\ changed' = changed \cup {<<n, a.name>>}
            /\ \/ NewString(n, a, value, i)
               \/ /\ mem' = [mem EXCEPT ![n].attrs[i].cell = NULL]
                  /\ text' = [k \in DOMAIN text \ {mem[n].attrs[i].cell} |-> text[k]]
    /\ last' = NoReplace
    /\ UNCHANGED <<root, declared, built, stored>>

DeleteNodeAttribute(n, a) ==
    /\ mem' = [mem EXCEPT ![n].attrs = SelectSeq(@, LAMBDA x : x.id # a)]
    /\ text' = Strings(text, mem', declared)
    /\ last' = NoReplace
    /\ UNCHANGED <<root, declared, built, changed, stored>>

Declares(a) == a.id.name = Xmlns \/ a.id.prefix = Xmlns
DeclaredBy(attrs) == {attrs[i].id.name : i \in {j \in DOMAIN attrs : Declares(attrs[j])}}

\* _buildXmlNamespaceTable only adds: what an earlier call put there stays.
NamespaceTable(old, attrs) ==
    LET decl == {i \in DOMAIN attrs : Declares(attrs[i])} IN
    [k \in DOMAIN old \cup DeclaredBy(attrs) |->
       IF k \in DeclaredBy(attrs)
       THEN attrs[CHOOSE i \in decl : attrs[i].id.name = k
                    /\ \A j \in decl : attrs[j].id.name = k => j <= i].cell
       ELSE old[k]]

TableOf(d, n) == IF n \in DOMAIN d THEN d[n] ELSE <<>>

BuildNamespaceTable ==
    /\ declared' = [n \in DOMAIN mem |-> NamespaceTable(TableOf(declared, n), mem[n].attrs)]
    /\ built' = [n \in DOMAIN mem |->
         [k \in DOMAIN declared'[n] |->
            IF k \notin DeclaredBy(mem[n].attrs) THEN built[n][k]
            ELSE IF declared'[n][k] = NULL THEN NULL ELSE text[declared'[n][k]]]]
    /\ changed' = {c \in changed : c[2] \notin DeclaredBy(mem[c[1]].attrs)}
    /\ text' = Strings(text, mem, declared')
    /\ last' = NoReplace
    /\ UNCHANGED <<mem, root, stored>>

\* The result is written only when a table has the prefix.
LookupNamespace(n, prefix) ==
    LET Read(c) == IF c = NULL THEN NULL ELSE IF c \in DOMAIN text THEN text[c] ELSE Freed
        RECURSIVE Up(_)
        Up(k) == IF prefix \in DOMAIN TableOf(declared, k) THEN Read(declared[k][prefix])
                 ELSE IF mem[k].parent = NULL THEN Unwritten
                 ELSE Up(mem[k].parent)
    IN  Up(n)

FullName(n) == [i \in DOMAIN Path(mem, n) |->
                  [ns |-> mem[Path(mem, n)[i]].ns, name |-> mem[Path(mem, n)[i]].name]]

-----------------------------------------------------------------------------
PtreeInit ==
    /\ mem = <<>> /\ root = NULL /\ stored = 0 /\ calls = 0
    /\ text = <<>> /\ declared = <<>> /\ built = <<>> /\ changed = {}
    /\ last = NoReplace /\ side \in {"values", "attributes"}

Fields == UNION {ToSet(k) : k \in Keys}

\* No function reads both the value or name and the attributes of a node.
PtreeNext ==
    /\ \/ /\ side = "values" /\ UNCHANGED calls
          /\ \/ \E k \in Keys, v \in Values : ReplaceNode(k, v)
             \/ \E n \in DOMAIN mem, v \in Values : SetNodeValue(n, v)
             \/ \E l \in Leaves : Merge(l)
       \/ /\ side = "attributes"
          /\ calls < MaxAttrCalls /\ calls' = calls + 1
          /\ \/ \E n \in DOMAIN mem, a \in AttrNames, v \in AttrValues : AddNodeAttribute(n, a, v)
             \/ \E n \in DOMAIN mem, a \in AttrNames : DeleteNodeAttribute(n, a)
             \/ BuildNamespaceTable
       \/ \E n \in DOMAIN mem \cup {NULL}, f \in Fields :
            /\ side = "attributes" =>
                 f = (CHOOSE g \in Fields : TRUE) /\ Cardinality(DOMAIN mem) < MaxAttrNodes
            /\ AppendChild(n, f, NoValue) /\ UNCHANGED calls
       \/ \E n \in DOMAIN mem : DeleteNode(n) /\ UNCHANGED calls
       \/ DestroyPtree /\ UNCHANGED calls
    /\ UNCHANGED side

PtreeSpec == PtreeInit /\ [][PtreeNext]_ptreeVars

-----------------------------------------------------------------------------
(***************************************************************************)
(* After any calls every allocated node is met exactly once by the         *)
(* traversal from the root, and its parent pointer names the node whose    *)
(* child list it is on: nothing is lost, freed twice or linked twice.      *)
(***************************************************************************)
PtreeShape ==
    LET all == Traverse(mem, root) IN
    /\ ToSet(all) = DOMAIN mem /\ Len(all) = Cardinality(DOMAIN mem)
    /\ \A n \in DOMAIN mem :
         LET p == mem[n].parent IN
         n \in ToSet(Siblings(mem, IF p = NULL THEN root ELSE mem[p].child))

(***************************************************************************)
(* A value set under a key without name space is the one findNode returns, *)
(* whether the node was there before or not and also after a merge; and a  *)
(* prefix resolves to the declaration of the nearest node that had one     *)
(* when its table was built, unless the value of that declaration has been *)
(* changed since; nothing is written when no node above declares it.       *)
(***************************************************************************)
PtreeLookups ==
    /\ last.ok /\ (\A i \in DOMAIN last.key : last.key[i].ns = "") =>
         LET n == FindNode(mem, root, last.key) IN
         /\ n # NULL /\ mem[n].value = last.value
         /\ [i \in DOMAIN last.key |-> last.key[i].name] = [i \in DOMAIN FullName(n) |-> FullName(n)[i].name]
    /\ \A n \in DOMAIN mem, a \in AttrNames :
         LET path  == Path(mem, n)
             above == {i \in DOMAIN path : a.name \in DOMAIN TableOf(built, path[i])}
             near  == path[CHOOSE i \in above : \A j \in above : j <= i]
             found == LookupNamespace(n, a.name)
         IN  IF above = {} THEN found = Unwritten
             ELSE \/ found = built[near][a.name]
                  \/ found = Freed /\ <<near, a.name>> \in changed

(***************************************************************************)
(* jf_ptree.h, of jf_ptree_lookupNamespace: "The resolved namespace, NULL  *)
(* if unable to resolve."  Violated twice: a changed value leaves the      *)
(* table with a pointer to the string that was freed, and when no table    *)
(* has the prefix *ppstr is not written.                                   *)
(***************************************************************************)
ResolvedOrNull ==
    \A n \in DOMAIN mem, a \in AttrNames : LookupNamespace(n, a.name) \notin {Freed, Unwritten}

(***************************************************************************)
(* "The iteration will stop if the return code is not JF_ERR_NO_ERROR."    *)
(* findNode asks for one node; the traversal ends with the node that       *)
(* filled the result.  It does not when that node has children.            *)
(***************************************************************************)
TraverseStops == stored <= 1

============================================================================
