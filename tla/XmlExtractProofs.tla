-------------------------- MODULE XmlExtractProofs --------------------------
(***************************************************************************)
(* What the readers of XmlExtract return, for documents of every size.     *)
(***************************************************************************)
EXTENDS XmlExtract, FiniteSetTheorems, SequenceTheorems, TLAPS

-----------------------------------------------------------------------------
(* Sequences.                                                              *)

\* What is put before a list.
LEMMA Pushed ==
  ASSUME NEW S, NEW s \in Seq(S), NEW e \in S
  PROVE  /\ <<e>> \o s \in Seq(S) /\ Len(<<e>> \o s) = Len(s) + 1
         /\ (<<e>> \o s)[1] = e
         /\ \A k \in 2..(Len(s) + 1) : (<<e>> \o s)[k] = s[k - 1]
<1>1. <<e>> \in Seq(S) /\ Len(<<e>>) = 1 /\ <<e>>[1] = e
  OBVIOUS
<1>. QED
  BY <1>1, ConcatProperties

\* What is put behind one.
LEMMA Appended ==
  ASSUME NEW S, NEW s \in Seq(S), NEW e \in S
  PROVE  /\ Append(s, e) \in Seq(S) /\ Len(Append(s, e)) = Len(s) + 1
         /\ Append(s, e)[Len(s) + 1] = e
         /\ \A k \in 1..Len(s) : Append(s, e)[k] = s[k]
OBVIOUS

\* What takes the place of an element.
LEMMA Replaced ==
  ASSUME NEW S, NEW s \in Seq(S), NEW k \in DOMAIN s, NEW e \in S
  PROVE  /\ [s EXCEPT ![k] = e] \in Seq(S)
         /\ DOMAIN [s EXCEPT ![k] = e] = DOMAIN s /\ Len([s EXCEPT ![k] = e]) = Len(s)
         /\ [s EXCEPT ![k] = e][k] = e
         /\ \A j \in DOMAIN s : j # k => [s EXCEPT ![k] = e][j] = s[j]
OBVIOUS

-----------------------------------------------------------------------------
(* The types.                                                              *)

Readers == Searches \cup {"applist", "modelist"}
Pieces  == Nat \ {0, 1}
Tags(r)   == {"root"} \cup Names(r)
Entry(r)  == [Fields(r) -> Seq(Nat)]
Wording(r) == [Fields(r) -> Seq(Pieces)]

\* Inside an element that is wanted there is a block to write to, or there
\* will be one at the first text.
Held == memory = NULL => reader = "required" \/ (reader \notin Searches /\ start = 0)

QueryOK ==
  /\ start \in Nat /\ heap \in Seq(Seq(Nat)) /\ data \in Seq(Entry(reader))
  /\ memory = NULL \/ memory \in DOMAIN heap
  /\ Held

TypeOK ==
  /\ reader \in Readers /\ phase \in {"parsing", "GS_OK", "GS_INVALID"}
  /\ texts \in Nat /\ QueryOK
  /\ open \in Seq(Tags(reader)) /\ (phase = "parsing" => open # <<>>)
  /\ reader \in Searches => ref \in Seq(Pieces)
  /\ reader \notin Searches => ref \in Seq(Wording(reader))
  /\ plain \in BOOLEAN /\ endsWithTitle \in BOOLEAN

\* The elements and the fields the four readers look for.
LEMMA ReaderNames ==
  /\ \A r \in Searches : Item(r) = "node" /\ Fields(r) = {}
  /\ Item("applist") = "App" /\ Fields("applist") = {"ID", "AppTitle", "IsHdrSupported"}
  /\ Item("modelist") = "DisplayMode" /\ Fields("modelist") = {"Width", "Height", "RefreshRate"}
  /\ "applist" \notin Searches /\ "modelist" \notin Searches
  /\ \A r \in Readers : Item(r) \notin Fields(r) /\ "root" \notin Fields(r) \cup {Item(r)}
<1>1. "applist" \notin Searches /\ "modelist" \notin Searches /\ "applist" # "modelist"
  BY DEF Searches
<1>2. \A r \in Searches : Item(r) = "node" /\ Fields(r) = {}
  BY <1>1 DEF Item, Fields
<1>3. Item("applist") = "App" /\ Fields("applist") = {"ID", "AppTitle", "IsHdrSupported"}
  BY <1>1 DEF Item, Fields
<1>4. Item("modelist") = "DisplayMode" /\ Fields("modelist") = {"Width", "Height", "RefreshRate"}
  BY <1>1 DEF Item, Fields
<1>5. \A r \in Readers : Item(r) \notin Fields(r) /\ "root" \notin Fields(r) \cup {Item(r)}
  BY <1>2, <1>3, <1>4 DEF Readers
<1>. QED
  BY <1>1, <1>2, <1>3, <1>4, <1>5

\* The element one is in.
LEMMA Nesting ==
  ASSUME open \in Seq(Tags(reader)), open # <<>>
  PROVE  /\ Len(open) \in Nat \ {0} /\ Innermost \in Tags(reader)
         /\ Outer \in Seq(Tags(reader)) /\ Len(Outer) = Len(open) - 1
         /\ \A k \in 1..(Len(open) - 1) : Outer[k] = open[k]
<1>1. Len(open) \in Nat \ {0} /\ Innermost \in Tags(reader)
  BY DEF Innermost
<1>2. Len(open) - 1 \in Int /\ \A k \in 1..(Len(open) - 1) : open[k] \in Tags(reader)
  BY <1>1
<1>3. /\ Outer \in Seq(Tags(reader)) /\ Len(Outer) = Len(open) - 1
      /\ \A k \in 1..(Len(open) - 1) : Outer[k] = open[k]
  <2> DEFINE n == Len(open) - 1
  <2>1. n \in Int /\ 1 \in Int /\ (\A k \in 1..n : open[k] \in Tags(reader)) /\ n \in Nat
    BY <1>1, <1>2
  <2>2. Outer = SubSeq(open, 1, n)
    BY DEF Outer
  <2> HIDE DEF n
  <2>3. /\ Outer \in Seq(Tags(reader)) /\ Len(Outer) = IF 1 <= n THEN n - 1 + 1 ELSE 0
        /\ \A k \in 1..(n - 1 + 1) : Outer[k] = open[1 + k - 1]
    <3> HIDE DEF Outer
    <3>1. SUFFICES /\ SubSeq(open, 1, n) \in Seq(Tags(reader))
                   /\ Len(SubSeq(open, 1, n)) = IF 1 <= n THEN n - 1 + 1 ELSE 0
                   /\ \A k \in 1..(n - 1 + 1) : SubSeq(open, 1, n)[k] = open[1 + k - 1]
      BY <2>2
    <3>. QED
      BY <2>1, SubSeqProperties
  <2>4. Len(Outer) = n /\ n \in Nat
    <3> HIDE DEF Outer
    <3>. QED
      BY <2>1, <2>3
  <2>5. ASSUME NEW k \in 1..n
        PROVE  Outer[k] = open[k]
    <3>1. k \in 1..(n - 1 + 1) /\ 1 + k - 1 = k
      BY <2>4
    <3>. QED
      BY <2>3, <3>1
  <2>. QED
    BY <2>3, <2>4, <2>5 DEF n
<1>. QED
  BY <1>1, <1>3

\* An entry with a field filled in.
LEMMA FieldSet ==
  ASSUME NEW F, NEW S, NEW list \in Seq([F -> Seq(S)]), list # <<>>, NEW f \in F,
         NEW v \in Seq(S), NEW after, after = [list EXCEPT ![1][f] = v]
  PROVE  /\ after \in Seq([F -> Seq(S)]) /\ Len(after) = Len(list) /\ DOMAIN after = DOMAIN list
         /\ after[1][f] = v
         /\ \A k \in DOMAIN list, g \in F : ~(k = 1 /\ g = f) => after[k][g] = list[k][g]
<1> DEFINE e == [list[1] EXCEPT ![f] = v]
<1>1. 1 \in DOMAIN list /\ list[1] \in [F -> Seq(S)]
  OBVIOUS
<1>2. e \in [F -> Seq(S)] /\ e[f] = v /\ \A g \in F : g # f => e[g] = list[1][g]
  BY <1>1
<1>3. after = [list EXCEPT ![1] = e]
  OBVIOUS
<1> HIDE DEF e
<1>. QED
  BY <1>1, <1>2, <1>3, Replaced

\* How many of the open elements are nodes.
Nodes == {k \in DOMAIN open : open[k] = "node"}

Counted == phase = "parsing" /\ reader \in Searches => start = Cardinality(Nodes)

\* Their number is a natural number.
LEMMA NodesFinite ==
  ASSUME open \in Seq(Tags(reader))
  PROVE  IsFiniteSet(Nodes) /\ Cardinality(Nodes) \in Nat
<1>1. IsFiniteSet(1..Len(open)) /\ Nodes \subseteq 1..Len(open)
  BY FS_Interval DEF Nodes
<1>. QED
  BY <1>1, FS_Subset, FS_CardinalityType

\* One more at the start tag of a node.
LEMMA NodesAtStart ==
  ASSUME open \in Seq(Tags(reader)), NEW name \in Tags(reader), open' = Append(open, name)
  PROVE  Cardinality(Nodes)' = Cardinality(Nodes) + (IF name = "node" THEN 1 ELSE 0)
<1>1. Nodes' = IF name = "node" THEN Nodes \cup {Len(open) + 1} ELSE Nodes
  BY DEF Nodes
<1>2. Len(open) + 1 \notin Nodes
  BY DEF Nodes
<1>3. CASE name = "node"
  <2>1. Cardinality(Nodes \cup {Len(open) + 1}) = Cardinality(Nodes) + 1
    BY <1>2, NodesFinite, FS_AddElement
  <2>. QED
    BY <1>1, <1>3, <2>1
<1>4. CASE name # "node"
  BY <1>1, <1>4, NodesFinite
<1>. QED
  BY <1>3, <1>4

\* One less at its end tag; when there are none, one is not within a node.
LEMMA NodesAtEnd ==
  ASSUME open \in Seq(Tags(reader)), open # <<>>
  PROVE  /\ open' = Outer =>
              /\ Cardinality(Nodes)' = Cardinality(Nodes) - (IF Innermost = "node" THEN 1 ELSE 0)
              /\ Cardinality(Nodes)' \in Nat
         /\ Encloses("node") <=> Cardinality(Nodes) > 0
<1>1. Encloses("node") <=> Nodes # {}
  BY DEF Encloses, Nodes
<1>2. Encloses("node") <=> Cardinality(Nodes) > 0
  BY <1>1, NodesFinite, FS_EmptySet
<1>3. ASSUME open' = Outer
      PROVE  /\ Cardinality(Nodes)' = Cardinality(Nodes) - (IF Innermost = "node" THEN 1 ELSE 0)
             /\ Cardinality(Nodes)' \in Nat
  <2>1. /\ Len(open) \in Nat \ {0} /\ open' \in Seq(Tags(reader)) /\ Len(open') = Len(open) - 1
        /\ \A k \in 1..(Len(open) - 1) : open'[k] = open[k]
    BY <1>3, Nesting
  <2>2. Nodes' = Nodes \ {Len(open)} /\ (Len(open) \in Nodes <=> Innermost = "node")
    BY <2>1 DEF Nodes, Innermost
  <2>3. IsFiniteSet(Nodes') /\ Cardinality(Nodes') \in Nat
    BY <2>2, NodesFinite, FS_RemoveElement, FS_CardinalityType
  <2>. QED
    BY <2>2, <2>3, NodesFinite, FS_RemoveElement
<1>. QED
  BY <1>2, <1>3

\* The types hold before the document is read.
LEMMA TypeInit == XmlInit => TypeOK
<1> SUFFICES ASSUME XmlInit PROVE TypeOK
  OBVIOUS
<1>1. heap \in Seq(Seq(Nat)) /\ (memory = NULL \/ memory \in DOMAIN heap)
  <2>1. CASE reader = "search"
    <3>1. heap = <<<<>>>> /\ memory = 1 /\ <<>> \in Seq(Nat)
      BY <2>1 DEF XmlInit
    <3>. QED
      BY <3>1
  <2>2. CASE reader # "search"
    BY <2>2 DEF XmlInit
  <2>. QED
    BY <2>1, <2>2
<1>3. Held
  BY DEF XmlInit, NULL, Held, Searches
<1>4. data \in Seq(Entry(reader)) /\ start \in Nat /\ ref = <<>>
  BY DEF XmlInit
<1>2. open \in Seq(Tags(reader)) /\ open # <<>>
  <2>1. open = <<"root">> /\ "root" \in Tags(reader)
    BY DEF XmlInit, Tags
  <2>. QED
    BY <2>1
<1>5. QueryOK
  BY <1>1, <1>3, <1>4 DEF QueryOK
<1>6. plain \in BOOLEAN /\ endsWithTitle \in BOOLEAN
  BY DEF XmlInit
<1>. QED
  BY <1>2, <1>4, <1>5, <1>6 DEF XmlInit, TypeOK, Readers

\* A start tag keeps them.
LEMMA StartTagTypes ==
  ASSUME TypeOK, NEW name \in Names(reader), StartTag(name)
  PROVE  TypeOK'
<1>1. Empty(reader) \in Entry(reader) /\ Empty(reader) \in Wording(reader)
  BY DEF Empty, Entry, Wording
<1>2. open' \in Seq(Tags(reader)) /\ open' # <<>>
  <2>1. open' = Append(open, name) /\ open \in Seq(Tags(reader)) /\ name \in Tags(reader)
    BY DEF StartTag, TypeOK, Tags
  <2>. QED
    BY <2>1, Appended
<1>5. reader' = reader /\ reader \in Readers /\ QueryOK
  BY DEF StartTag, TypeOK
<1>3. QueryOK'
  <2>1. CASE StartItem(name)
    <3>1. UNCHANGED <<heap, memory>>
      BY <2>1 DEF StartItem
    <3>2. data' \in Seq(Entry(reader)) /\ start' \in Nat /\ (reader \notin Searches => start' = start)
      <4>1. CASE reader \in Searches
        BY <2>1, <4>1, <1>5 DEF StartItem, QueryOK
      <4>2. CASE reader \notin Searches
        <5>1. data' = <<Empty(reader)>> \o data /\ start' = start
          BY <2>1, <4>2 DEF StartItem
        <5>. QED
          BY <4>2, <5>1, <1>1, <1>5, Pushed DEF QueryOK
      <4>. QED
        BY <4>1, <4>2
    <3>. QED
      BY <3>1, <3>2, <1>5 DEF QueryOK, Held
  <2>2. CASE StartField(name)
    <3>1. Junk \in Seq(Nat)
      BY DEF Junk
    <3>2. heap' \in Seq(Seq(Nat)) /\ memory' \in DOMAIN heap'
      BY <2>2, <3>1, Appended DEF StartField, TypeOK, QueryOK
    <3>. QED
      BY <2>2, <3>2, <1>5 DEF StartField, QueryOK, Held, NULL
  <2>3. CASE StartOther(name)
    BY <2>3, <1>5 DEF StartOther, QueryOK, Held, query
  <2>. QED
    BY <2>1, <2>2, <2>3 DEF StartTag
<1>4. /\ reader \in Searches => ref' \in Seq(Pieces)
      /\ reader \notin Searches => ref' \in Seq(Wording(reader))
  <2>1. CASE reader \in Searches
    <3>1. ref' = ref
      BY <2>1, ReaderNames DEF StartTag
    <3>. QED
      BY <2>1, <3>1, <1>5 DEF TypeOK
  <2>2. CASE reader \notin Searches /\ name = Item(reader)
    <3>1. ref' = <<Empty(reader)>> \o ref
      BY <2>2, <1>5, ReaderNames DEF StartTag
    <3>. QED
      BY <2>2, <3>1, <1>1, <1>5, Pushed DEF TypeOK
  <2>3. CASE reader \notin Searches /\ name # Item(reader) /\ name \in Fields(reader) /\ ref # <<>>
    <3>1. ref' = [ref EXCEPT ![1][name] = <<>>]
      BY <2>3 DEF StartTag
    <3>2. <<>> \in Seq(Pieces) /\ ref \in Seq([Fields(reader) -> Seq(Pieces)])
      BY <2>3 DEF TypeOK, Wording
    <3>. QED
      BY <2>3, <3>1, <3>2, FieldSet DEF Wording
  <2>4. CASE reader \notin Searches /\ name # Item(reader) /\ ~(name \in Fields(reader) /\ ref # <<>>)
    <3>1. ref' = ref
      BY <2>4 DEF StartTag
    <3>. QED
      BY <2>4, <3>1 DEF TypeOK
  <2>. QED
    BY <2>1, <2>2, <2>3, <2>4
<1>6. plain' \in BOOLEAN
  BY DEF StartTag
<1>. QED
  BY <1>2, <1>3, <1>4, <1>5, <1>6 DEF StartTag, TypeOK, QueryOK

\* So does a piece of text.
LEMMA CdataTypes ==
  ASSUME TypeOK, Cdata
  PROVE  TypeOK'
<1>1. Piece \in Pieces /\ Piece \in Nat /\ texts' \in Nat
  <2>1. texts \in Nat /\ texts' = texts + 1
    BY DEF Cdata, TypeOK, QueryOK
  <2>. QED
    BY <2>1 DEF Piece, Pieces
<1>2. heap' \in Seq(Seq(Nat)) /\ (memory' = NULL \/ memory' \in DOMAIN heap')
      /\ (memory' = NULL => memory = NULL)
  <2>1. CASE start > 0 /\ memory = NULL
    <3>1. heap' = Append(heap, <<Piece>>) /\ memory' = Len(heap) + 1 /\ <<Piece>> \in Seq(Nat)
      BY <2>1, <1>1 DEF Cdata, Write
    <3>2. heap \in Seq(Seq(Nat)) /\ Len(heap) \in Nat
      BY DEF TypeOK, QueryOK
    <3>3. heap' \in Seq(Seq(Nat)) /\ memory' \in 1..Len(heap')
      BY <3>1, <3>2, Appended
    <3>. QED
      BY <2>1, <3>3
  <2>2. CASE start > 0 /\ memory # NULL
    <3>1. heap' = [heap EXCEPT ![memory] = TextAfter(heap[memory], Piece)] /\ memory' = memory
      BY <2>2 DEF Cdata, Write
    <3>2. memory \in DOMAIN heap /\ heap[memory] \in Seq(Nat)
      BY <2>2 DEF TypeOK, QueryOK
    <3>3. TextAfter(heap[memory], Piece) \in Seq(Nat)
      BY <3>2, <1>1 DEF TextAfter
    <3>. QED
      BY <3>1, <3>2, <3>3, Replaced DEF TypeOK, QueryOK
  <2>3. CASE ~(start > 0)
    BY <2>3 DEF Cdata, TypeOK, QueryOK
  <2>. QED
    BY <2>1, <2>2, <2>3
<1>3. /\ reader \in Searches => ref' \in Seq(Pieces)
      /\ reader \notin Searches => ref' \in Seq(Wording(reader))
  <2>1. CASE reader \in Searches
    <3>1. reader' = reader /\ (ref' = Append(ref, Piece) \/ ref' = ref) /\ ref \in Seq(Pieces)
      BY <2>1, ReaderNames DEF Cdata, TypeOK
    <3>. QED
      BY <2>1, <3>1, <1>1
  <2>2. CASE reader \notin Searches /\ Innermost \in Fields(reader) /\ ref # <<>>
    <3> DEFINE text == Append(ref[1][Innermost], Piece)
    <3>1. ref \in Seq([Fields(reader) -> Seq(Pieces)])
      BY <2>2 DEF TypeOK, Wording
    <3>2. ref[1] \in [Fields(reader) -> Seq(Pieces)]
      BY <2>2, <3>1
    <3>3. text \in Seq(Pieces)
      BY <2>2, <3>2, <1>1
    <3>4. ref' = [ref EXCEPT ![1][Innermost] = text]
      BY <2>2 DEF Cdata
    <3> HIDE DEF text
    <3>. QED
      BY <2>2, <3>1, <3>3, <3>4, FieldSet DEF Wording
  <2>3. CASE reader \notin Searches /\ ~(Innermost \in Fields(reader) /\ ref # <<>>)
    <3>1. ref' = ref
      BY <2>3 DEF Cdata
    <3>. QED
      BY <2>3, <3>1 DEF TypeOK
  <2>. QED
    BY <2>1, <2>2, <2>3
<1>. QED
  BY <1>1, <1>2, <1>3 DEF Cdata, TypeOK, QueryOK, Held

\* The end tag of an App's field, and of any other element within a field.
LEMMA EndAppCases ==
  ASSUME EndApp, reader = "applist"
  PROVE  \/ (start = 0 \/ data = <<>>) /\ UNCHANGED query
         \/ /\ start # 0 /\ data # <<>> /\ start' = 0
            /\ \/ Innermost = "AppTitle" /\ Stored(<<memory>>) /\ UNCHANGED <<heap, memory>>
               \/ Innermost \in {"ID", "IsHdrSupported"} /\ Stored(heap[memory]) /\ FreeMemory
               \/ Innermost \notin Fields(reader) /\ UNCHANGED <<heap, memory, data>>
BY ReaderNames DEF EndApp, TitleKept

\* The end tag of a field of a mode, and of any other element within a field.
LEMMA EndModeCases ==
  ASSUME EndMode
  PROVE  \/ (start = 0 \/ data = <<>>) /\ UNCHANGED query
         \/ /\ start # 0 /\ data # <<>> /\ start' = 0 /\ FreeMemory
            /\ \/ Innermost \in Fields(reader) /\ Stored(heap[memory])
               \/ Innermost \notin Fields(reader) /\ UNCHANGED data
BY DEF EndMode

\* Freeing the block leaves the others as they are.
LEMMA FreeTypes ==
  ASSUME QueryOK, FreeMemory, memory # NULL
  PROVE  heap' \in Seq(Seq(Nat)) /\ memory' = NULL
<1>1. Freed \in Seq(Nat)
  BY DEF Freed
<1>. QED
  BY <1>1, Replaced DEF FreeMemory, QueryOK

\* A field is filled in with a value of its type.
LEMMA StoredTypes ==
  ASSUME QueryOK, data # <<>>, Innermost \in Fields(reader), reader' = reader,
         NEW v \in Seq(Nat), Stored(v)
  PROVE  (data \in Seq(Entry(reader)))'
BY FieldSet DEF QueryOK, Entry, Stored

\* So does an end tag, for which the counter must be above zero within a node.
LEMMA EndTagTypes ==
  ASSUME TypeOK, Counted, EndTag
  PROVE  TypeOK'
<1>1. open' \in Seq(Tags(reader)) /\ open' # <<>>
  BY Nesting DEF EndTag, TypeOK
<1>2. QueryOK'
  <2>1. CASE reader \in Searches
    <3>1. start' = Cardinality(Nodes) - (IF Innermost = "node" THEN 1 ELSE 0)
      BY <2>1, ReaderNames DEF EndTag, EndSearch, Counted
    <3>2. start' \in Nat
      BY <3>1, NodesAtEnd DEF EndTag, TypeOK
    <3>. QED
      BY <2>1, <3>2, ReaderNames DEF EndTag, TypeOK, QueryOK, Held
  <2>2. CASE reader \notin Searches /\ (start = 0 \/ data = <<>>) /\ UNCHANGED query
    BY <2>2 DEF EndTag, TypeOK, QueryOK, Held, query
  <2>3. CASE reader \notin Searches /\ start # 0 /\ data # <<>> /\ start' = 0
    <3>1. memory # NULL /\ memory \in DOMAIN heap /\ heap[memory] \in Seq(Nat)
      BY <2>3 DEF TypeOK, QueryOK, Held, Searches
    <3>2. <<memory>> \in Seq(Nat)
      BY <3>1 DEF TypeOK, QueryOK
    <3>3. reader' = reader /\ QueryOK
      BY DEF EndTag, TypeOK
    <3>4. (data \in Seq(Entry(reader)))' /\ (FreeMemory \/ UNCHANGED <<heap, memory>>)
      BY <2>3, <3>1, <3>2, <3>3, EndAppCases, EndModeCases, StoredTypes, ReaderNames
      DEF EndTag, query, QueryOK, TypeOK, Readers
    <3>. QED
      BY <2>3, <3>1, <3>3, <3>4, FreeTypes DEF QueryOK, Held
  <2>. QED
    BY <2>1, <2>2, <2>3, EndAppCases, EndModeCases DEF EndTag, TypeOK, Readers
<1>3. plain' \in BOOLEAN /\ endsWithTitle' \in BOOLEAN
  BY DEF EndTag, TypeOK
<1>. QED
  BY <1>1, <1>2, <1>3 DEF EndTag, TypeOK

\* So does the end of the document, or an error in it.
LEMMA EndTypes ==
  ASSUME TypeOK, EndDocument \/ XmlError
  PROVE  TypeOK'
<1>1. Freed \in Seq(Nat)
  BY DEF Freed
<1>2. heap' \in Seq(Seq(Nat)) /\ DOMAIN heap' = DOMAIN heap
  <2>1. heap' = heap \/ (memory # NULL /\ heap' = [heap EXCEPT ![memory] = Freed])
    BY DEF EndDocument, XmlError
  <2>2. heap \in Seq(Seq(Nat)) /\ (memory = NULL \/ memory \in DOMAIN heap)
    BY DEF TypeOK, QueryOK
  <2>3. CASE heap' = heap
    BY <2>2, <2>3
  <2>4. CASE memory # NULL /\ heap' = [heap EXCEPT ![memory] = Freed]
    BY <1>1, <2>2, <2>4, Replaced
  <2>. QED
    BY <2>1, <2>3, <2>4
<1>3. /\ phase' \in {"GS_OK", "GS_INVALID"} /\ open' = <<>>
      /\ UNCHANGED <<reader, texts, memory, start, data, ref, plain, endsWithTitle>>
  BY DEF EndDocument, XmlError
<1>. QED
  BY <1>2, <1>3 DEF TypeOK, QueryOK, Held

\* The counter of xml_search is the number of nodes that are open.
LEMMA NextCounted ==
  ASSUME TypeOK, Counted, XmlNext
  PROVE  Counted'
<1>1. ASSUME NEW name \in Names(reader), StartTag(name), reader \in Searches
      PROVE  Counted'
  <2>1. start' = start + (IF name = "node" THEN 1 ELSE 0)
    BY <1>1, ReaderNames DEF StartTag, StartItem, StartField, StartOther, Wanted, query, TypeOK, QueryOK
  <2>2. open \in Seq(Tags(reader)) /\ name \in Tags(reader) /\ open' = Append(open, name)
    BY <1>1 DEF StartTag, TypeOK, Tags
  <2>3. start = Cardinality(Nodes)
    BY <1>1 DEF Counted, StartTag
  <2>. QED
    BY <2>1, <2>2, <2>3, NodesAtStart DEF Counted
<1>2. CASE Cdata
  BY <1>2 DEF Cdata, Counted, Nodes
<1>3. CASE EndTag /\ reader \in Searches
  <2>1. start' = Cardinality(Nodes) - (IF Innermost = "node" THEN 1 ELSE 0)
    BY <1>3, ReaderNames DEF EndTag, EndSearch, Counted
  <2>. QED
    BY <1>3, <2>1, NodesAtEnd DEF EndTag, TypeOK, Counted
<1>4. CASE EndDocument \/ XmlError
  BY <1>4 DEF EndDocument, XmlError, Counted
<1>5. CASE reader \notin Searches
  <2>1. reader' = reader
    BY DEF XmlNext, StartTag, Cdata, EndTag, EndDocument, XmlError
  <2>. QED
    BY <1>5, <2>1 DEF Counted
<1>. QED
  BY <1>1, <1>2, <1>3, <1>4, <1>5 DEF XmlNext

\* The types and the counter.
THEOREM XmlTypes == XmlSpec => [](TypeOK /\ Counted)
<1>1. XmlInit => Counted
  <2> SUFFICES ASSUME XmlInit PROVE Counted
    OBVIOUS
  <2>1. Nodes = {} /\ start = 0
    BY DEF XmlInit, Nodes
  <2>. QED
    BY <2>1, FS_EmptySet DEF Counted
<1>2. TypeOK /\ Counted /\ [XmlNext]_xmlVars => TypeOK' /\ Counted'
  <2> SUFFICES ASSUME TypeOK, Counted, [XmlNext]_xmlVars PROVE TypeOK' /\ Counted'
    OBVIOUS
  <2>1. CASE XmlNext
    BY <2>1, StartTagTypes, CdataTypes, EndTagTypes, EndTypes, NextCounted DEF XmlNext
  <2>2. CASE UNCHANGED xmlVars
    BY <2>2 DEF xmlVars, document, query, TypeOK, QueryOK, Held, Counted, Nodes
  <2>. QED
    BY <2>1, <2>2
<1>. QED
  BY TypeInit, <1>1, <1>2, PTL DEF XmlSpec

-----------------------------------------------------------------------------
(* xml_search.                                                             *)

\* What has been found so far is in the block; there is none before the first
\* text of what is required.
Taken ==
  reader \in Searches /\ phase # "GS_INVALID" =>
    /\ memory = NULL => ref = <<>> /\ reader = "required" /\ phase = "parsing"
    /\ memory # NULL => heap[memory] = ref /\ (reader = "required" => ref # <<>>)

\* A piece of text is none of the marks.
LEMMA PieceType ==
  ASSUME TypeOK
  PROVE  Piece \in Pieces
<1>1. texts \in Nat
  BY DEF TypeOK
<1>. QED
  BY <1>1 DEF Piece, Pieces

\* A text of the document is no block that nothing was written to.
LEMMA TextIsNoMark ==
  ASSUME NEW text \in Seq(Pieces), NEW piece \in Pieces
  PROVE  /\ text # Junk /\ text # Freed
         /\ Append(text, piece) \in Seq(Pieces) /\ Append(text, piece) # <<>>
         /\ TextAfter(text, piece) = Append(text, piece)
         /\ TextAfter(Junk, piece) = <<piece>> /\ <<piece>> = Append(<<>>, piece)
<1>1. ASSUME NEW n, text = <<n>>
      PROVE  n \in Pieces
  <2>1. Len(text) = 1 /\ text[1] = n
    BY <1>1
  <2>. QED
    BY <2>1
<1>2. text # Junk /\ text # Freed
  BY <1>1 DEF Freed, Junk, Pieces
<1>3. Append(text, piece) \in Seq(Pieces) /\ Append(text, piece) # <<>>
  BY Appended
<1>. QED
  BY <1>2, <1>3 DEF TextAfter

\* A piece of text within a node, and nothing else, is added to the block.
LEMMA CdataTaken ==
  ASSUME TypeOK, Counted, Taken, Cdata
  PROVE  Taken'
<1> SUFFICES ASSUME reader \in Searches
             PROVE  Taken'
  BY DEF Taken, Cdata
<1>1. /\ phase = "parsing" /\ UNCHANGED <<reader, phase>>
      /\ start > 0 => Write(Piece)
      /\ ~(start > 0) => UNCHANGED <<heap, memory>>
      /\ ref' = IF Encloses("node") THEN Append(ref, Piece) ELSE ref
  BY ReaderNames DEF Cdata
<1>2. Encloses("node") <=> start > 0
  BY <1>1, NodesAtEnd DEF TypeOK, Counted
<1>3. Piece \in Pieces
  BY PieceType
<1>4. /\ ref \in Seq(Pieces) /\ heap \in Seq(Seq(Nat)) /\ (memory = NULL \/ memory \in DOMAIN heap)
  BY DEF TypeOK, QueryOK
<1>5. CASE start > 0 /\ memory = NULL
  <2>1. /\ ref = <<>> /\ ref' = Append(ref, Piece) /\ reader = "required"
        /\ heap' = Append(heap, <<Piece>>) /\ memory' = Len(heap) + 1
    BY <1>1, <1>2, <1>5 DEF Taken, Write
  <2>2. <<Piece>> \in Seq(Nat) /\ ref' = <<Piece>> /\ ref' # <<>>
    BY <2>1, <1>3 DEF Pieces
  <2>3. heap'[memory'] = <<Piece>> /\ memory' # NULL
    BY <2>1, <2>2, <1>4, Appended DEF NULL
  <2>. QED
    BY <2>2, <2>3 DEF Taken
<1>6. CASE start > 0 /\ memory # NULL
  <2>1. /\ heap[memory] = ref /\ ref' = Append(ref, Piece)
        /\ heap' = [heap EXCEPT ![memory] = TextAfter(ref, Piece)] /\ memory' = memory
    BY <1>1, <1>2, <1>6 DEF Taken, Write
  <2>2. TextAfter(ref, Piece) = ref' /\ ref' # <<>>
    BY <2>1, <1>3, <1>4, TextIsNoMark
  <2>3. heap'[memory'] = ref'
    BY <2>1, <2>2, <1>4, <1>6
  <2>. QED
    BY <2>1, <2>2, <2>3, <1>6 DEF Taken
<1>7. CASE ~(start > 0)
  BY <1>1, <1>2, <1>7 DEF Taken
<1>. QED
  BY <1>5, <1>6, <1>7

\* Every step keeps what has been found so far.
LEMMA NextTaken ==
  ASSUME TypeOK, Counted, Taken, [XmlNext]_xmlVars
  PROVE  Taken'
<1>1. ASSUME NEW name \in Names(reader), StartTag(name)
      PROVE  Taken'
  <2>1. /\ UNCHANGED <<reader, phase>>
        /\ reader \in Searches => ref' = ref /\ UNCHANGED <<heap, memory>>
    BY <1>1, ReaderNames DEF StartTag, StartItem, StartField, StartOther, Wanted, query
  <2>. QED
    BY <2>1 DEF Taken
<1>2. CASE EndTag
  <2>1. /\ UNCHANGED <<reader, phase, ref>>
        /\ reader \in Searches => UNCHANGED <<heap, memory>>
    BY <1>2, ReaderNames DEF EndTag
  <2>. QED
    BY <2>1 DEF Taken
<1>3. CASE EndDocument
  <2>1. /\ UNCHANGED <<reader, memory, ref>> /\ phase = "parsing"
        /\ phase' = IF reader = "required" /\ memory = NULL THEN "GS_INVALID" ELSE "GS_OK"
        /\ reader \in Searches => heap' = heap
    BY <1>3 DEF EndDocument
  <2>. QED
    BY <2>1 DEF Taken
<1>4. CASE XmlError
  BY <1>4 DEF XmlError, Taken
<1>5. CASE UNCHANGED xmlVars
  BY <1>5 DEF xmlVars, document, query, Taken
<1>. QED
  BY <1>1, <1>2, <1>3, <1>4, <1>5, CdataTaken DEF XmlNext

\* xml_search returns the text of every element of that name and no other, in
\* documents of every size and depth; of what is required, never nothing.
THEOREM SearchesComplete == XmlSpec => []SearchFindsAll
<1>1. XmlInit => Taken
  BY DEF XmlInit, Taken, NULL, Searches
<1>2. Taken => SearchFindsAll
  BY DEF Taken, SearchFindsAll
<1>. QED
  BY <1>1, <1>2, XmlTypes, NextTaken, PTL DEF XmlSpec

-----------------------------------------------------------------------------
(* The blocks of the heap.                                                 *)

\* The block that is written to is allocated; each title has one, which is
\* not written to when another field is read.
OwnBlock(k) == \E b \in DOMAIN heap : /\ data[k].AppTitle = <<b>> /\ heap[b] # Freed
                                      /\ start > 0 => b # memory

Blocks ==
  phase = "parsing" =>
    /\ memory # NULL => heap[memory] # Freed
    /\ reader = "applist" => \A k \in DOMAIN data : data[k].AppTitle # <<>> => OwnBlock(k)

\* A handler writes to no title's block, and frees none.
LEMMA TitlesKept ==
  ASSUME TypeOK, Blocks, reader = "applist", phase = "parsing",
         NEW k \in DOMAIN data, data[k].AppTitle # <<>>,
         (\E name \in Names(reader) : StartTag(name)) \/ Cdata \/ EndTag
  PROVE  \E b \in DOMAIN heap : /\ data[k].AppTitle = <<b>> /\ heap[b] # Freed
                                /\ start > 0 => b # memory
                                /\ b \in DOMAIN heap' /\ heap'[b] = heap[b]
<1>1. PICK b \in DOMAIN heap : /\ data[k].AppTitle = <<b>> /\ heap[b] # Freed
                               /\ start > 0 => b # memory
  BY DEF Blocks, OwnBlock
<1>2. heap \in Seq(Seq(Nat)) /\ start \in Nat /\ (memory = NULL => start = 0)
  BY ReaderNames DEF TypeOK, QueryOK, Held
<1>3. /\ Junk \in Seq(Nat) /\ Freed \in Seq(Nat)
      /\ memory # NULL => memory \in DOMAIN heap /\ heap[memory] \in Seq(Nat)
  BY DEF Junk, Freed, TypeOK, QueryOK
<1>4. \/ UNCHANGED heap \/ heap' = Append(heap, Junk)
      \/ start > 0 /\ memory # NULL /\ heap' = [heap EXCEPT ![memory] = TextAfter(heap[memory], Piece)]
      \/ start > 0 /\ memory # NULL /\ heap' = [heap EXCEPT ![memory] = Freed]
  <2>1. ASSUME NEW name \in Names(reader), StartTag(name)
        PROVE  heap' = heap \/ heap' = Append(heap, Junk)
    BY <2>1 DEF StartTag, StartItem, StartField, StartOther, query
  <2>2. CASE Cdata
    BY <2>2, <1>2 DEF Cdata, Write
  <2>3. CASE EndTag
    <3>1. EndApp
      BY <2>3, ReaderNames DEF EndTag
    <3>2. UNCHANGED heap \/ (start # 0 /\ FreeMemory)
      BY <3>1, EndAppCases DEF query
    <3>. QED
      BY <3>2, <1>2 DEF FreeMemory
  <2>. QED
    BY <2>1, <2>2, <2>3
<1>5. b \in DOMAIN heap' /\ heap'[b] = heap[b]
  <2>1. CASE heap' = Append(heap, Junk)
    BY <1>2, <1>3, <2>1, Appended
  <2>2. ASSUME NEW v, heap' = [heap EXCEPT ![memory] = v], b # memory
        PROVE  b \in DOMAIN heap' /\ heap'[b] = heap[b]
    BY <1>2, <2>2
  <2>. QED
    BY <1>1, <1>4, <2>1, <2>2
<1>. QED
  BY <1>1, <1>5

\* No text, and no fresh block, looks like a freed block.
LEMMA TextNotFreed ==
  ASSUME NEW old \in Seq(Nat), NEW piece \in Pieces
  PROVE  TextAfter(old, piece) # Freed /\ <<piece>> # Freed /\ Junk # Freed
<1>1. Append(old, piece) # Freed
  <2>1. Append(old, piece)[Len(old) + 1] = piece /\ Len(Append(old, piece)) = Len(old) + 1
    OBVIOUS
  <2>2. Len(Freed) = 1 /\ Freed[1] = 1
    BY DEF Freed
  <2>. QED
    BY <2>1, <2>2 DEF Pieces
<1>2. <<piece>> # Freed /\ Junk # Freed
  BY DEF Freed, Junk, Pieces
<1>. QED
  BY <1>1, <1>2 DEF TextAfter

\* The block of the query is never one that has been freed.
LEMMA QueryBlockKept ==
  ASSUME TypeOK, Counted, Blocks, XmlNext, phase' = "parsing", memory' # NULL
  PROVE  heap'[memory'] # Freed
<1>1. phase = "parsing" /\ (memory # NULL => heap[memory] # Freed)
  BY DEF Blocks, XmlNext, StartTag, Cdata, EndTag, EndDocument, XmlError
<1>2. heap \in Seq(Seq(Nat)) /\ (memory # NULL => memory \in DOMAIN heap)
  BY DEF TypeOK, QueryOK
<1>3. Piece \in Pieces /\ <<Piece>> \in Seq(Nat) /\ Junk \in Seq(Nat)
  BY PieceType DEF Pieces, Junk
<1>4. Junk # Freed /\ <<Piece>> # Freed
  BY <1>3, TextNotFreed
<1>5. ASSUME NEW name \in Names(reader), StartTag(name)
      PROVE  heap'[memory'] # Freed
  <2>1. CASE StartField(name)
    <3>1. heap' = Append(heap, Junk) /\ memory' = Len(heap) + 1
      BY <2>1 DEF StartField
    <3>. QED
      BY <3>1, <1>2, <1>3, <1>4, Appended
  <2>2. CASE UNCHANGED <<heap, memory>>
    BY <1>1, <2>2
  <2>. QED
    BY <1>5, <2>1, <2>2 DEF StartTag, StartItem, StartOther, query
<1>6. CASE Cdata
  <2>1. CASE UNCHANGED <<heap, memory>>
    BY <1>1, <2>1
  <2>2. CASE memory = NULL /\ Write(Piece)
    <3>1. heap' = Append(heap, <<Piece>>) /\ memory' = Len(heap) + 1
      BY <2>2 DEF Write
    <3>. QED
      BY <3>1, <1>2, <1>3, <1>4, Appended
  <2>3. CASE memory # NULL /\ Write(Piece)
    <3>1. heap' = [heap EXCEPT ![memory] = TextAfter(heap[memory], Piece)] /\ memory' = memory
      BY <2>3 DEF Write
    <3>2. heap[memory] \in Seq(Nat) /\ heap'[memory] = TextAfter(heap[memory], Piece)
      BY <3>1, <2>3, <1>2
    <3>. QED
      BY <3>1, <3>2, <1>3, TextNotFreed
  <2>. QED
    BY <1>6, <2>1, <2>2, <2>3 DEF Cdata
<1>7. CASE EndTag
  <2>1. UNCHANGED <<heap, memory>> \/ FreeMemory
    <3>1. CASE reader \in Searches
      BY <1>7, <3>1, ReaderNames DEF EndTag
    <3>2. CASE reader = "applist"
      BY <1>7, <3>2, ReaderNames, EndAppCases DEF EndTag, query
    <3>3. CASE reader = "modelist"
      BY <1>7, <3>3, ReaderNames, EndModeCases DEF EndTag, query
    <3>. QED
      BY <3>1, <3>2, <3>3 DEF TypeOK, Readers
  <2>. QED
    BY <1>1, <2>1 DEF FreeMemory
<1>. QED
  BY <1>5, <1>6, <1>7 DEF XmlNext, EndDocument, XmlError

\* An entry has the block of its title for itself.
LEMMA OwnBlockKept ==
  ASSUME TypeOK, Blocks, reader = "applist", phase = "parsing",
         (\E name \in Names(reader) : StartTag(name)) \/ Cdata \/ EndTag,
         NEW j \in DOMAIN data', data'[j].AppTitle # <<>>
  PROVE  OwnBlock(j)'
<1>1. data \in Seq(Entry("applist")) /\ "AppTitle" \in Fields("applist")
  BY ReaderNames DEF TypeOK, QueryOK
<1>2. ASSUME NEW name \in Names(reader), StartItem(name)
      PROVE  \E k \in DOMAIN data : data'[j].AppTitle = data[k].AppTitle
  <2>1. data' = <<Empty(reader)>> \o data /\ Empty(reader) \in Entry("applist")
    BY <1>2, ReaderNames DEF StartItem, Empty, Entry
  <2>2. /\ Len(data') = Len(data) + 1 /\ data'[1] = Empty(reader) /\ data' \in Seq(Entry("applist"))
        /\ \A k \in 2..(Len(data) + 1) : data'[k] = data[k - 1]
    BY <1>1, <2>1, Pushed
  <2>3. Empty(reader).AppTitle = <<>>
    BY ReaderNames DEF Empty
  <2>4. j # 1 /\ j \in 2..(Len(data) + 1) /\ j - 1 \in DOMAIN data
    BY <1>1, <2>2, <2>3
  <2>. QED
    BY <2>2, <2>4
<1>3. ASSUME NEW k \in DOMAIN data, data'[j].AppTitle = data[k].AppTitle,
             start' > 0 => (memory' = memory /\ start > 0) \/ memory' = Len(heap) + 1
      PROVE  OwnBlock(j)'
  <2>1. PICK b \in DOMAIN heap : /\ data[k].AppTitle = <<b>> /\ heap[b] # Freed
                                 /\ start > 0 => b # memory
                                 /\ b \in DOMAIN heap' /\ heap'[b] = heap[b]
    BY <1>3, TitlesKept
  <2>2. b # Len(heap) + 1
    BY DEF TypeOK, QueryOK
  <2>. QED
    BY <1>3, <2>1, <2>2 DEF OwnBlock
<1>4. ASSUME NEW name \in Names(reader), StartTag(name)
      PROVE  OwnBlock(j)'
  <2>1. CASE StartItem(name)
    <3>1. start' = start /\ memory' = memory
      BY <2>1, ReaderNames DEF StartItem
    <3>. QED
      BY <1>2, <1>3, <2>1, <3>1
  <2>2. CASE StartField(name)
    BY <1>3, <2>2 DEF StartField
  <2>3. CASE StartOther(name)
    BY <1>3, <2>3 DEF StartOther, query
  <2>. QED
    BY <1>4, <2>1, <2>2, <2>3 DEF StartTag
<1>5. CASE Cdata
  <2>1. data' = data /\ start' = start
    BY <1>5 DEF Cdata
  <2>2. start > 0 => memory' = memory
    BY <1>5, ReaderNames DEF Cdata, Write, TypeOK, QueryOK, Held
  <2>. QED
    BY <1>3, <2>1, <2>2
<1>6. CASE EndTag
  <2>1. CASE UNCHANGED query
    BY <1>3, <2>1 DEF query
  <2>2. CASE /\ start # 0 /\ start' = 0 /\ data # <<>> /\ Innermost = "AppTitle"
             /\ Stored(<<memory>>) /\ UNCHANGED <<heap, memory>>
    <3>1. memory # NULL /\ memory \in DOMAIN heap /\ <<memory>> \in Seq(Nat)
      BY <2>2, ReaderNames DEF TypeOK, QueryOK, Held
    <3>2. heap[memory] # Freed
      BY <3>1 DEF Blocks
    <3>3. /\ data'[1].AppTitle = <<memory>> /\ DOMAIN data' = DOMAIN data
          /\ \A k \in DOMAIN data : k # 1 => data'[k].AppTitle = data[k].AppTitle
      BY <1>1, <2>2, <3>1, FieldSet DEF Stored, Entry
    <3>4. CASE j = 1
      BY <2>2, <3>1, <3>2, <3>3, <3>4 DEF OwnBlock
    <3>5. CASE j # 1
      BY <1>3, <2>2, <3>3, <3>5
    <3>. QED
      BY <3>4, <3>5
  <2>3. CASE /\ start # 0 /\ start' = 0 /\ data # <<>> /\ Innermost \in {"ID", "IsHdrSupported"}
             /\ Stored(heap[memory]) /\ FreeMemory
    <3>1. heap[memory] \in Seq(Nat) /\ Innermost \in Fields("applist")
      BY <2>3, ReaderNames DEF TypeOK, QueryOK, Held
    <3>2. data' = [data EXCEPT ![1][Innermost] = heap[memory]] /\ "AppTitle" # Innermost
      BY <2>3 DEF Stored
    <3>3. /\ DOMAIN data' = DOMAIN data
          /\ \A k \in DOMAIN data, g \in Fields("applist") :
               ~(k = 1 /\ g = Innermost) => data'[k][g] = data[k][g]
      BY <1>1, <2>3, <3>1, <3>2, FieldSet DEF Entry
    <3>4. \A k \in DOMAIN data : data'[k].AppTitle = data[k].AppTitle
      BY <1>1, <3>2, <3>3
    <3>. QED
      BY <1>3, <2>3, <3>3, <3>4
  <2>4. CASE start' = 0 /\ UNCHANGED <<heap, memory, data>>
    BY <1>3, <2>4
  <2>. QED
    BY <1>6, <2>1, <2>2, <2>3, <2>4, EndAppCases, ReaderNames DEF EndTag
<1>. QED
  BY <1>4, <1>5, <1>6

\* Every step keeps every title in a block of its own.
LEMMA NextBlocks ==
  ASSUME TypeOK, Counted, Blocks, [XmlNext]_xmlVars
  PROVE  Blocks'
<1>1. CASE XmlNext
  <2> SUFFICES ASSUME phase' = "parsing"
               PROVE  Blocks'
    BY DEF Blocks
  <2>1. /\ phase = "parsing" /\ reader' = reader
        /\ (\E name \in Names(reader) : StartTag(name)) \/ Cdata \/ EndTag
    BY <1>1 DEF XmlNext, StartTag, Cdata, EndTag, EndDocument, XmlError
  <2>. QED
    BY <1>1, <2>1, QueryBlockKept, OwnBlockKept DEF Blocks
<1>2. CASE UNCHANGED xmlVars
  BY <1>2 DEF xmlVars, document, query, Blocks, OwnBlock
<1>. QED
  BY <1>1, <1>2

\* There are no titles at first.
LEMMA BlocksInit == XmlInit => Blocks
<1> SUFFICES ASSUME XmlInit PROVE Blocks
  OBVIOUS
<1>1. data = <<>> /\ (memory # NULL => heap[memory] = <<>>)
  BY DEF XmlInit, NULL
<1>2. <<>> # Freed
  BY DEF Freed
<1>. QED
  BY <1>1, <1>2 DEF Blocks

\* While a document is read, text is written to allocated memory that belongs to
\* no entry, and no entry's title is freed, well-formed as it may be or not.
THEOREM TextBlocksOwned == XmlSpec => []BlocksOwned
<1>1. XmlInit => Blocks
  BY BlocksInit
<1>2. TypeOK /\ Blocks => BlocksOwned
  <2> SUFFICES ASSUME TypeOK, Blocks, phase = "parsing" PROVE BlocksOwned
    BY DEF BlocksOwned
  <2>1. memory = NULL => (start = 0 \/ reader = "required")
    BY DEF TypeOK, QueryOK, Held
  <2>2. ASSUME reader = "applist", NEW b \in TitleBlocks
        PROVE  heap[b] # Freed /\ (start > 0 => b # memory)
    <3>1. PICK k \in DOMAIN data : data[k].AppTitle # <<>> /\ b = data[k].AppTitle[1]
      BY <2>2 DEF TitleBlocks
    <3>. QED
      BY <2>2, <3>1 DEF Blocks, OwnBlock
  <2>. QED
    BY <2>1, <2>2 DEF Blocks, BlocksOwned
<1>. QED
  BY <1>1, <1>2, XmlTypes, NextBlocks, PTL DEF XmlSpec

-----------------------------------------------------------------------------
(* xml_applist and xml_modelist.                                           *)

InField == Innermost \in Fields(reader)

\* Where one can be in a document whose fields are directly in their elements.
Placed ==
  /\ \A k \in 1..(Len(open) - 1) : open[k] \notin Fields(reader)
  /\ \A k \in DOMAIN open : open[k] \in {Item(reader)} \cup Fields(reader) => data # <<>>
  /\ Len(data) = Len(ref)

\* In a field, the block has what the field has so far; after it, the block of
\* a title is the only one the query can still point to.
Buffered ==
  /\ InField <=> start > 0
  /\ InField => /\ memory # NULL
                /\ ref[1][Innermost] = <<>> => heap[memory] = Junk
                /\ ref[1][Innermost] # <<>> => heap[memory] = ref[1][Innermost]
  /\ memory # NULL /\ start = 0 => endsWithTitle

\* All entries say what the document says, but for the field one is in.
Agreeing ==
  \A k \in DOMAIN data, f \in Fields(reader) :
    (InField /\ k = 1 /\ f = Innermost) \/ Said(data[k], f) = ref[k][f]

Listed ==
  reader \notin Searches /\ plain /\ phase = "parsing" => Placed /\ Buffered /\ Agreeing

Reads == \/ \E name \in Names(reader) : StartTag(name)
         \/ Cdata \/ EndTag

\* What an entry says of a field after a step.
SaidThen(entry, f) ==
  IF f = "AppTitle" /\ entry[f] # <<>> THEN heap'[entry[f][1]] ELSE entry[f]

\* It is not changed by what happens to the heap.
LEMMA SaidKept ==
  ASSUME TypeOK, Blocks, reader \notin Searches, phase = "parsing", Reads,
         NEW k \in DOMAIN data, NEW f \in Fields(reader),
         NEW entry, entry[f] = data[k][f]
  PROVE  SaidThen(entry, f) = Said(data[k], f)
<1>1. CASE f = "AppTitle" /\ data[k][f] # <<>>
  <2>1. reader = "applist"
    BY <1>1, ReaderNames DEF TypeOK, Readers
  <2>2. PICK b \in DOMAIN heap : data[k].AppTitle = <<b>> /\ heap'[b] = heap[b]
    BY <1>1, <2>1, TitlesKept DEF Reads
  <2>. QED
    BY <1>1, <2>2 DEF Said, SaidThen
<1>2. CASE ~(f = "AppTitle" /\ data[k][f] # <<>>)
  BY <1>2 DEF Said, SaidThen
<1>. QED
  BY <1>1, <1>2

\* The start of an element: where one is then.
LEMMA StartPlaced ==
  ASSUME TypeOK, Placed, NEW name \in Names(reader), reader \notin Searches,
         StartTag(name), InPlace(name)
  PROVE  Placed' /\ Innermost' = name /\ ~InField
<1>1. /\ open' = Append(open, name) /\ reader' = reader /\ reader \in Readers
      /\ open \in Seq(Tags(reader)) /\ open # <<>> /\ name \in Tags(reader)
  BY DEF StartTag, TypeOK, Tags
<1>2. Len(open) \in Nat \ {0} /\ Innermost = open[Len(open)]
  BY <1>1 DEF Innermost
<1>3. /\ Len(open') = Len(open) + 1 /\ open'[Len(open) + 1] = name
      /\ \A k \in 1..Len(open) : open'[k] = open[k]
  BY <1>1, Appended
<1>4. Innermost' = name
  BY <1>2, <1>3 DEF Innermost
<1>5. ~InField /\ (name \in Fields(reader) => Innermost = Item(reader))
  BY <1>1, ReaderNames DEF InPlace, InField
<1>6. \A k \in 1..(Len(open') - 1) : open'[k] \notin Fields(reader)
  BY <1>2, <1>3, <1>5 DEF Placed, InField
<1>7. data # <<>> => data' # <<>>
  <2>1. data' = data \/ data' = <<Empty(reader)>> \o data
    BY DEF StartTag, StartItem, StartField, StartOther, query
  <2>2. data \in Seq(Entry(reader)) /\ Empty(reader) \in Entry(reader)
    BY DEF TypeOK, QueryOK, Empty, Entry
  <2>. QED
    BY <2>1, <2>2, Pushed
<1>8. \A k \in DOMAIN open' : open'[k] \in {Item(reader)} \cup Fields(reader) => data' # <<>>
  <2>1. CASE name \in Fields(reader)
    <3>1. data # <<>>
      BY <1>2, <1>5, <2>1 DEF Placed
    <3>. QED
      BY <3>1, <1>7
  <2>2. CASE name = Item(reader)
    <3>1. data' = <<Empty(reader)>> \o data
      BY <1>1, <2>2, ReaderNames DEF StartTag, StartItem, StartField, StartOther, Wanted
    <3>2. data \in Seq(Entry(reader)) /\ Empty(reader) \in Entry(reader)
      BY DEF TypeOK, QueryOK, Empty, Entry
    <3>. QED
      BY <3>1, <3>2, Pushed
  <2>3. CASE name \notin {Item(reader)} \cup Fields(reader)
    <3>1. ASSUME NEW k \in DOMAIN open', open'[k] \in {Item(reader)} \cup Fields(reader)
          PROVE  k \in DOMAIN open /\ open'[k] = open[k]
      BY <1>1, <1>2, <1>3, <2>3, <3>1
    <3>. QED
      BY <3>1, <1>7 DEF Placed
  <2>. QED
    BY <2>1, <2>2, <2>3
<1>9. Len(data') = Len(ref')
  <2>1. /\ data \in Seq(Entry(reader)) /\ ref \in Seq(Wording(reader)) /\ Len(data) = Len(ref)
        /\ Empty(reader) \in Entry(reader) /\ Empty(reader) \in Wording(reader)
    BY DEF TypeOK, QueryOK, Empty, Entry, Wording, Placed
  <2>2. CASE name = Item(reader)
    <3>1. data' = <<Empty(reader)>> \o data /\ ref' = <<Empty(reader)>> \o ref
      BY <1>1, <2>2, ReaderNames DEF StartTag, StartItem, StartField, StartOther, Wanted
    <3>. QED
      BY <3>1, <2>1, Pushed
  <2>3. CASE name # Item(reader)
    <3>1. data' = data /\ (ref' = ref \/ \E e : ref' = [ref EXCEPT ![1] = e])
      BY <2>3 DEF StartTag, StartItem, StartField, StartOther, query
    <3>. QED
      BY <2>1, <3>1
  <2>. QED
    BY <2>2, <2>3
<1>. QED
  BY <1>1, <1>4, <1>5, <1>6, <1>8, <1>9 DEF Placed

\* The start of an element in its place adds an empty entry or opens a field.
LEMMA StartListed ==
  ASSUME TypeOK, Blocks, Listed, NEW name \in Names(reader), StartTag(name)
  PROVE  Listed'
<1> SUFFICES ASSUME reader \notin Searches, plain, InPlace(name)
             PROVE  Placed' /\ Buffered' /\ Agreeing'
  BY DEF StartTag, Listed
<1>1. /\ phase = "parsing" /\ Reads /\ reader' = reader /\ reader \in Readers
      /\ endsWithTitle' = endsWithTitle
  BY DEF StartTag, Reads, TypeOK
<1>2. Placed /\ Buffered /\ Agreeing
  BY <1>1 DEF Listed
<1>3. Placed' /\ Innermost' = name /\ ~InField /\ start = 0
  <2>1. start \in Nat
    BY DEF TypeOK, QueryOK
  <2>. QED
    BY <1>2, <2>1, StartPlaced DEF Buffered
<1>4. \A k \in DOMAIN data, f \in Fields(reader) : Said(data[k], f) = ref[k][f]
  BY <1>2, <1>3 DEF Agreeing
<1>5. /\ data \in Seq(Entry(reader)) /\ ref \in Seq(Wording(reader)) /\ Len(data) = Len(ref)
      /\ heap \in Seq(Seq(Nat))
      /\ Empty(reader) \in Entry(reader) /\ Empty(reader) \in Wording(reader)
  BY <1>2 DEF TypeOK, QueryOK, Empty, Entry, Wording, Placed
<1>6. CASE name = Item(reader)
  <2>1. /\ data' = <<Empty(reader)>> \o data /\ ref' = <<Empty(reader)>> \o ref
        /\ UNCHANGED <<heap, memory, start>>
    BY <1>1, <1>6, ReaderNames DEF StartTag, StartItem, StartField, StartOther, Wanted
  <2>2. ~InField'
    BY <1>1, <1>3, <1>6, ReaderNames DEF InField
  <2>3. ASSUME NEW k \in DOMAIN data', NEW f \in Fields(reader)
        PROVE  SaidThen(data'[k], f) = ref'[k][f]
    <3>1. CASE k = 1
      <4>1. data'[1] = Empty(reader) /\ ref'[1] = Empty(reader)
        BY <1>5, <2>1, Pushed
      <4>2. Empty(reader)[f] = <<>>
        BY DEF Empty
      <4>. QED
        BY <3>1, <4>1, <4>2 DEF SaidThen
    <3>2. CASE k # 1
      <4>1. /\ k - 1 \in DOMAIN data /\ data'[k] = data[k - 1] /\ ref'[k] = ref[k - 1]
        <5>1. /\ data' \in Seq(Entry(reader)) /\ Len(data') = Len(data) + 1
              /\ \A i \in 2..(Len(data) + 1) : data'[i] = data[i - 1]
              /\ \A i \in 2..(Len(ref) + 1) : ref'[i] = ref[i - 1]
          BY <1>5, <2>1, Pushed
        <5>2. k \in 2..(Len(data) + 1)
          BY <1>5, <3>2, <5>1
        <5>. QED
          BY <1>5, <5>1, <5>2
      <4>2. SaidThen(data'[k], f) = Said(data[k - 1], f)
        BY <1>1, <4>1, SaidKept
      <4>. QED
        BY <1>4, <4>1, <4>2
    <3>. QED
      BY <3>1, <3>2
  <2>. QED
    BY <1>1, <1>2, <1>3, <2>1, <2>2, <2>3 DEF Buffered, Agreeing, Said, SaidThen
<1>7. CASE name \in Fields(reader)
  <2>1. data # <<>> /\ ref # <<>>
    <3>1. Innermost = Item(reader) /\ open # <<>> /\ open \in Seq(Tags(reader))
      BY <1>1, <1>7, ReaderNames DEF InPlace, TypeOK
    <3>2. Len(open) \in DOMAIN open /\ open[Len(open)] = Item(reader)
      BY <3>1 DEF Innermost
    <3>. QED
      BY <1>2, <1>5, <3>2 DEF Placed
  <2>2. StartField(name) /\ name # Item(reader)
    BY <1>1, <1>7, <2>1, ReaderNames DEF StartTag, StartItem, StartOther, Wanted
  <2>3. /\ heap' = Append(heap, Junk) /\ memory' = Len(heap) + 1 /\ start' = 1 /\ data' = data
        /\ ref' = [ref EXCEPT ![1][name] = <<>>]
    BY <1>1, <1>7, <2>1, <2>2, ReaderNames DEF StartTag, StartField
  <2>4. heap'[memory'] = Junk /\ memory' # NULL
    <3>1. Junk \in Seq(Nat)
      BY DEF Junk
    <3>. QED
      BY <1>5, <2>3, <3>1, Appended DEF NULL
  <2>5. /\ ref'[1][name] = <<>>
        /\ \A k \in DOMAIN ref, g \in Fields(reader) : ~(k = 1 /\ g = name) => ref'[k][g] = ref[k][g]
    <3>1. <<>> \in Seq(Pieces) /\ ref \in Seq([Fields(reader) -> Seq(Pieces)])
      BY <1>5 DEF Wording
    <3>. QED
      BY <1>7, <2>1, <2>3, <3>1, FieldSet
  <2>6. Buffered' /\ InField'
    BY <1>1, <1>3, <1>7, <2>3, <2>4, <2>5 DEF Buffered, InField
  <2>7. ASSUME NEW k \in DOMAIN data, NEW f \in Fields(reader), ~(k = 1 /\ f = name)
        PROVE  SaidThen(data'[k], f) = ref'[k][f]
    <3>1. SaidThen(data'[k], f) = Said(data[k], f)
      BY <1>1, <2>3, SaidKept
    <3>2. ref'[k][f] = ref[k][f]
      BY <1>5, <2>5, <2>7
    <3>. QED
      BY <1>4, <3>1, <3>2
  <2>8. Agreeing'
    BY <1>1, <1>3, <2>3, <2>6, <2>7 DEF Agreeing, Said, SaidThen
  <2>. QED
    BY <1>3, <2>6, <2>8
<1>8. CASE name \notin {Item(reader)} \cup Fields(reader)
  <2>1. UNCHANGED <<heap, memory, start, data, ref>>
    BY <1>1, <1>8 DEF StartTag, StartItem, StartField, StartOther, Wanted, query
  <2>2. ~InField'
    BY <1>1, <1>3, <1>8 DEF InField
  <2>3. Buffered'
    BY <1>1, <1>2, <1>3, <2>1, <2>2 DEF Buffered
  <2>4. Agreeing'
    BY <1>1, <1>4, <2>1 DEF Agreeing, Said
  <2>. QED
    BY <1>3, <2>3, <2>4
<1>. QED
  BY <1>6, <1>7, <1>8

\* A piece of text is added to the field one is in, or dropped.
LEMMA CdataListed ==
  ASSUME TypeOK, Blocks, Listed, Cdata
  PROVE  Listed'
<1> SUFFICES ASSUME reader \notin Searches, plain
             PROVE  Placed' /\ Buffered' /\ Agreeing'
  BY DEF Cdata, Listed
<1>1. /\ phase = "parsing" /\ Reads /\ reader \in Readers /\ UNCHANGED <<reader, open, data, start>>
      /\ endsWithTitle' = endsWithTitle
  BY DEF Cdata, Reads, TypeOK
<1>2. Placed /\ Buffered /\ Agreeing
  BY <1>1 DEF Listed
<1>3. /\ data \in Seq(Entry(reader)) /\ ref \in Seq(Wording(reader)) /\ Len(data) = Len(ref)
      /\ heap \in Seq(Seq(Nat)) /\ (memory = NULL \/ memory \in DOMAIN heap) /\ start \in Nat
      /\ open \in Seq(Tags(reader)) /\ open # <<>>
  BY <1>1, <1>2 DEF TypeOK, QueryOK, Placed
<1>4. Innermost' = Innermost /\ (InField' <=> InField)
  BY <1>1 DEF Innermost, InField
<1>5. CASE ~InField
  <2>1. UNCHANGED <<heap, memory, ref>>
    BY <1>2, <1>3, <1>5 DEF Cdata, Buffered, InField
  <2>. QED
    BY <1>1, <1>2, <1>4, <2>1 DEF Placed, Buffered, Agreeing, Said
<1>6. CASE InField
  <2> DEFINE text == ref[1][Innermost]
             longer == Append(text, Piece)
  <2>1. data # <<>> /\ ref # <<>>
    <3>1. Len(open) \in DOMAIN open /\ open[Len(open)] \in Fields(reader)
      BY <1>3, <1>6 DEF InField, Innermost
    <3>. QED
      BY <1>2, <1>3, <3>1 DEF Placed
  <2>2. ref \in Seq([Fields(reader) -> Seq(Pieces)]) /\ Innermost \in Fields(reader) /\ text \in Seq(Pieces)
    <3>1. ref \in Seq([Fields(reader) -> Seq(Pieces)]) /\ Innermost \in Fields(reader)
      BY <1>3, <1>6 DEF Wording, InField
    <3>2. ref[1] \in [Fields(reader) -> Seq(Pieces)]
      BY <2>1, <3>1
    <3>. QED
      BY <3>1, <3>2
  <2>3. Piece \in Pieces
    BY PieceType
  <2>4. /\ memory # NULL /\ memory' = memory /\ start > 0
        /\ heap' = [heap EXCEPT ![memory] = TextAfter(heap[memory], Piece)]
        /\ ref' = [ref EXCEPT ![1][Innermost] = longer]
    BY <1>2, <1>6, <2>1 DEF Cdata, Buffered, Write, InField
  <2>5. TextAfter(heap[memory], Piece) = longer /\ longer \in Seq(Pieces) /\ longer # <<>>
    BY <1>2, <1>6, <2>2, <2>3, TextIsNoMark DEF Buffered
  <2> HIDE DEF longer
  <2>6. heap'[memory'] = longer
    BY <1>3, <2>4, <2>5
  <2>7. /\ Len(ref') = Len(ref) /\ ref'[1][Innermost] = longer
        /\ \A k \in DOMAIN ref, g \in Fields(reader) :
             ~(k = 1 /\ g = Innermost) => ref'[k][g] = ref[k][g]
    BY <2>1, <2>2, <2>4, <2>5, FieldSet
  <2>8. Placed'
    BY <1>1, <1>2, <2>7 DEF Placed
  <2>9. Buffered'
    BY <1>1, <1>4, <1>6, <2>4, <2>5, <2>6, <2>7 DEF Buffered
  <2>10. ASSUME NEW k \in DOMAIN data, NEW f \in Fields(reader), ~(k = 1 /\ f = Innermost)
         PROVE  SaidThen(data'[k], f) = ref'[k][f]
    <3>1. SaidThen(data'[k], f) = Said(data[k], f)
      BY <1>1, SaidKept
    <3>2. ref'[k][f] = ref[k][f] /\ Said(data[k], f) = ref[k][f]
      BY <1>2, <1>3, <2>7, <2>10 DEF Agreeing
    <3>. QED
      BY <3>1, <3>2
  <2>11. Agreeing'
    BY <1>1, <1>4, <1>6, <2>10 DEF Agreeing, Said, SaidThen
  <2>. QED
    BY <2>8, <2>9, <2>11
<1>. QED
  BY <1>5, <1>6

\* After a field has ended its entry has it.
LEMMA FieldEnds ==
  ASSUME TypeOK, Blocks, reader \notin Searches, phase = "parsing", EndTag,
         Placed, Buffered, Agreeing, InField, data # <<>>, ref[1][Innermost] # <<>>
  PROVE  /\ start' = 0 /\ Len(data') = Len(data)
         /\ memory' # NULL => Innermost = "AppTitle"
         /\ \A k \in DOMAIN data, f \in Fields(reader) : SaidThen(data'[k], f) = ref[k][f]
<1> DEFINE text == ref[1][Innermost]
<1>1. /\ start > 0 /\ memory # NULL /\ heap[memory] = text /\ Innermost \in Fields(reader) /\ Reads
      /\ text # <<>>
  BY DEF Buffered, InField, Reads
<1>2. /\ data \in Seq([Fields(reader) -> Seq(Nat)]) /\ start \in Nat
      /\ memory \in DOMAIN heap /\ heap \in Seq(Seq(Nat)) /\ heap[memory] \in Seq(Nat)
      /\ <<memory>> \in Seq(Nat)
  <2>1. /\ data \in Seq([Fields(reader) -> Seq(Nat)]) /\ start \in Nat
        /\ memory \in DOMAIN heap /\ heap \in Seq(Seq(Nat))
    BY <1>1 DEF TypeOK, QueryOK, Entry
  <2>2. heap[memory] \in Seq(Nat) /\ memory \in Nat
    BY <2>1
  <2>. QED
    BY <2>1, <2>2
<1> HIDE DEF text
<1>3. ASSUME NEW v \in Seq(Nat), Stored(v)
      PROVE  /\ Len(data') = Len(data)
             /\ data'[1][Innermost] = v
             /\ \A k \in DOMAIN data, f \in Fields(reader) :
                  ~(k = 1 /\ f = Innermost) => SaidThen(data'[k], f) = ref[k][f]
  <2>1. /\ Len(data') = Len(data) /\ data'[1][Innermost] = v
        /\ \A k \in DOMAIN data, f \in Fields(reader) :
             ~(k = 1 /\ f = Innermost) => data'[k][f] = data[k][f]
    BY <1>1, <1>2, <1>3, FieldSet DEF Stored
  <2>2. ASSUME NEW k \in DOMAIN data, NEW f \in Fields(reader), ~(k = 1 /\ f = Innermost)
        PROVE  SaidThen(data'[k], f) = ref[k][f]
    BY <1>1, <2>1, <2>2, SaidKept DEF Agreeing
  <2>. QED
    BY <2>1, <2>2
<1>4. CASE Innermost = "AppTitle"
  <2>1. reader = "applist"
    BY <1>1, <1>4, ReaderNames DEF TypeOK, Readers
  <2>2. start' = 0 /\ Stored(<<memory>>) /\ UNCHANGED <<heap, memory>>
    BY <1>1, <1>2, <1>4, <2>1, ReaderNames, EndAppCases DEF EndTag
  <2>3. SaidThen(data'[1], "AppTitle") = text
    <3>1. data'[1]["AppTitle"] = <<memory>>
      BY <1>2, <1>3, <1>4, <2>2
    <3>2. <<memory>> # <<>> /\ <<memory>>[1] = memory
      OBVIOUS
    <3>3. heap'[memory] = text
      BY <1>1, <2>2
    <3>. QED
      BY <3>1, <3>2, <3>3 DEF SaidThen
  <2>. QED
    BY <1>2, <1>3, <1>4, <2>2, <2>3 DEF text
<1>5. CASE Innermost # "AppTitle"
  <2>1. start' = 0 /\ Stored(heap[memory]) /\ FreeMemory
    <3>1. CASE reader = "applist"
      BY <1>1, <1>2, <1>5, <3>1, ReaderNames, EndAppCases DEF EndTag
    <3>2. CASE reader = "modelist"
      BY <1>1, <1>2, <3>2, ReaderNames, EndModeCases DEF EndTag
    <3>. QED
      BY <3>1, <3>2 DEF TypeOK, Readers
  <2>2. SaidThen(data'[1], Innermost) = text
    BY <1>1, <1>2, <1>3, <1>5, <2>1 DEF SaidThen
  <2>. QED
    BY <1>2, <1>3, <1>5, <2>1, <2>2 DEF FreeMemory, text
<1>. QED
  BY <1>4, <1>5

\* The end of an element: no more than a field is closed, and that agrees.
LEMMA EndTagListed ==
  ASSUME TypeOK, TypeOK', Blocks, Listed, EndTag
  PROVE  Listed'
<1> SUFFICES ASSUME reader \notin Searches, plain, InField => FieldText # <<>>
             PROVE  Placed' /\ Buffered' /\ Agreeing'
  BY DEF EndTag, Listed, InField
<1>1. /\ phase = "parsing" /\ Reads /\ reader \in Readers /\ UNCHANGED <<reader, ref>>
      /\ open' = Outer /\ Len(open) > 1 /\ open \in Seq(Tags(reader)) /\ open # <<>>
  BY DEF EndTag, Reads, TypeOK
<1>2. Placed /\ Buffered /\ Agreeing
  BY <1>1 DEF Listed
<1>3. /\ Len(open') = Len(open) - 1 /\ Len(open) \in Nat \ {0}
      /\ \A k \in 1..(Len(open) - 1) : open'[k] = open[k]
      /\ open' \in Seq(Tags(reader))
  BY <1>1, Nesting
<1>4. ~InField'
  BY <1>1, <1>2, <1>3 DEF InField, Innermost, Placed
<1>5. ASSUME data # <<>> => data' # <<>>, Len(data') = Len(data)
      PROVE  Placed'
  BY <1>1, <1>2, <1>3, <1>5 DEF Placed
<1>6. CASE InField
  <2>1. ref # <<>> /\ ref[1][Innermost] # <<>> /\ data # <<>>
    <3>1. ref # <<>> /\ ref[1][Innermost] # <<>>
      BY <1>6 DEF FieldText
    <3>2. Len(open) \in DOMAIN open /\ open[Len(open)] \in Fields(reader)
      BY <1>1, <1>3, <1>6 DEF InField, Innermost
    <3>. QED
      BY <1>2, <3>1, <3>2 DEF Placed
  <2>2. /\ start' = 0 /\ Len(data') = Len(data)
        /\ memory' # NULL => Innermost = "AppTitle"
        /\ \A k \in DOMAIN data, f \in Fields(reader) : SaidThen(data'[k], f) = ref[k][f]
    BY <1>1, <1>2, <1>6, <2>1, FieldEnds
  <2>3. data \in Seq(Entry(reader)) /\ data' \in Seq(Entry(reader))
    BY <1>1 DEF TypeOK, QueryOK
  <2>4. endsWithTitle' <=> Innermost = "AppTitle"
    BY <1>6 DEF EndTag, InField
  <2>5. Placed'
    BY <1>5, <2>1, <2>2, <2>3
  <2>6. Buffered'
    BY <1>4, <2>2, <2>4 DEF Buffered
  <2>7. Agreeing'
    BY <1>1, <2>2, <2>3 DEF Agreeing, Said, SaidThen
  <2>. QED
    BY <2>5, <2>6, <2>7
<1>7. CASE ~InField
  <2>1. start = 0 /\ UNCHANGED query
    <3>1. start = 0
      BY <1>2, <1>7 DEF Buffered, TypeOK, QueryOK
    <3>2. EndApp \/ EndMode
      BY ReaderNames DEF EndTag
    <3>. QED
      BY <3>1, <3>2 DEF EndApp, EndMode
  <2>2. endsWithTitle' = endsWithTitle
    BY <1>7 DEF EndTag, InField
  <2>3. UNCHANGED <<heap, memory, start, data>>
    BY <2>1 DEF query
  <2>4. Placed'
    BY <1>5, <2>3
  <2>5. Buffered'
    BY <1>2, <1>4, <1>7, <2>1, <2>2, <2>3 DEF Buffered
  <2>6. Agreeing'
    BY <1>1, <1>2, <1>7, <2>3 DEF Agreeing, Said
  <2>. QED
    BY <2>4, <2>5, <2>6
<1>. QED
  BY <1>6, <1>7

\* xml_applist and xml_modelist free the block the query still points to; that
\* is no entry's, or the title which nothing follows.
LEMMA EndDocumentFaithful ==
  ASSUME TypeOK, Blocks, Listed, EndDocument
  PROVE  ListFaithful'
<1> SUFFICES ASSUME reader \notin Searches, plain
             PROVE  /\ Len(data) = Len(ref)
                    /\ \A k \in DOMAIN data, f \in Fields(reader) :
                         \/ f = "AppTitle" /\ endsWithTitle /\ data[k][f] = <<memory>>
                         \/ SaidThen(data[k], f) = ref[k][f]
  BY DEF EndDocument, ListFaithful, Said, SaidThen
<1>1. /\ phase = "parsing" /\ reader \in Readers /\ open = <<"root">>
      /\ IF memory # NULL THEN heap' = [heap EXCEPT ![memory] = Freed] ELSE heap' = heap
  BY DEF EndDocument, TypeOK
<1>2. Placed /\ Buffered /\ Agreeing
  BY <1>1 DEF Listed
<1>3. heap \in Seq(Seq(Nat)) /\ start \in Nat
  BY DEF TypeOK, QueryOK
<1>4. ~InField /\ start = 0
  <2>1. Innermost = "root"
    BY <1>1 DEF Innermost
  <2>. QED
    BY <1>1, <1>2, <1>3, <2>1, ReaderNames DEF InField, Buffered
<1>5. ASSUME NEW k \in DOMAIN data, NEW f \in Fields(reader),
             ~(f = "AppTitle" /\ endsWithTitle /\ data[k][f] = <<memory>>)
      PROVE  SaidThen(data[k], f) = ref[k][f]
  <2>1. Said(data[k], f) = ref[k][f]
    BY <1>2, <1>4 DEF Agreeing
  <2>2. CASE f = "AppTitle" /\ data[k][f] # <<>>
    <3>1. reader = "applist"
      BY <1>1, <2>2, ReaderNames DEF Readers
    <3>2. PICK b \in DOMAIN heap : data[k].AppTitle = <<b>>
      BY <1>1, <2>2, <3>1 DEF Blocks, OwnBlock
    <3>3. memory # NULL => b # memory
      BY <1>2, <1>4, <1>5, <2>2, <3>2 DEF Buffered
    <3>4. heap'[b] = heap[b]
      BY <1>1, <1>3, <3>3
    <3>. QED
      BY <2>1, <2>2, <3>2, <3>4 DEF Said, SaidThen
  <2>3. CASE ~(f = "AppTitle" /\ data[k][f] # <<>>)
    BY <2>1, <2>3 DEF Said, SaidThen
  <2>. QED
    BY <2>2, <2>3
<1>. QED
  BY <1>2, <1>5 DEF Placed

\* Every step keeps it so, and the lists agree when the document ends.
LEMMA NextListed ==
  ASSUME TypeOK, TypeOK', Blocks, Listed, ListFaithful, [XmlNext]_xmlVars
  PROVE  Listed' /\ ListFaithful'
<1>1. ASSUME NEW name \in Names(reader), StartTag(name)
      PROVE  Listed' /\ phase' = "parsing"
  BY <1>1, StartListed DEF StartTag
<1>2. CASE Cdata
  BY <1>2, CdataListed DEF Cdata, ListFaithful
<1>3. CASE EndTag
  BY <1>3, EndTagListed DEF EndTag, ListFaithful
<1>4. CASE EndDocument
  <2>1. phase' # "parsing"
    BY <1>4 DEF EndDocument
  <2>. QED
    BY <1>4, <2>1, EndDocumentFaithful DEF Listed
<1>5. CASE XmlError
  BY <1>5 DEF XmlError, Listed, ListFaithful
<1>6. CASE UNCHANGED xmlVars
  <2>1. UNCHANGED <<reader, phase, open, heap, memory, start, data, ref, plain, endsWithTitle>>
    BY <1>6 DEF xmlVars, document, query
  <2>2. Listed'
    BY <2>1 DEF Listed, Placed, Buffered, Agreeing, InField, Innermost, Said
  <2>3. ListFaithful'
    BY <2>1 DEF ListFaithful, Said
  <2>. QED
    BY <2>2, <2>3
<1>. QED
  BY <1>1, <1>2, <1>3, <1>4, <1>5, <1>6 DEF XmlNext, ListFaithful

\* Of a document whose fields are directly in their elements and not empty, the
\* lists have every entry with its own fields, however many there are, in
\* whichever order, and whatever stands between them.
THEOREM ListsFaithful == XmlSpec => []ListFaithful
<1>1. XmlInit => Listed /\ ListFaithful
  <2> SUFFICES ASSUME XmlInit, reader \notin Searches
               PROVE  Placed /\ Buffered /\ Agreeing /\ phase = "parsing"
    BY DEF Listed, ListFaithful
  <2>1. /\ open = <<"root">> /\ data = <<>> /\ ref = <<>> /\ start = 0 /\ phase = "parsing"
        /\ memory = NULL /\ reader \in Readers
    BY DEF XmlInit, Searches, Readers
  <2>2. ~InField /\ open[1] \notin {Item(reader)} \cup Fields(reader) /\ Len(open) = 1
    BY <2>1, ReaderNames DEF InField, Innermost
  <2>. QED
    BY <2>1, <2>2 DEF Placed, Buffered, Agreeing
<1>2. XmlSpec => []Blocks
  BY BlocksInit, XmlTypes, NextBlocks, PTL DEF XmlSpec
<1>. QED
  BY <1>1, <1>2, XmlTypes, NextListed, PTL DEF XmlSpec
=============================================================================
