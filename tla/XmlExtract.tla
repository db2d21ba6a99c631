----------------------------- MODULE XmlExtract -----------------------------
(***************************************************************************)
(* How libgamestream/xml.c takes values out of a host's response.  Expat   *)
(* calls a handler for every start tag, every piece of text and every end  *)
(* tag; a handler call is one step here, and the document is whatever the  *)
(* steps read.  The readers share struct xml_query and write_cdata:        *)
(*   "search"    xml_search, the text of every element of one name;        *)
(*   "required"  the same, where finding none is an error;                 *)
(*   "applist"   xml_applist, the App elements and three of their fields;  *)
(*   "modelist"  xml_modelist, the DisplayMode elements and theirs.        *)
(* `ref` is what a reader of the whole document takes from it.             *)
(*                                                                         *)
(* The heap is modelled block by block: who frees a block, and who still   *)
(* points to it, is what the readers differ in.                            *)
(***************************************************************************)
EXTENDS Naturals, Sequences

CONSTANTS MaxTags,   \* bound on the elements of a document
          MaxDepth,  \* bound on the elements open at once, the root included
          MaxText    \* bound on the pieces of text of a document

ASSUME DocumentsAssumption == MaxTags \in Nat /\ MaxDepth \in Nat /\ MaxText \in Nat

VARIABLES
  reader,   \* which of the four
  phase,    \* "parsing", "GS_OK", "GS_INVALID"
  open,     \* names of the open elements, innermost last
  tags, texts,   \* elements and pieces of text so far
  heap,     \* block -> its text
  memory,   \* the block of the query, or NULL
  start,    \* the reader is inside an element it wants
  data,     \* the list so far, newest first
  ref,      \* the list, or the text, as the document has it
  plain,    \* fields are directly in their element, and are text, not empty
  endsWithTitle   \* the last field so far is an AppTitle

document == <<open, tags, texts>>
query    == <<heap, memory, start, data>>
xmlVars  == <<reader, phase, document, query, ref, plain, endsWithTitle>>

Piece  == texts + 2   \* the next piece of text: no two are the same
NULL   == 0     \* blocks are numbered from 1
Junk   == <<0>> \* a block of malloc(1) that nothing was written to
Freed  == <<1>>

Searches == {"search", "required"}

Item(r) == CASE r \in Searches -> "node" [] r = "applist" -> "App" [] OTHER -> "DisplayMode"
Fields(r) == CASE r \in Searches -> {}
               [] r = "applist" -> {"ID", "AppTitle", "IsHdrSupported"}
               [] OTHER         -> {"Width", "Height", "RefreshRate"}
Names(r) == {Item(r), "other"} \cup Fields(r)

\* malloc(sizeof(APP_LIST)) with its assignments, calloc for a DISPLAY_MODE.
Empty(r) == [f \in Fields(r) |-> <<>>]

XmlInit ==
  /\ reader \in Searches \cup {"applist", "modelist"}
  /\ phase = "parsing" /\ open = <<"root">> /\ tags = 0 /\ texts = 0
  /\ heap = (IF reader = "search" THEN <<<<>>>> ELSE <<>>)     \* calloc(1, 1)
  /\ memory = (IF reader = "search" THEN 1 ELSE NULL)
  /\ start = 0 /\ data = <<>> /\ ref = <<>>
  /\ plain = TRUE /\ endsWithTitle = FALSE

Innermost == open[Len(open)]
Outer     == SubSeq(open, 1, Len(open) - 1)
Encloses(name) == \E k \in DOMAIN open : open[k] = name

-----------------------------------------------------------------------------
(* start_element, start_applist_element, start_mode_element.               *)

\* A field of a mode is read only when there is a mode; an App's always.
Wanted(name) == name \in Fields(reader) /\ (reader = "modelist" => data # <<>>)

StartItem(name) ==
  /\ name = Item(reader)
  /\ IF reader \in Searches THEN start' = start + 1 /\ UNCHANGED data
                          ELSE data' = <<Empty(reader)>> \o data /\ UNCHANGED start
  /\ UNCHANGED <<heap, memory>>

StartField(name) ==
  /\ Wanted(name)
  /\ heap' = Append(heap, Junk) /\ memory' = Len(heap) + 1 /\ start' = 1
  /\ UNCHANGED data

StartOther(name) == name # Item(reader) /\ ~Wanted(name) /\ UNCHANGED query

\* A document one would call well-formed: items in the root, fields in items.
InPlace(name) == CASE name = Item(reader)      -> Innermost = "root"
                   [] name \in Fields(reader)  -> Innermost = Item(reader)
                   [] OTHER                    -> Innermost \notin Fields(reader)

StartTag(name) ==
  /\ phase = "parsing" /\ tags < MaxTags /\ Len(open) < MaxDepth
  /\ StartItem(name) \/ StartField(name) \/ StartOther(name)
  /\ open' = Append(open, name) /\ tags' = tags + 1
  /\ plain' = (plain /\ InPlace(name))
  /\ ref' = CASE reader \notin Searches /\ name = Item(reader) -> <<Empty(reader)>> \o ref
              [] name \in Fields(reader) /\ ref # <<>> -> [ref EXCEPT ![1][name] = <<>>]
              [] OTHER -> ref
  /\ UNCHANGED <<reader, phase, texts, endsWithTitle>>

-----------------------------------------------------------------------------
(* write_cdata: expat gives a text in one piece or in several.             *)

TextAfter(old, chunk) == IF old = Junk THEN <<chunk>> ELSE Append(old, chunk)

\* realloc, of NULL too.
WriteOver(chunk) == \* mutant: size is not counted
  IF memory = NULL THEN heap' = Append(heap, <<chunk>>) /\ memory' = Len(heap) + 1
                   ELSE heap' = [heap EXCEPT ![memory] = <<chunk>>] /\ UNCHANGED memory
Write(chunk) ==
  IF memory = NULL THEN heap' = Append(heap, <<chunk>>) /\ memory' = Len(heap) + 1
                   ELSE /\ heap' = [heap EXCEPT ![memory] = TextAfter(heap[memory], chunk)]
                        /\ UNCHANGED memory

Cdata ==
  /\ phase = "parsing" /\ texts < MaxText
  /\ texts' = texts + 1
  /\ IF start > 0 THEN Write(Piece) ELSE UNCHANGED <<heap, memory>>
  /\ ref' = CASE reader \in Searches -> IF Encloses("node") THEN Append(ref, Piece) ELSE ref
              [] Innermost \in Fields(reader) /\ ref # <<>> ->
                   [ref EXCEPT ![1][Innermost] = Append(@, Piece)]
              [] OTHER -> ref
  /\ UNCHANGED <<reader, phase, open, tags, start, data, plain, endsWithTitle>>

-----------------------------------------------------------------------------
(* end_element, end_applist_element, end_mode_element.                     *)

EndSearchFirst == start' = 0   \* mutant: a flag in place of the counter
EndSearch      == start' = start - (IF Innermost = "node" THEN 1 ELSE 0)

StoredOldest(value) == \* mutant: the other end of the list
  data' = [data EXCEPT ![Len(data)][Innermost] = value]
Stored(value) == data' = [data EXCEPT ![1][Innermost] = value]
FreeMemory    == heap' = [heap EXCEPT ![memory] = Freed] /\ memory' = NULL

\* The title keeps its block: the query goes on pointing to it.
TitleFreed == FreeMemory   \* mutant: freed like the other fields
TitleKept  == UNCHANGED <<heap, memory>>

\* The title is a pointer, the other fields are numbers read from the text.
EndApp ==
  /\ IF start = 0 \/ data = <<>> THEN UNCHANGED query
     ELSE /\ start' = 0
          /\ CASE Innermost = "AppTitle"         -> Stored(<<memory>>) /\ TitleKept
               [] Innermost \in Fields(reader) \ {"AppTitle"} -> Stored(heap[memory]) /\ FreeMemory
               [] OTHER                          -> UNCHANGED <<heap, memory, data>>

EndMode ==
  IF start = 0 \/ data = <<>> THEN UNCHANGED query
  ELSE /\ start' = 0 /\ FreeMemory
       /\ IF Innermost \in Fields(reader) THEN Stored(heap[memory]) ELSE UNCHANGED data

\* The text of the field that ends, as the document has it.
FieldText == IF ref = <<>> THEN <<>> ELSE ref[1][Innermost]

EndTag ==
  /\ phase = "parsing" /\ Len(open) > 1
  /\ CASE reader \in Searches -> EndSearch /\ UNCHANGED <<heap, memory, data>>
       [] reader = "applist" -> EndApp
       [] OTHER              -> EndMode
  /\ open' = Outer
  /\ plain' = (plain /\ (Innermost \in Fields(reader) => FieldText # <<>>))
  /\ endsWithTitle' = IF Innermost \in Fields(reader) THEN Innermost = "AppTitle" ELSE endsWithTitle
  /\ UNCHANGED <<reader, phase, tags, texts, ref>>

-----------------------------------------------------------------------------
(* The end of XML_Parse.                                                   *)

\* xml_applist and xml_modelist free what the query still points to; the text
\* that xml_search has found is its result.
EndDocument ==
  /\ phase = "parsing" /\ open = <<"root">>
  /\ phase' = IF reader = "required" /\ memory = NULL THEN "GS_INVALID" ELSE "GS_OK"
  /\ open' = <<>>
  /\ IF reader \notin Searches /\ memory # NULL THEN heap' = [heap EXCEPT ![memory] = Freed]
                                           ELSE UNCHANGED heap
  /\ UNCHANGED <<reader, tags, texts, memory, start, data, ref, plain, endsWithTitle>>

\* Not well-formed, or cut off.
XmlError ==
  /\ phase = "parsing"
  /\ phase' = "GS_INVALID" /\ open' = <<>>
  /\ IF memory # NULL THEN heap' = [heap EXCEPT ![memory] = Freed] ELSE UNCHANGED heap
  /\ UNCHANGED <<reader, tags, texts, memory, start, data, ref, plain, endsWithTitle>>

XmlNext == \/ \E name \in Names(reader) : StartTag(name)
           \/ Cdata \/ EndTag \/ EndDocument \/ XmlError

XmlSpec == XmlInit /\ [][XmlNext]_xmlVars

-----------------------------------------------------------------------------
\* xml_search returns the text of all elements of that name, in the order of
\* the document, with what is nested in them and nothing else: the counter is
\* above zero exactly within such an element, however they are nested.  What is
\* required and not there is no empty answer.
SearchFindsAll ==
  reader \in Searches /\ phase = "GS_OK" =>
    /\ heap[memory] = ref
    /\ reader = "required" => ref # <<>>

\* What an entry of the list says of a field: the title is its block's text.
Said(entry, f) == IF f = "AppTitle" /\ entry[f] # <<>> THEN heap[entry[f][1]] ELSE entry[f]

\* Of a document in which fields are directly in their element and not empty,
\* xml_applist and xml_modelist return every entry, each with its own fields,
\* whatever stands between them and in whichever order; except a title that no
\* other field of the document follows, which is freed (xml.c:100).
ListFaithful ==
  reader \notin Searches /\ phase = "GS_OK" /\ plain =>
    /\ Len(data) = Len(ref)
    /\ \A k \in DOMAIN data : \A f \in Fields(reader) :
         \/ f = "AppTitle" /\ endsWithTitle /\ data[k][f] = <<memory>>
         \/ Said(data[k], f) = ref[k][f]

\* In every document, well-formed or not: text is written to a block that is
\* allocated and belongs to no entry, and no entry's title is freed while the
\* document is being read.
TitleBlocks == {data[k].AppTitle[1] : k \in {j \in DOMAIN data : data[j].AppTitle # <<>>}}

BlocksOwned ==
  phase = "parsing" =>
    /\ memory = NULL => (start = 0 \/ reader = "required")
    /\ memory # NULL => heap[memory] # Freed
    /\ reader = "applist" => \A b \in TitleBlocks : heap[b] # Freed /\ (start > 0 => b # memory)
=============================================================================
