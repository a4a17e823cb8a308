------------------------ MODULE SpirvAnnotationStore ------------------------
(***************************************************************************)
(* What the annotation interface of SPIRVEntry promises its clients: every *)
(* SPIR-V id carries one set of annotations (a name, an ordered multimap   *)
(* of decorations, a map of member decorations keyed by member and kind,   *)
(* and the execution-mode calls made for it), and each annotation          *)
(* operation on the id changes that set, whether the id is still a forward *)
(* reference or already defined.  A definition of the id is invisible      *)
(* here: it neither adds nor loses an annotation.                          *)
(***************************************************************************)
EXTENDS Integers, Sequences

CONSTANTS
  Ids,                 \* SPIR-V result ids
  DecorationKinds,     \* decoration kinds
  Linkage,             \* DecorationLinkageAttributes
  Literals,            \* decoration literals (the linkage type for Linkage)
  Members,             \* struct member numbers
  Names,               \* debug and linkage names
  NoName,              \* the empty name of an unnamed entry
  ModeCalls,           \* execution-mode calls: [mode, lits, merge]
  EntryPoints,         \* entry points: [model, target, name, inOuts]
  MaxDecorations,      \* bound on the decorations an id holds at once
  MaxEntryPoints,      \* bound on the entry points of the module
  MaxModeCalls         \* bound on the execution-mode calls of an id

ASSUME Linkage \in DecorationKinds /\ NoName \in Names

\* no member decoration of the member and kind (literals are words, >= 0)
None == -1

\* a decoration: its kind, its literal and, for LinkageAttributes, the name
Decorations == [kind : DecorationKinds, lit : Literals, lname : Names]

Annotations == [name : Names, decs : Seq(Decorations),
                mdecs : [Members \X DecorationKinds -> Literals \cup {None}],
                modes : Seq(ModeCalls)]

NoAnnotations == [name |-> NoName, decs |-> <<>>,
                  mdecs |-> [p \in Members \X DecorationKinds |-> None], modes |-> <<>>]

VARIABLES
  ann,                 \* ann[id]: the annotations of id
  entryPoints          \* the module's entry points, in order

SetName(id, n) == ann' = [ann EXCEPT ![id].name = n] /\ UNCHANGED entryPoints

\* a LinkageAttributes decoration also names the id
AddDecoration(id, d) ==
  /\ Len(ann[id].decs) < MaxDecorations
  /\ ann' = [ann EXCEPT ![id].decs = Append(@, d),
                        ![id].name = IF d.kind = Linkage THEN d.lname ELSE @]
  /\ UNCHANGED entryPoints

EraseDecoration(id, k) ==
  /\ ann' = [ann EXCEPT ![id].decs = SelectSeq(@, LAMBDA d : d.kind # k)]
  /\ UNCHANGED entryPoints

\* a member decoration of the same member and kind replaces the earlier one
AddMemberDecoration(id, m, k, l) ==
  ann' = [ann EXCEPT ![id].mdecs[<<m, k>>] = l] /\ UNCHANGED entryPoints

EraseMemberDecoration(id, m, k) ==
  ann' = [ann EXCEPT ![id].mdecs[<<m, k>>] = None] /\ UNCHANGED entryPoints

AddModeCall(id, call) ==
  /\ Len(ann[id].modes) < MaxModeCalls
  /\ ann' = [ann EXCEPT ![id].modes = Append(@, call)]
  /\ UNCHANGED entryPoints

\* an entry point is registered and names its function
AddEntryPoint(ep) ==
  /\ Len(entryPoints) < MaxEntryPoints
  /\ entryPoints' = Append(entryPoints, ep)
  /\ ann' = [ann EXCEPT ![ep.target].name = ep.name]

Init == ann = [id \in Ids |-> NoAnnotations] /\ entryPoints = <<>>

Next ==
  \E id \in Ids :
    \/ \E n \in Names : SetName(id, n)
    \/ \E d \in Decorations : AddDecoration(id, d)
    \/ \E k \in DecorationKinds : EraseDecoration(id, k)
    \/ \E m \in Members, k \in DecorationKinds :
         \/ \E l \in Literals : AddMemberDecoration(id, m, k, l)
         \/ EraseMemberDecoration(id, m, k)
    \/ \E call \in ModeCalls : AddModeCall(id, call)
  \/ \E ep \in EntryPoints : AddEntryPoint(ep)

Spec == Init /\ [][Next]_<<ann, entryPoints>>

=============================================================================
