----------------------------- MODULE SpirvEntry -----------------------------
(***************************************************************************)
(* The annotation side of SPIRVEntry.cpp.  The module maps each SPIR-V id   *)
(* to one entry: absent, a forward reference (SPIRVForward, created by      *)
(* getOrCreate or getOrCreateTarget when an instruction names an id before *)
(* its definition), or the defined entry.  The decoders of OpName,          *)
(* OpEntryPoint and OpExecutionMode annotate the target through             *)
(* getOrCreateTarget; addDecorate, addMemberDecorate, the erase functions   *)
(* and setLinkageType work on any entry.  When the definition of a forward  *)
(* id is added, the new entry takes the forward's annotations              *)
(* (takeAnnotations).  Names are model values with a length, the only      *)
(* property of a string the word arithmetic reads.                          *)
(***************************************************************************)
EXTENDS Integers, Sequences

CONSTANTS
  Ids, DecorationKinds, Linkage, Literals, Members, Names, NoName,
  FunctionIds,         \* ids defined by an OpFunction
  NameLength,          \* NameLength[n]: the length in bytes of name n
  ExecModels,          \* execution models of OpEntryPoint
  EntryPointInstrs,    \* encoded OpEntryPoints: [model, target, name, inOuts]
  ModeInstrs,          \* encoded OpExecutionModes: [target, mode, words]
  DecorationInstrs,    \* decorations added: [kind, lit, lname]
  NextWord,            \* first word of the instruction after an OpEntryPoint
  MaxDecorations, MaxEntryPoints, MaxModuleDecorations, MaxModeCalls

ASSUME Linkage \in DecorationKinds /\ NoName \in Names /\ FunctionIds \subseteq Ids

\* no member decoration of the member and kind (literals are words, >= 0)
None == -1
Absent == "Absent"
Forward == "OpForward"
Ops == {"OpFunction", "OpVariable", "OpTypeStruct"}

\* the opcode of an id's definition: OpExecutionMode targets are functions
OpsOf(id) == IF id \in FunctionIds THEN {"OpFunction"} ELSE Ops \ {"OpFunction"}

\* SPIRVExecutionMode::decode: the literal words read for each mode, and the
\* float-control modes that are merged rather than added
MergeModes == {"DenormPreserve", "DenormFlushToZero", "SignedZeroInfNanPreserve",
               "RoundingModeRTE", "RoundingModeRTZ"}
LiteralCount(mode) ==
  CASE mode = "LocalSize" -> 3
    [] mode \in {"Invocations", "OutputVertices", "OutputPrimitivesEXT"} \cup MergeModes -> 1
    [] OTHER -> 0

\* getSizeInWords: the words of a nul-terminated, word-padded string
SizeInWords(n) == NameLength[n] \div 4 + 1

\* the words of an OpEntryPoint after its first (word count and opcode) word
EncodeEntryPoint(ep) ==
  <<ep.model, ep.target>> \o [i \in 1 .. SizeInWords(ep.name) |-> 0] \o ep.inOuts

NoEntry == [op |-> Absent, name |-> NoName, decs |-> <<>>,
            mdecs |-> [p \in Members \X DecorationKinds |-> None], modes |-> <<>>]

VARIABLES
  entry,               \* entry[id]: the entry the module maps id to
  moduleDecs,          \* how many decorations Module->addDecorate registered
                       \* (nothing in this file reads them back)
  entryPoints          \* the entry points registered by Module->addEntryPoint

vars == <<entry, moduleDecs, entryPoints>>

Exists(id) == entry[id].op # Absent
\* hasLinkageType
HasLinkageType(id) == entry[id].op \in {"OpFunction", "OpVariable"}
\* canHaveMemberDecorates: SPIRVForward and SPIRVTypeStruct
CanHaveMemberDecorates(id) == entry[id].op \in {Forward, "OpTypeStruct"}

Init ==
  /\ entry = [id \in Ids |-> NoEntry]
  /\ moduleDecs = 0
  /\ entryPoints = <<>>

-----------------------------------------------------------------------------
\* getOrCreate: an id that does not exist yet becomes a forward entry
GetOrCreate(id) ==
  /\ ~Exists(id)
  /\ entry' = [entry EXCEPT ![id].op = Forward]
  /\ UNCHANGED <<moduleDecs, entryPoints>>

\* getOrCreateTarget: annotations are only allowed on a forward entry
\* (assertion), and an absent target is created as one
TargetOf(e) == IF e.op = Absent THEN [e EXCEPT !.op = Forward] ELSE e
AnnotatableTarget(id) == entry[id].op \in {Absent, Forward}

\* SPIRVName::decode: Module->setName(getOrCreateTarget(), Str)
DecodeName(id, n) ==
  /\ AnnotatableTarget(id)
  /\ entry' = [entry EXCEPT ![id] = [TargetOf(@) EXCEPT !.name = n]]
  /\ UNCHANGED <<moduleDecs, entryPoints>>

\* SPIRVEntryPoint::decode: decode model, target and name, then as many
\* interface ids as the word count leaves, name the target, register
DecodeEntryPoint(ep) ==
  LET words == EncodeEntryPoint(ep) \o <<NextWord>>   \* the stream after word 0
      wordCount == 1 + Len(EncodeEntryPoint(ep))
      consumed == 4 * (2 + SizeInWords(ep.name))        \* Curr - Start in bytes
      numInOuts == wordCount - consumed \div 4 - 1
      inOuts == SubSeq(words, consumed \div 4 + 1, consumed \div 4 + numInOuts)
  IN /\ AnnotatableTarget(ep.target)
     /\ Len(entryPoints) < MaxEntryPoints
     /\ entry' = [entry EXCEPT ![ep.target] = [TargetOf(@) EXCEPT !.name = ep.name]]
     /\ entryPoints' = Append(entryPoints, [ep EXCEPT !.inOuts = inOuts])
     /\ UNCHANGED moduleDecs

\* SPIRVExecutionMode::decode: read LiteralCount(mode) literals, then merge
\* or add the mode on the target
DecodeExecutionMode(in) ==
  LET call == [mode |-> in.mode, lits |-> SubSeq(in.words, 1, LiteralCount(in.mode)),
               merge |-> in.mode \in MergeModes]
  IN /\ AnnotatableTarget(in.target)
     /\ Len(entry[in.target].modes) < MaxModeCalls
     /\ entry' = [entry EXCEPT ![in.target] = [TargetOf(@) EXCEPT !.modes = Append(@, call)]]
     /\ UNCHANGED <<moduleDecs, entryPoints>>

\* addDecorate: insert into the multimap, register with the module, and a
\* LinkageAttributes decoration sets the entry's name to the linkage name
AddDecorate(id, d) ==
  /\ Exists(id)
  /\ Len(entry[id].decs) < MaxDecorations
  /\ moduleDecs < MaxModuleDecorations
  /\ entry' = [entry EXCEPT ![id].decs = Append(@, d),
                            ![id].name = IF d.kind = Linkage THEN d.lname ELSE @]
  /\ moduleDecs' = moduleDecs + 1
  /\ UNCHANGED entryPoints

\* setLinkageType: add a LinkageAttributes decoration with the entry's name
SetLinkageType(id, lt) ==
  /\ HasLinkageType(id)
  /\ AddDecorate(id, [kind |-> Linkage, lit |-> lt, lname |-> entry[id].name])

\* eraseDecorate: Decorates.erase(Kind) removes every decoration of the kind
EraseDecorate(id, k) ==
  /\ Exists(id)
  /\ entry' = [entry EXCEPT ![id].decs = SelectSeq(@, LAMBDA d : d.kind # k)]
  /\ UNCHANGED <<moduleDecs, entryPoints>>

\* addMemberDecorate: MemberDecorates[(member, kind)] = Dec, and register
AddMemberDecorate(id, m, k, l) ==
  /\ Exists(id) /\ CanHaveMemberDecorates(id)
  /\ moduleDecs < MaxModuleDecorations
  /\ entry' = [entry EXCEPT ![id].mdecs[<<m, k>>] = l]
  /\ moduleDecs' = moduleDecs + 1
  /\ UNCHANGED entryPoints

\* eraseMemberDecorate
EraseMemberDecorate(id, m, k) ==
  /\ Exists(id)
  /\ entry' = [entry EXCEPT ![id].mdecs[<<m, k>>] = None]
  /\ UNCHANGED <<moduleDecs, entryPoints>>

\* takeDecorates and takeMemberDecorates: move-assign the forward's maps
TakeDecorates(new, fwd) == [new EXCEPT !.decs = fwd.decs]
TakeMemberDecorates(new, fwd) == [new EXCEPT !.mdecs = fwd.mdecs]
\* takeExecutionModes, called for an OpFunction only
TakeExecutionModes(new, fwd) ==
  IF new.op = "OpFunction" THEN [new EXCEPT !.modes = fwd.modes] ELSE new

\* variant: takeMemberDecorates left out
TakeAnnotationsNoMemberDecorates(new, fwd) ==
  TakeExecutionModes(TakeDecorates([new EXCEPT !.name = fwd.name], fwd), fwd)

\* takeAnnotations of the new entry from the forward one: the name through
\* Module->setName, then the decorations, the member decorations and, for
\* an OpFunction, the execution modes
TakeAnnotations(new, fwd) ==
  TakeExecutionModes(TakeMemberDecorates(TakeDecorates([new EXCEPT !.name = fwd.name], fwd), fwd), fwd)

\* the module adds the definition of an id: a new entry, which takes the
\* annotations of the forward entry it replaces
Define(id) ==
  /\ AnnotatableTarget(id)
  /\ \E op \in OpsOf(id) :
       LET new == [NoEntry EXCEPT !.op = op]
       IN entry' = [entry EXCEPT ![id] = IF @.op = Forward THEN TakeAnnotations(new, @) ELSE new]
  /\ UNCHANGED <<moduleDecs, entryPoints>>

Next ==
  \/ \E id \in Ids :
       \/ GetOrCreate(id)
       \/ Define(id)
       \/ \E n \in Names \ {NoName} : DecodeName(id, n)
       \/ \E d \in DecorationInstrs : AddDecorate(id, d)
       \/ \E lt \in Literals : SetLinkageType(id, lt)
       \/ \E k \in DecorationKinds : EraseDecorate(id, k)
       \/ \E m \in Members, k \in DecorationKinds :
            \/ \E l \in Literals : AddMemberDecorate(id, m, k, l)
            \/ EraseMemberDecorate(id, m, k)
  \/ \E ep \in EntryPointInstrs : DecodeEntryPoint(ep)
  \/ \E in \in ModeInstrs : DecodeExecutionMode(in)

Spec == Init /\ [][Next]_vars

-----------------------------------------------------------------------------
\* The annotations of an id, forward or defined, and the entry points as
\* their instructions encoded them.
Store == INSTANCE SpirvAnnotationStore
  WITH ann <- [id \in Ids |-> [name |-> entry[id].name, decs |-> entry[id].decs,
                               mdecs |-> entry[id].mdecs, modes |-> entry[id].modes]],
       ModeCalls <- {[mode |-> in.mode, lits |-> in.words, merge |-> in.mode \in MergeModes]
                     : in \in ModeInstrs},
       EntryPoints <- EntryPointInstrs

\* Whatever order names, entry points, execution modes, decorations and
\* member decorations arrive in, before or after the definition of their id,
\* every step of SPIRVEntry is a step of the per-id annotation store: the
\* definition (takeAnnotations) neither loses nor adds an annotation, and
\* the decoders of OpEntryPoint and OpExecutionMode recover the interface
\* ids and literals their instructions encoded.
SpirvEntryRefinesStore == Store!Spec
=============================================================================
