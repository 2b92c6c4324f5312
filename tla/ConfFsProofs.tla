---------------------------- MODULE ConfFsProofs ----------------------------
(***************************************************************************)
(* Theorems about the file system callbacks and the event handlers, for    *)
(* any number of URIs, handles, restarts and edits of the database.        *)
(***************************************************************************)
EXTENDS ConfFs, LastLemmas, TLAPS

(* The invariant that the theorems rest on: the daemon serves without open  *)
(* handles, lines or tracing; lines come and go together with the cursor.   *)
Settled ==
  /\ phase = "serving" => files = <<>> /\ ~built
  /\ ~built => conf = <<>> /\ confi = 0 /\ given = <<>>
  /\ tracing = traceOn
  /\ since <= ver

IInv ==
  /\ TypeOK /\ Settled
  /\ InOrder /\ Reloaded /\ LinesThere /\ TracingOff

-----------------------------------------------------------------------------
(* The lines of a read are numbered without a gap, each with its version. *)
LEMMA ContentIsLines ==
  ASSUME NEW b \in Base \union {NoBase, Junk}, NEW v \in Nat
  PROVE  /\ Content(b, v) \in Seq(LineOf)
         /\ \A i \in DOMAIN Content(b, v) : Content(b, v)[i].ver = v
<1>1. Size[b] \in Nat
  BY ConfFsAssumption
<1>2. \A i \in 1..Size[b] : [base |-> b, ver |-> v, no |-> i] \in LineOf
  BY <1>1 DEF LineOf
<1>3. Content(b, v) \in [1..Size[b] -> LineOf]
  BY <1>1, <1>2 DEF Content
<1> QED
  BY <1>1, <1>3 DEF Content

(* The innermost handle. *)
LEMMA HandleTypes ==
  ASSUME TypeOK, files # <<>>
  PROVE  Len(files) \in Nat \ {0} /\ Top \in FileType
  BY DEF TypeOK, Top

LEMMA NewHandle ==
  ASSUME TypeOK, NEW uri \in Uri
  PROVE  /\ Append(files, Handle(uri)) \in Seq(FileType)
         /\ \A i \in DOMAIN Append(files, Handle(uri)) :
              Append(files, Handle(uri))[i].eof => i \in DOMAIN files /\ files[i].eof
<1>1. Handle(uri) \in FileType /\ ~Handle(uri).eof
  BY DEF Handle, FileType
<1>2. files \in Seq(FileType)
  BY DEF TypeOK
<1> QED
  BY <1>1, <1>2

(* What every call of sqlconf_fsio_open does to the pools and the URI. *)
LEMMA OpenTypes ==
  ASSUME TypeOK, Settled, NEW uri \in Uris, StartOpen(uri)
  PROVE  /\ uri \in Uri
         /\ pools' \in Nat
         /\ alive' \subseteq 1..pools'
         /\ confPool' \in alive'
         /\ baseId' \in [val : Base \union {NoBase}, pool : 0..pools']
         /\ tracing' \in BOOLEAN /\ tracing' = traceOn'
         /\ phase = "parsing"
<1>1. uri \in Uri
  BY ConfFsAssumption
<1>2. pools' = pools + 1 /\ alive' = alive \union {pools + 1} /\ confPool' = pools + 1
  BY DEF StartOpen
<1>3. pools' \in Nat /\ alive' \subseteq 1..pools' /\ confPool' \in alive'
  BY <1>2 DEF TypeOK
<1>4. baseId' \in [val : Base \union {NoBase}, pool : 0..pools']
  BY <1>1, <1>2 DEF TypeOK, StartOpen, ParsedBase, Uri
<1>5. Traces(uri) \in BOOLEAN
  BY <1>1 DEF Traces, Uri
<1>6. tracing' \in BOOLEAN /\ tracing' = traceOn'
  BY <1>5 DEF StartOpen, TypeOK, Settled
<1> QED
  BY <1>1, <1>3, <1>4, <1>6 DEF StartOpen

LEMMA Initially == Init => IInv
<1> SUFFICES ASSUME Init PROVE IInv
  OBVIOUS
<1> USE DEF Init
<1>1. <<>> \in Seq(FileType) /\ <<>> \in Seq(LineOf) /\ SubSeq(conf, 1, 0) = conf
  OBVIOUS
<1>2. TypeOK
  <2>1. phase \in {"parsing", "serving"} /\ pools \in Nat /\ confi \in Nat
    OBVIOUS
  <2>2. registered \in BOOLEAN /\ built \in BOOLEAN /\ tracing \in BOOLEAN /\ traceOn \in BOOLEAN
    OBVIOUS
  <2>3. alive \subseteq 1..pools /\ confPool \in alive \union {NoPool}
    OBVIOUS
  <2>4. baseId \in [val : Base \union {NoBase}, pool : 0..pools]
    BY DEF NoPool
  <2>5. source \in Uri
    BY DEF Uri
  <2>6. ver \in Nat /\ since \in Nat
    OBVIOUS
  <2> QED
    BY <1>1, <2>1, <2>2, <2>3, <2>4, <2>5, <2>6 DEF TypeOK
<1>3. InOrder
  BY <1>1 DEF InOrder
<1>4. Settled /\ TracingOff
  <2>1. since <= ver /\ phase # "serving"
    OBVIOUS
  <2>2. tracing = traceOn /\ conf = <<>> /\ confi = 0 /\ given = <<>>
    OBVIOUS
  <2> HIDE DEF Init
  <2> QED
    BY <2>1, <2>2 DEF Settled, TracingOff
<1>5. Reloaded /\ LinesThere
  BY DEF Reloaded, LinesThere
<1> QED
  BY <1>2, <1>3, <1>4, <1>5 DEF IInv

-----------------------------------------------------------------------------
(* One lemma per action. *)

LEMMA Rejects ==
  ASSUME IInv, NEW uri \in Uris, RejectUri(uri)
  PROVE  IInv'
<1> USE DEF IInv, RejectUri, parser, lineVars
<1>1. StartOpen(uri)
  OBVIOUS
<1>2. TypeOK'
  BY <1>1, OpenTypes DEF TypeOK
<1>3. Settled' /\ TracingOff'
  BY <1>1, OpenTypes DEF Settled, TracingOff
<1>4. InOrder' /\ Reloaded'
  BY DEF InOrder, Reloaded
<1>5. LinesThere'
  BY <1>1, OpenTypes DEF LinesThere
<1> QED
  BY <1>2, <1>3, <1>4, <1>5

LEMMA OpensAgain ==
  ASSUME IInv, NEW uri \in Uris, OpenAgain(uri)
  PROVE  IInv'
<1> USE DEF IInv, OpenAgain, parser, lineVars
<1>1. StartOpen(uri) /\ built
  OBVIOUS
<1>2. files' \in Seq(FileType)
  BY <1>1, OpenTypes, NewHandle
<1>3. TypeOK'
  BY <1>1, <1>2, OpenTypes DEF TypeOK
<1>4. Settled' /\ TracingOff'
  BY <1>1, OpenTypes DEF Settled, TracingOff
<1>5. InOrder'
  BY <1>1, OpenTypes, NewHandle DEF InOrder
<1>6. Reloaded' /\ LinesThere'
  BY <1>1, OpenTypes DEF Reloaded, LinesThere
<1> QED
  BY <1>3, <1>4, <1>5, <1>6

LEMMA OpensFirst ==
  ASSUME IInv, NEW uri \in Uris, OpenFirst(uri)
  PROVE  IInv'
<1> USE DEF IInv, OpenFirst, parser, lineVars
<1>1. StartOpen(uri) /\ ~built
  OBVIOUS
<1>2. files = <<>> /\ conf = <<>> /\ confi = 0 /\ given = <<>>
  BY <1>1 DEF LinesThere, Settled
<1>3. /\ phase' = phase /\ registered' = registered /\ ver' = ver /\ since' = since
      /\ confi' = 0 /\ given' = <<>>
      /\ phase = "parsing"
  BY <1>1, <1>2, OpenTypes
<1>4. CASE /\ files' = files
           /\ UNCHANGED <<built, conf, source>>
  <2>1. TypeOK'
    BY <1>1, <1>3, <1>4, OpenTypes DEF TypeOK
  <2>2. Settled' /\ TracingOff'
    BY <1>1, <1>2, <1>3, <1>4, OpenTypes DEF Settled, TracingOff
  <2>3. InOrder' /\ Reloaded' /\ LinesThere'
    BY <1>1, <1>2, <1>3, <1>4, OpenTypes DEF InOrder, Reloaded, LinesThere
  <2> QED
    BY <2>1, <2>2, <2>3
<1>5. CASE /\ files' = files \/ files' = Append(files, Handle(uri))
           /\ built' = TRUE /\ source' = uri
           /\ \E b \in BaseSeen(baseId', alive') : conf' = Content(b, ver)
  <2>1. baseId'.val \in Base \union {NoBase}
    BY <1>1, OpenTypes
  <2>2. PICK b \in Base \union {NoBase, Junk} : conf' = Content(b, ver)
    BY <1>5, <2>1 DEF BaseSeen
  <2>3. conf' \in Seq(LineOf) /\ \A i \in DOMAIN conf' : conf'[i].ver = ver
    BY <2>2, ContentIsLines DEF TypeOK
  <2>4. files' \in Seq(FileType) /\ \A i \in DOMAIN files' : ~files'[i].eof
    <3>1. uri \in Uri
      BY <1>1, OpenTypes
    <3>2. CASE files' = files
      BY <1>2, <3>2 DEF TypeOK
    <3>3. CASE files' = Append(files, Handle(uri))
      BY <1>2, <3>1, <3>3, NewHandle
    <3> QED
      BY <1>5, <3>2, <3>3
  <2>5. TypeOK'
    BY <1>1, <1>3, <1>5, <2>3, <2>4, OpenTypes DEF TypeOK
  <2>6. Settled' /\ TracingOff'
    BY <1>1, <1>2, <1>3, <1>5, OpenTypes DEF Settled, TracingOff
  <2>7. InOrder'
    BY <1>2, <1>3, <2>3, <2>4 DEF InOrder
  <2>8. Reloaded' /\ LinesThere'
    BY <1>1, <1>3, <1>5, <2>3, OpenTypes DEF Reloaded, LinesThere, Settled, TypeOK
  <2> QED
    BY <2>5, <2>6, <2>7, <2>8
<1> QED
  BY <1>4, <1>5

LEMMA Reads ==
  ASSUME IInv, ReadLine
  PROVE  IInv'
<1> USE DEF IInv, ReadLine, parser
<1> DEFINE line == conf[confi + 1]
           handle == [files[Len(files)] EXCEPT !.got = Append(@, line)]
<1>1. Len(files) \in Nat \ {0} /\ Top \in FileType /\ ~Top.eof
  BY HandleTypes
<1>2. line \in LineOf /\ confi + 1 \in 1..Len(conf)
  BY DEF TypeOK
<1>3. handle \in FileType /\ ~handle.eof
  <2>1. files[Len(files)] \in FileType /\ ~files[Len(files)].eof
    BY <1>1 DEF Top
  <2>2. \A s \in Seq(LineOf) : Append(s, line) \in Seq(LineOf)
    BY <1>2
  <2> HIDE DEF IInv, ReadLine, line
  <2> QED
    BY <2>1, <2>2 DEF FileType
<1>4. files' = [files EXCEPT ![Len(files)] = handle]
  OBVIOUS
<1>5. /\ files' \in Seq(FileType)
      /\ Len(files') = Len(files)
      /\ files'[Len(files)] = handle
      /\ \A i \in 1..(Len(files) - 1) : files'[i] = files[i]
  <2>1. files \in Seq(FileType) /\ files # <<>>
    BY DEF TypeOK
  <2> HIDE DEF handle, IInv, ReadLine
  <2> QED BY <1>3, <1>4, <2>1, LastReplaced
<1>6. given' \in Seq(LineOf)
  BY <1>2 DEF TypeOK
<1>7. TypeOK'
  BY <1>5, <1>6 DEF TypeOK
<1>8. Settled' /\ TracingOff' /\ Reloaded' /\ LinesThere'
  BY <1>5 DEF Settled, TracingOff, Reloaded, LinesThere
<1>9. given' = SubSeq(conf', 1, confi') /\ confi' <= Len(conf')
  <2>1. conf \in Seq(LineOf) /\ confi \in Nat /\ confi < Len(conf)
    BY DEF TypeOK
  <2>2. SubSeq(conf, 1, confi + 1) = Append(SubSeq(conf, 1, confi), conf[confi + 1])
    BY <2>1
  <2> QED
    BY <2>1, <2>2 DEF InOrder
<1>10. \A i \in DOMAIN files' : ~files'[i].eof
  <2>1. given # conf
    <3>1. Len(given) = confi /\ confi < Len(conf)
      BY DEF InOrder, TypeOK
    <3> QED BY <3>1
  <2>2. \A i \in DOMAIN files : ~files[i].eof
    BY <2>1 DEF InOrder
  <2> QED
    BY <1>1, <1>3, <1>5, <2>2
<1> QED
  BY <1>7, <1>8, <1>9, <1>10 DEF InOrder

LEMMA Ends ==
  ASSUME IInv, ReadEof
  PROVE  IInv'
<1> USE DEF IInv, ReadEof, parser, lineVars
<1> DEFINE handle == [files[Len(files)] EXCEPT !.eof = TRUE]
<1>1. Len(files) \in Nat \ {0} /\ Top \in FileType
  BY HandleTypes
<1>2. handle \in FileType
  BY <1>1 DEF FileType, Top
<1>3. files' = [files EXCEPT ![Len(files)] = handle]
  OBVIOUS
<1>4. files' \in Seq(FileType) /\ Len(files') = Len(files)
  <2>1. files \in Seq(FileType) /\ files # <<>>
    BY DEF TypeOK
  <2> HIDE DEF handle, IInv, ReadEof
  <2> QED BY <1>2, <1>3, <2>1, LastReplaced
<1>5. TypeOK'
  BY <1>4 DEF TypeOK
<1>6. Settled' /\ TracingOff' /\ Reloaded' /\ LinesThere'
  BY <1>4 DEF Settled, TracingOff, Reloaded, LinesThere
<1>7. given = conf
  <2>1. conf \in Seq(LineOf) /\ confi = Len(conf)
    BY DEF TypeOK, InOrder
  <2>2. SubSeq(conf, 1, Len(conf)) = conf
    BY <2>1
  <2> QED
    BY <2>1, <2>2 DEF InOrder
<1>8. InOrder'
  BY <1>7 DEF InOrder
<1> QED
  BY <1>5, <1>6, <1>8

LEMMA Closes ==
  ASSUME IInv, Close
  PROVE  IInv'
<1> USE DEF IInv, Close, parser, lineVars
<1>1. /\ files' \in Seq(FileType)
      /\ Len(files') = Len(files) - 1
      /\ \A i \in 1..(Len(files) - 1) : files'[i] = files[i]
  BY LastDropped DEF TypeOK
<1>2. Len(files) \in Nat \ {0}
  BY HandleTypes
<1>3. TypeOK'
  BY <1>1 DEF TypeOK
<1>4. Settled' /\ TracingOff' /\ Reloaded' /\ LinesThere'
  BY DEF Settled, TracingOff, Reloaded, LinesThere
<1>5. InOrder'
  BY <1>1, <1>2 DEF InOrder
<1> QED
  BY <1>3, <1>4, <1>5

LEMMA Forgets ==
  ASSUME IInv, Postparse
  PROVE  IInv'
<1> USE DEF IInv, Postparse
<1>1. tracing' = FALSE /\ traceOn' = FALSE
  BY DEF TraceReset, Settled, TypeOK
<1>2. NoPool \notin alive
  BY DEF NoPool, TypeOK
<1>3. /\ alive' \subseteq alive /\ confPool' = NoPool
      /\ built' = FALSE /\ conf' = <<>> /\ confi' = 0
  BY <1>2 DEF Forget, LinesThere, Settled, TypeOK
<1>4. <<>> \in Seq(LineOf) /\ SubSeq(<<>>, 1, 0) = <<>>
  OBVIOUS
<1>5. TypeOK'
  BY <1>1, <1>3, <1>4 DEF TypeOK
<1>6. Settled' /\ TracingOff'
  BY <1>1, <1>3 DEF Settled, TracingOff
<1>7. Reloaded' /\ LinesThere'
  BY <1>3 DEF Reloaded, LinesThere
<1>8. InOrder'
  BY <1>3, <1>4 DEF InOrder
<1> QED
  BY <1>5, <1>6, <1>7, <1>8

LEMMA Restarts ==
  ASSUME IInv, Restart
  PROVE  IInv'
<1> USE DEF IInv, Restart, lineVars
<1>1. TypeOK'
  BY DEF TypeOK
<1>2. conf = <<>>
  BY DEF Settled
<1>3. Settled' /\ TracingOff' /\ Reloaded' /\ LinesThere'
  BY <1>2 DEF Settled, TracingOff, Reloaded, LinesThere, TypeOK
<1>4. InOrder'
  BY DEF InOrder
<1> QED
  BY <1>1, <1>3, <1>4

LEMMA Edits ==
  ASSUME IInv, Edit
  PROVE  IInv'
<1> USE DEF IInv, Edit, lineVars
<1>1. TypeOK'
  BY DEF TypeOK
<1>2. Settled' /\ TracingOff' /\ Reloaded' /\ LinesThere'
  BY DEF Settled, TracingOff, Reloaded, LinesThere, TypeOK
<1>3. InOrder'
  BY DEF InOrder
<1> QED
  BY <1>1, <1>2, <1>3

LEMMA Step ==
  ASSUME IInv, [Next]_vars
  PROVE  IInv'
<1>1. CASE Open
  BY <1>1, Rejects, OpensAgain, OpensFirst DEF Open
<1>2. CASE ReadLine BY <1>2, Reads
<1>3. CASE ReadEof BY <1>3, Ends
<1>4. CASE Close BY <1>4, Closes
<1>5. CASE Postparse BY <1>5, Forgets
<1>6. CASE Restart BY <1>6, Restarts
<1>7. CASE Edit BY <1>7, Edits
<1>8. CASE UNCHANGED vars
  BY <1>8 DEF vars, IInv, TypeOK, Settled, InOrder, Reloaded, LinesThere, TracingOff
<1> QED
  BY <1>1, <1>2, <1>3, <1>4, <1>5, <1>6, <1>7, <1>8 DEF Next

LEMMA Invariant == Spec => []IInv
<1>1. Init => IInv
  BY Initially
<1>2. IInv /\ [Next]_vars => IInv'
  BY Step
<1> QED
  BY <1>1, <1>2, PTL DEF Spec

-----------------------------------------------------------------------------
(* Every variable always holds what the code may put there; in particular    *)
(* sqlconf_conf_pool is NULL or a pool that was not destroyed.               *)
THEOREM TypeCorrect == Spec => []TypeOK
<1>1. IInv => TypeOK
  BY DEF IInv
<1> QED
  BY Invariant, <1>1, PTL

(* The parser is given the lines of one read, from the first and without a   *)
(* gap or a repetition, and all of them before any handle ends.              *)
THEOREM DeliveredInOrder == Spec => []InOrder
<1>1. IInv => InOrder
  BY DEF IInv
<1> QED
  BY Invariant, <1>1, PTL

(* No line of an earlier parse survives a restart. *)
THEOREM NothingStale == Spec => []Reloaded
<1>1. IInv => Reloaded
  BY DEF IInv
<1> QED
  BY Invariant, <1>1, PTL

(* An open handle has lines behind it, in a pool that is alive. *)
THEOREM AlwaysLines == Spec => []LinesThere
<1>1. IInv => LinesThere
  BY DEF IInv
<1> QED
  BY Invariant, <1>1, PTL

(* Tracing that a URI turned on ends with the parse. *)
THEOREM TracingEnds == Spec => []TracingOff
<1>1. IInv => TracingOff
  BY DEF IInv
<1> QED
  BY Invariant, <1>1, PTL

-----------------------------------------------------------------------------
(* The refinement: what the parser gets is one file per parse.               *)

LEMMA FileInitially == Init => Promised!Init
BY DEF Init, Promised!Init

LEMMA FileStep ==
  ASSUME IInv, IInv', [Next]_vars
  PROVE  [Promised!Next]_Promised!vars
<1> USE DEF Promised!vars
<1> DEFINE ended == \E i \in DOMAIN files : files[i].eof
<1>1. CASE Open
  <2>1. PICK uri \in Uris : RejectUri(uri) \/ OpenAgain(uri) \/ OpenFirst(uri)
    BY <1>1 DEF Open
  <2>2. StartOpen(uri) /\ uri \in Uri
    BY <2>1, OpenTypes DEF RejectUri, OpenAgain, OpenFirst, IInv
  <2>3. \A f : f = Append(files, Handle(uri)) =>
          ((\E i \in DOMAIN f : f[i].eof) <=> ended)
    <3>1. Handle(uri).eof = FALSE /\ Handle(uri) \in FileType /\ files \in Seq(FileType)
      BY <2>2 DEF Handle, FileType, IInv, TypeOK
    <3> QED
      BY <3>1
  <2>4. CASE RejectUri(uri)
    BY <2>4 DEF RejectUri, parser, lineVars
  <2>5. CASE OpenAgain(uri)
    BY <2>3, <2>5 DEF OpenAgain, parser, lineVars
  <2>6. CASE OpenFirst(uri)
    <3>1. ~built /\ phase = "parsing" /\ files = <<>>
      BY <2>2, <2>6 DEF OpenFirst, StartOpen, IInv, LinesThere
    <3>2. ended' <=> ended
      BY <2>3, <2>6 DEF OpenFirst
    <3>3. CASE UNCHANGED <<built, conf>>
      BY <2>6, <3>2, <3>3 DEF OpenFirst, parser
    <3>4. CASE built' = TRUE /\ \E b \in BaseSeen(baseId', alive') : conf' = Content(b, ver)
      <4>1. baseId'.val \in Base \union {NoBase}
        BY DEF IInv, TypeOK
      <4>2. conf' \in ReadableAt(ver)
        BY <3>4, <4>1 DEF BaseSeen, ReadableAt
      <4>3. Promised!Take
        BY <2>6, <3>1, <3>2, <3>4, <4>2 DEF OpenFirst, parser, Promised!Take
      <4> QED
        BY <4>3 DEF Promised!Next
    <3> QED
      BY <2>6, <3>3, <3>4 DEF OpenFirst
  <2> QED
    BY <2>1, <2>4, <2>5, <2>6
<1>2. CASE ReadLine
  <2>1. Len(given) = confi /\ confi < Len(conf) /\ built
    BY <1>2 DEF ReadLine, IInv, InOrder, LinesThere, TypeOK
  <2>2. ~ended /\ ~ended'
    <3>1. ~ended
      <4>1. given # conf
        BY <2>1
      <4> QED
        BY <4>1 DEF IInv, InOrder
    <3>2. \A i \in DOMAIN files' : i \in DOMAIN files /\ files'[i].eof = files[i].eof
      BY <1>2 DEF ReadLine, IInv, TypeOK, FileType
    <3> QED
      BY <3>1, <3>2
  <2>3. Promised!Deliver
    BY <1>2, <2>1, <2>2 DEF ReadLine, parser, Promised!Deliver
  <2> QED
    BY <2>3 DEF Promised!Next
<1>3. CASE ReadEof
  <2>1. ended' /\ built
    BY <1>3, HandleTypes DEF ReadEof, IInv, TypeOK, LinesThere
  <2>2. given' = conf'
    BY <2>1 DEF IInv, InOrder
  <2>3. Promised!TellEnd
    BY <1>3, <2>1, <2>2 DEF ReadEof, parser, lineVars, Promised!TellEnd
  <2> QED
    BY <2>3 DEF Promised!Next
<1>4. CASE Close
  <2>1. ended
    BY <1>4, HandleTypes DEF Close, Top, IInv, TypeOK
  <2>2. CASE ended'
    BY <1>4, <2>1, <2>2 DEF Close, parser, lineVars
  <2>3. CASE ~ended'
    BY <1>4, <2>1, <2>3 DEF Close, parser, lineVars, Promised!Leave, Promised!Next
  <2> QED
    BY <2>2, <2>3
<1>5. CASE Postparse
  <2>1. ~ended /\ ~ended'
    BY <1>5 DEF Postparse
  <2>2. built' = FALSE /\ conf' = <<>>
    BY <1>5 DEF Postparse, IInv, Settled
  <2>3. Promised!Finish
    BY <1>5, <2>1, <2>2 DEF Postparse, Promised!Finish
  <2> QED
    BY <2>3 DEF Promised!Next
<1>6. CASE Restart
  BY <1>6 DEF Restart, lineVars, Promised!Reload, Promised!Next
<1>7. CASE Edit
  BY <1>7 DEF Edit, lineVars, Promised!Edit, Promised!Next
<1>8. CASE UNCHANGED vars
  BY <1>8 DEF vars
<1> QED
  BY <1>1, <1>2, <1>3, <1>4, <1>5, <1>6, <1>7, <1>8 DEF Next

(* The callbacks implement one file per parse, for any number of URIs,       *)
(* handles, failed reads, restarts and edits.                                *)
THEOREM Implements == Spec => OneFile
<1>1. Init => Promised!Init
  BY FileInitially
<1>2. IInv /\ IInv' /\ [Next]_vars => [Promised!Next]_Promised!vars
  BY FileStep
<1> QED
  BY Invariant, <1>1, <1>2, PTL DEF Spec, OneFile, Promised!Spec
=============================================================================
