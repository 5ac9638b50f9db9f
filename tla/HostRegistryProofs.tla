------------------------- MODULE HostRegistryProofs -------------------------
(***************************************************************************)
(* Theorems about HostRegistry: type correctness, and that the registry    *)
(* implements DurableMap as long as no change starts while an operation of *)
(* an abandoned one still runs.                                            *)
(***************************************************************************)
EXTENDS HostRegistry, TLAPS

\* The changes one after the other: no handler is dropped, or there is one.
Serial == ~CanCancel \/ \A v, w \in Worker : v = w

Busy(w) == call[w].step # "idle"

\* One change at a time, whose text is the map; its file is the temporary one,
\* empty until it is written, and the file the next start loads is another.
DiskInv ==
    /\ \A v, w \in Worker : Busy(v) /\ Busy(w) => v = w
    /\ \A w \in Worker :
          /\ Busy(w) => call[w].text = memory
          /\ Busy(w) /\ ~CanCancel => call[w].attached
          /\ call[w].step \in {"write", "rename"} => call[w].fd = tmp
          /\ call[w].step = "write" => content[call[w].fd] = NoEntries
          /\ call[w].step = "rename" => content[call[w].fd] = memory
    /\ tmp # final
    /\ content[final] # Torn
-----------------------------------------------------------------------------

LEMMA TypeInit == Init => TypeOK
BY SentinelAssumption, BoundsAssumption
   DEF Init, TypeOK, Idle, Calls, Entries, NoEntries

\* The steps that make a change keep every variable's type.
LEMMA TypeChange ==
    ASSUME TypeOK, NEW w \in Worker, NEW p \in Place,
           NEW c \in Config \cup {None}, Change(w, p, c)
    PROVE  TypeOK'
<1>1. memory' \in Entries
  BY DEF TypeOK, Change, Entries
<1>2. /\ call' \in [Worker -> Calls]
      /\ \A v \in Worker :
            call'[v].step \in {"write", "rename"} => call'[v].fd \in Inode
  BY <1>1 DEF TypeOK, Change, Calls
<1> QED BY <1>1, <1>2 DEF TypeOK, Change

\* An operation that ends leaves its caller idle.
LEMMA TypeReturn ==
    ASSUME TypeOK, NEW w \in Worker, NEW ok \in BOOLEAN, Return(w, ok)
    PROVE  /\ call' \in [Worker -> Calls]
           /\ \A v \in Worker :
                 call'[v].step \in {"write", "rename"} => call'[v].fd \in Inode
           /\ persisted' \in BOOLEAN
<1>1. Idle \in Calls
  BY DEF Idle, Calls, Entries, NoEntries
<1>2. call' \in [Worker -> Calls]
  BY <1>1 DEF TypeOK, Return
<1>3. \A v \in Worker :
         call'[v].step \in {"write", "rename"} => call'[v].fd \in Inode
  BY DEF TypeOK, Return, Idle
<1>4. call[w].attached \in BOOLEAN
  BY DEF TypeOK, Calls
<1> QED BY <1>2, <1>3, <1>4 DEF TypeOK, Return

LEMMA TypeOpen == ASSUME TypeOK, NEW w \in Worker, Open(w) PROVE TypeOK'
<1>1. CASE Return(w, FALSE) /\ UNCHANGED <<tmp, content>>
  BY <1>1, TypeReturn DEF TypeOK, Open
<1>2. CASE \E i \in IF tmp = None THEN Unused ELSE {tmp} :
              /\ tmp' = i
              /\ content' = [content EXCEPT ![i] = NoEntries]
              /\ call' = [call EXCEPT ![w].step = "write", ![w].fd = i]
              /\ UNCHANGED persisted
  <2>1. PICK i \in Inode :
           /\ tmp' = i
           /\ content' = [content EXCEPT ![i] = NoEntries]
           /\ call' = [call EXCEPT ![w].step = "write", ![w].fd = i]
           /\ UNCHANGED persisted
    BY <1>2 DEF TypeOK, Unused
  <2>2. NoEntries \in Entries
    BY DEF NoEntries, Entries
  <2>3. content' \in [Inode -> Entries \cup {Torn}]
    BY <2>1, <2>2 DEF TypeOK
  <2>4. call' \in [Worker -> Calls]
    <3>1. call[w] \in Calls
      BY DEF TypeOK
    <3>2. [call[w] EXCEPT !.step = "write", !.fd = i] \in Calls
      BY <3>1 DEF Calls
    <3>3. call' = [call EXCEPT
                     ![w] = [call[w] EXCEPT !.step = "write", !.fd = i]]
      BY <2>1 DEF TypeOK
    <3> QED BY <3>2, <3>3 DEF TypeOK
  <2>5. \A v \in Worker :
           call'[v].step \in {"write", "rename"} => call'[v].fd \in Inode
    BY <2>1 DEF TypeOK, Calls
  <2> QED BY <2>1, <2>3, <2>4, <2>5 DEF TypeOK, Open
<1> QED BY <1>1, <1>2 DEF Open

LEMMA TypeWrite == ASSUME TypeOK, NEW w \in Worker, Write(w) PROVE TypeOK'
<1>1. /\ call[w].fd \in Inode
      /\ call[w].text \in Entries
  BY DEF TypeOK, Write, Calls
<1>2. content' \in [Inode -> Entries \cup {Torn}]
  BY <1>1 DEF TypeOK, Write
<1>3. CASE \E ok \in BOOLEAN : Return(w, ok)
  BY <1>2, <1>3, TypeReturn DEF TypeOK, Write
<1>4. CASE call' = [call EXCEPT ![w].step = "rename"] /\ UNCHANGED persisted
  <2>1. call' \in [Worker -> Calls]
    BY <1>4 DEF TypeOK, Calls
  <2>2. \A v \in Worker :
           call'[v].step \in {"write", "rename"} => call'[v].fd \in Inode
    BY <1>1, <1>4 DEF TypeOK, Calls
  <2> QED BY <1>2, <1>4, <2>1, <2>2 DEF TypeOK, Write
<1> QED BY <1>3, <1>4 DEF Write

LEMMA TypeRename == ASSUME TypeOK, NEW w \in Worker, Rename(w) PROVE TypeOK'
<1>1. \E ok \in BOOLEAN : Return(w, ok)
  BY DEF Rename
<1>2. tmp' \in Inode \cup {None} /\ final' \in Inode
  BY DEF TypeOK, Rename
<1> QED BY <1>1, <1>2, TypeReturn DEF TypeOK, Rename

LEMMA TypeCancel == ASSUME TypeOK, NEW w \in Worker, Cancel(w) PROVE TypeOK'
<1>1. Idle \in Calls
  BY DEF Idle, Calls, Entries, NoEntries
<1>2. call' \in [Worker -> Calls]
  <2>1. call[w] \in Calls
    BY DEF TypeOK
  <2>2. [call[w] EXCEPT !.attached = FALSE] \in Calls
    BY <2>1 DEF Calls
  <2>3. \/ call' = [call EXCEPT ![w] = [call[w] EXCEPT !.attached = FALSE]]
        \/ call' = [call EXCEPT ![w] = Idle]
    BY DEF TypeOK, Cancel
  <2> QED BY <1>1, <2>2, <2>3 DEF TypeOK
<1>3. \A v \in Worker :
         call'[v].step \in {"write", "rename"} => call'[v].fd \in Inode
  BY DEF TypeOK, Cancel, Calls, Idle
<1> QED BY <1>2, <1>3 DEF TypeOK, Cancel

LEMMA TypeCrash == ASSUME TypeOK, Crash PROVE TypeOK'
<1>1. Idle \in Calls
  BY DEF Idle, Calls, Entries, NoEntries
<1>2. memory' \in Entries
  BY DEF TypeOK, Crash
<1> QED BY <1>1, <1>2 DEF TypeOK, Crash, Idle

LEMMA TypeStep == TypeOK /\ [Next]_vars => TypeOK'
<1> SUFFICES ASSUME TypeOK, [Next]_vars PROVE TypeOK'
  OBVIOUS
<1>1. ASSUME NEW w \in Worker, NEW p \in Place, NEW c \in Config,
             Add(w, p, c) \/ Upsert(w, p, c) \/ SetCompatMode(w, p, c)
      PROVE  TypeOK'
  BY <1>1, TypeChange DEF Add, Upsert, SetCompatMode
<1>2. ASSUME NEW w \in Worker, NEW p \in Place, Remove(w, p) PROVE TypeOK'
  BY <1>2, TypeChange DEF Remove
<1>3. ASSUME NEW w \in Worker, Step(w) PROVE TypeOK'
  BY <1>3, TypeOpen, TypeWrite, TypeRename, TypeCancel DEF Step
<1>4. CASE Crash
  BY <1>4, TypeCrash
<1>5. CASE UNCHANGED vars
  BY <1>5 DEF vars, TypeOK
<1> QED BY <1>1, <1>2, <1>3, <1>4, <1>5 DEF Next

\* HostRegistry: every variable keeps its type, and an operation that writes
\* or renames has opened its file, for any number of handlers, dropped or not.
THEOREM TypeCorrect == Spec => []TypeOK
<1>1. Init => TypeOK
  BY TypeInit
<1>2. TypeOK /\ [Next]_vars => TypeOK'
  BY TypeStep
<1> QED BY <1>1, <1>2, PTL DEF Spec

-----------------------------------------------------------------------------

LEMMA DiskInit == Init => DiskInv
BY SentinelAssumption, TextAssumption DEF Init, DiskInv, Busy, Idle

\* A change finds every other handler idle.
LEMMA DiskChange ==
    ASSUME Serial, TypeOK, DiskInv, NEW w \in Worker, NEW p \in Place,
           NEW c \in Config \cup {None}, Change(w, p, c)
    PROVE  DiskInv'
<1>1. \A v \in Worker : ~Busy(v)
  <2>1. CASE ~CanCancel
    BY <2>1 DEF DiskInv, Change, Locked, Busy
  <2>2. CASE \A v \in Worker : v = w
    BY <2>2 DEF Change, Busy
  <2> QED BY <2>1, <2>2 DEF Serial
<1>2. \A v \in Worker :
         call'[v] = IF v = w THEN [step |-> "open", attached |-> TRUE,
                                   text |-> memory', fd |-> None]
                             ELSE call[v]
  BY DEF TypeOK, Change
<1> QED BY <1>1, <1>2 DEF DiskInv, Busy, Change

\* When the one busy handler returns, only the two files matter.
LEMMA DiskReturn ==
    ASSUME TypeOK, DiskInv, NEW w \in Worker, NEW ok \in BOOLEAN, Busy(w),
           Return(w, ok), tmp' # final', content'[final'] # Torn
    PROVE  DiskInv'
<1>1. \A v \in Worker : ~Busy(v)'
  BY DEF TypeOK, DiskInv, Busy, Return, Idle
<1> QED BY <1>1 DEF DiskInv, Busy

LEMMA DiskOpen ==
    ASSUME TypeOK, DiskInv, NEW w \in Worker, Open(w) PROVE DiskInv'
<1>1. Busy(w)
  BY DEF Open, Busy
<1>2. CASE Return(w, FALSE) /\ UNCHANGED <<tmp, content>>
  BY <1>1, <1>2, DiskReturn DEF Open, DiskInv
<1>3. CASE \E i \in IF tmp = None THEN Unused ELSE {tmp} :
              /\ tmp' = i
              /\ content' = [content EXCEPT ![i] = NoEntries]
              /\ call' = [call EXCEPT ![w].step = "write", ![w].fd = i]
              /\ UNCHANGED persisted
  <2>1. PICK i \in Inode :
           /\ i # final
           /\ tmp' = i
           /\ content' = [content EXCEPT ![i] = NoEntries]
           /\ call' = [call EXCEPT ![w].step = "write", ![w].fd = i]
    BY <1>3 DEF TypeOK, DiskInv, Unused
  <2>2. /\ \A v \in Worker \ {w} : call'[v] = call[v] /\ ~Busy(v)
        /\ call'[w].step = "write" /\ call'[w].fd = i
        /\ call'[w].text = call[w].text
        /\ call'[w].attached = call[w].attached
    <3>1. call[w] \in Calls
      BY DEF TypeOK
    <3>2. call' = [call EXCEPT
                     ![w] = [call[w] EXCEPT !.step = "write", !.fd = i]]
      BY <2>1 DEF TypeOK
    <3>3. call'[w] = [call[w] EXCEPT !.step = "write", !.fd = i]
      BY <3>2 DEF TypeOK
    <3>4. /\ call'[w].step = "write" /\ call'[w].fd = i
          /\ call'[w].text = call[w].text
          /\ call'[w].attached = call[w].attached
      BY <3>1, <3>3 DEF Calls
    <3>5. \A v \in Worker \ {w} : call'[v] = call[v]
      BY <3>2 DEF TypeOK
    <3>6. \A v \in Worker \ {w} : ~Busy(v)
      BY <1>1 DEF DiskInv
    <3> QED BY <3>4, <3>5, <3>6
  <2>3. content'[i] = NoEntries /\ content'[final] = content[final]
    BY <2>1 DEF TypeOK
  <2>4. memory' = memory /\ final' = final
    BY DEF Open
  <2>5. \A v \in Worker : Busy(v)' => v = w
    BY <2>2 DEF Busy
  <2>6. /\ call[w].text = memory
        /\ ~CanCancel => call[w].attached
        /\ content[final] # Torn
    BY <1>1 DEF DiskInv
  <2>7. \A v \in Worker :
           /\ Busy(v)' => call'[v].text = memory'
           /\ Busy(v)' /\ ~CanCancel => call'[v].attached
    BY <2>2, <2>4, <2>5, <2>6
  <2>8. \A v \in Worker :
           /\ call'[v].step # "rename"
           /\ call'[v].step = "write" => call'[v].fd = i
    BY <2>2 DEF Busy
  <2>9. tmp' = i /\ i # final' /\ content'[final'] # Torn
    BY <2>1, <2>3, <2>4, <2>6
  <2> QED BY <2>3, <2>5, <2>7, <2>8, <2>9 DEF DiskInv, Busy
<1> QED BY <1>2, <1>3 DEF Open

LEMMA DiskWrite ==
    ASSUME TypeOK, DiskInv, NEW w \in Worker, Write(w) PROVE DiskInv'
<1>1. /\ Busy(w) /\ call[w].fd \in Inode /\ call[w].fd = tmp
      /\ call[w].text = memory /\ content[call[w].fd] = NoEntries
  BY DEF TypeOK, DiskInv, Busy, Write
<1>2. content'[final] = content[final]
  BY <1>1 DEF TypeOK, DiskInv, Write
<1>3. CASE \E ok \in BOOLEAN : Return(w, ok)
  BY <1>1, <1>2, <1>3, DiskReturn DEF Write, DiskInv
<1>4. CASE /\ content' = [content EXCEPT ![call[w].fd] = memory]
           /\ call' = [call EXCEPT ![w].step = "rename"]
  <2>1. /\ \A v \in Worker \ {w} : call'[v] = call[v] /\ ~Busy(v)
        /\ call'[w].step = "rename" /\ call'[w].fd = call[w].fd
        /\ call'[w].text = call[w].text
        /\ call'[w].attached = call[w].attached
    BY <1>1, <1>4 DEF TypeOK, Calls, DiskInv
  <2>2. content'[call[w].fd] = memory
    BY <1>1, <1>4 DEF TypeOK
  <2> QED BY <1>1, <1>2, <2>1, <2>2 DEF Write, DiskInv, Busy
<1> QED BY <1>1, <1>3, <1>4 DEF Write

LEMMA DiskRename ==
    ASSUME TypeOK, DiskInv, NEW w \in Worker, Rename(w) PROVE DiskInv'
<1>1. /\ Busy(w) /\ call[w].fd = tmp /\ content[call[w].fd] = memory
  BY DEF DiskInv, Busy, Rename
<1>2. memory # Torn
  BY TextAssumption DEF TypeOK
<1>3. None \notin Inode
  BY SentinelAssumption
<1>4. tmp' # final' /\ content'[final'] # Torn
  BY <1>1, <1>2, <1>3 DEF TypeOK, DiskInv, Rename
<1>5. PICK ok \in BOOLEAN : Return(w, ok)
  BY DEF Rename
<1> QED BY <1>1, <1>4, <1>5, DiskReturn

LEMMA DiskCancel ==
    ASSUME TypeOK, DiskInv, NEW w \in Worker, Cancel(w) PROVE DiskInv'
<1>1. \A v \in Worker : v # w => call'[v] = call[v]
  BY DEF TypeOK, Cancel
<1>2. CASE call' = [call EXCEPT ![w].attached = FALSE]
  <2>1. /\ call'[w].step = call[w].step /\ call'[w].fd = call[w].fd
        /\ call'[w].text = call[w].text
    BY <1>2 DEF TypeOK, Calls
  <2> QED BY <1>1, <2>1 DEF Cancel, DiskInv, Busy
<1>3. CASE call' = [call EXCEPT ![w] = Idle]
  <2>1. call'[w] = Idle
    BY <1>3 DEF TypeOK
  <2> QED BY <1>1, <2>1 DEF Cancel, DiskInv, Busy, Idle
<1> QED BY <1>2, <1>3 DEF Cancel

LEMMA DiskCrash == ASSUME TypeOK, DiskInv, Crash PROVE DiskInv'
BY DEF TypeOK, DiskInv, Busy, Crash, Idle

LEMMA DiskStep == Serial /\ TypeOK /\ DiskInv /\ [Next]_vars => DiskInv'
<1> SUFFICES ASSUME Serial, TypeOK, DiskInv, [Next]_vars PROVE DiskInv'
  OBVIOUS
<1>1. ASSUME NEW w \in Worker, NEW p \in Place, NEW c \in Config,
             Add(w, p, c) \/ Upsert(w, p, c) \/ SetCompatMode(w, p, c)
      PROVE  DiskInv'
  BY <1>1, DiskChange DEF Add, Upsert, SetCompatMode
<1>2. ASSUME NEW w \in Worker, NEW p \in Place, Remove(w, p) PROVE DiskInv'
  BY <1>2, DiskChange DEF Remove
<1>3. ASSUME NEW w \in Worker, Step(w) PROVE DiskInv'
  BY <1>3, DiskOpen, DiskWrite, DiskRename, DiskCancel DEF Step
<1>4. CASE Crash
  BY <1>4, DiskCrash
<1>5. CASE UNCHANGED vars
  BY <1>5 DEF vars, DiskInv, Busy
<1> QED BY <1>1, <1>2, <1>3, <1>4, <1>5 DEF Next

\* tenant_router.rs, persist writes atomically: without overlapping changes
\* the file the next start loads is readable at every step, so that neither
\* an error nor a crash nor a disconnect can keep the server from starting.
THEOREM FileAlwaysLoads == ASSUME Serial PROVE Spec => []FileLoads
<1>1. Init => TypeOK /\ DiskInv
  BY TypeInit, DiskInit
<1>2. TypeOK /\ DiskInv /\ [Next]_vars => (TypeOK /\ DiskInv)'
  BY TypeStep, DiskStep
<1>3. DiskInv => FileLoads
  BY DEF DiskInv, FileLoads
<1> QED BY <1>1, <1>2, <1>3, PTL DEF Spec

-----------------------------------------------------------------------------

LEMMA PromiseInit == Init => Promise!Init
BY DEF Init, Promise!Init, Entries

\* Every step is a change, a save, a restart or a stutter of DurableMap.
LEMMA PromiseStep ==
    ASSUME Serial, TypeOK, DiskInv, [Next]_vars
    PROVE  [Promise!Next]_(Promise!vars)
<1>1. ASSUME NEW w \in Worker, NEW p \in Place,
             NEW c \in Config \cup {None}, Change(w, p, c)
      PROVE  Promise!Next
  BY <1>1 DEF Change, Promise!Next, Promise!Change
<1>2. ASSUME NEW w \in Worker, NEW p \in Place, NEW c \in Config,
             Add(w, p, c) \/ Upsert(w, p, c) \/ SetCompatMode(w, p, c)
      PROVE  Promise!Next
  BY <1>1, <1>2 DEF Add, Upsert, SetCompatMode
<1>3. ASSUME NEW w \in Worker, NEW p \in Place, Remove(w, p)
      PROVE  Promise!Next
  BY <1>1, <1>3 DEF Remove
<1>4. ASSUME NEW w \in Worker, Open(w)
      PROVE  UNCHANGED Promise!vars
  <2>1. CASE UNCHANGED content
    BY <1>4, <2>1 DEF Open, Promise!vars
  <2>2. CASE \E i \in IF tmp = None THEN Unused ELSE {tmp} :
                content' = [content EXCEPT ![i] = NoEntries]
    <3>1. PICK i \in Inode : /\ i # final
                             /\ content' = [content EXCEPT ![i] = NoEntries]
      BY <2>2 DEF TypeOK, DiskInv, Unused
    <3> QED BY <1>4, <3>1 DEF TypeOK, Open, Promise!vars
  <2> QED BY <1>4, <2>1, <2>2 DEF Open
<1>5. ASSUME NEW w \in Worker, Write(w)
      PROVE  UNCHANGED Promise!vars
  <2>1. call[w].fd \in Inode /\ call[w].fd # final
    BY <1>5 DEF TypeOK, DiskInv, Write
  <2> QED BY <1>5, <2>1 DEF TypeOK, Write, Promise!vars
<1>6. ASSUME NEW w \in Worker, Rename(w)
      PROVE  [Promise!Next]_(Promise!vars)
  <2>1. content[tmp] = memory
    BY <1>6 DEF DiskInv, Rename
  <2>2. CASE tmp # None /\ final' = tmp
    BY <1>6, <2>1, <2>2 DEF Rename, Promise!Next, Promise!Save
  <2>3. CASE UNCHANGED final
    BY <1>6, <2>3 DEF Rename, Promise!vars
  <2> QED BY <1>6, <2>2, <2>3 DEF Rename
<1>7. ASSUME NEW w \in Worker, Cancel(w)
      PROVE  UNCHANGED Promise!vars
  BY <1>7 DEF Cancel, Promise!vars
<1>8. CASE Crash
  BY <1>8 DEF DiskInv, Crash, Promise!Next, Promise!Restart
<1>9. CASE UNCHANGED vars
  BY <1>9 DEF vars, Promise!vars
<1> QED BY <1>2, <1>3, <1>4, <1>5, <1>6, <1>7, <1>8, <1>9 DEF Next, Step

\* TenantRegistry and its siblings: without overlapping changes the registry
\* implements DurableMap. The file changes only to a whole state of the map,
\* and a restart continues from it.
THEOREM Refinement == ASSUME Serial PROVE Spec => KeepsPromise
<1>1. Init => TypeOK /\ DiskInv
  BY TypeInit, DiskInit
<1>2. TypeOK /\ DiskInv /\ [Next]_vars => (TypeOK /\ DiskInv)'
  BY TypeStep, DiskStep
<1>3. Init => Promise!Init
  BY PromiseInit
<1>4. TypeOK /\ DiskInv /\ [Next]_vars => [Promise!Next]_(Promise!vars)
  BY PromiseStep
<1> QED BY <1>1, <1>2, <1>3, <1>4, PTL DEF Spec, KeepsPromise, Promise!Spec

-----------------------------------------------------------------------------

\* What DiskKeepsUp needs to be inductive: only a change holds the lock, and
\* an operation nobody waits for is one whose outcome does not count.
SavedInv ==
    /\ \A w \in Worker : call[w].attached => Busy(w)
    /\ \A w \in Worker : Busy(w) /\ ~call[w].attached => ~persisted
    /\ DiskKeepsUp

LEMMA SavedInit == Init => SavedInv
BY DEF Init, SavedInv, DiskKeepsUp, Locked, Busy, Idle

LEMMA SavedChange ==
    ASSUME Serial, TypeOK, DiskInv, SavedInv, NEW w \in Worker, NEW p \in Place,
           NEW c \in Config \cup {None}, Change(w, p, c)
    PROVE  SavedInv'
<1>1. \A v \in Worker : ~Busy(v)
  <2>1. CASE ~CanCancel
    BY <2>1 DEF DiskInv, Change, Locked, Busy
  <2>2. CASE \A v \in Worker : v = w
    BY <2>2 DEF Change, Busy
  <2> QED BY <2>1, <2>2 DEF Serial
<1>2. \A v \in Worker :
         call'[v] = IF v = w THEN [step |-> "open", attached |-> TRUE,
                                   text |-> memory', fd |-> None]
                             ELSE call[v]
  BY DEF TypeOK, Change
<1>3. Locked'
  BY <1>2 DEF Locked
<1> QED BY <1>1, <1>2, <1>3 DEF SavedInv, DiskKeepsUp, Busy

\* The one busy handler returns: with an error, or to nobody, or with the
\* map in the file.
LEMMA SavedReturn ==
    ASSUME TypeOK, DiskInv, SavedInv, NEW w \in Worker, NEW ok \in BOOLEAN,
           Busy(w), Return(w, ok),
           ok /\ call[w].attached => content'[final'] = memory'
    PROVE  SavedInv'
<1>1. \A v \in Worker : call'[v] = Idle \/ (~Busy(v) /\ call'[v] = call[v])
  BY DEF TypeOK, DiskInv, Return
<1>2. \A v \in Worker : ~call'[v].attached /\ call'[v].step = "idle"
  BY <1>1 DEF SavedInv, Busy, Idle
<1>3. persisted' => ok /\ call[w].attached
  BY DEF SavedInv, Return, TypeOK
<1> QED BY <1>2, <1>3 DEF SavedInv, DiskKeepsUp, Busy

\* A step of the one busy handler that leaves the map and the file alone.
LEMMA SavedOn ==
    ASSUME SavedInv, NEW w \in Worker, Busy(w),
           UNCHANGED <<memory, running, persisted>>,
           content'[final'] = content[final],
           \A v \in Worker : /\ call'[v].attached = call[v].attached
                             /\ call'[v].step = "idle" <=> call[v].step = "idle"
    PROVE  SavedInv'
BY DEF SavedInv, DiskKeepsUp, Busy, Locked

LEMMA SavedOpen ==
    ASSUME TypeOK, DiskInv, SavedInv, NEW w \in Worker, Open(w) PROVE SavedInv'
<1>1. Busy(w)
  BY DEF Open, Busy
<1>2. CASE Return(w, FALSE) /\ UNCHANGED <<tmp, content>>
  BY <1>1, <1>2, SavedReturn
<1>3. CASE \E i \in IF tmp = None THEN Unused ELSE {tmp} :
              /\ tmp' = i
              /\ content' = [content EXCEPT ![i] = NoEntries]
              /\ call' = [call EXCEPT ![w].step = "write", ![w].fd = i]
              /\ UNCHANGED persisted
  <2>1. PICK i \in Inode :
           /\ i # final
           /\ content' = [content EXCEPT ![i] = NoEntries]
           /\ call' = [call EXCEPT ![w].step = "write", ![w].fd = i]
           /\ UNCHANGED persisted
    BY <1>3 DEF TypeOK, DiskInv, Unused
  <2>2. \A v \in Worker : /\ call'[v].attached = call[v].attached
                          /\ call'[v].step = "idle" <=> call[v].step = "idle"
    BY <1>1, <2>1 DEF TypeOK, Calls, Busy
  <2>3. content'[final'] = content[final]
    BY <2>1 DEF TypeOK, Open
  <2>4. UNCHANGED <<memory, running, persisted>>
    BY <2>1 DEF Open
  <2> QED BY <1>1, <2>2, <2>3, <2>4, SavedOn
<1> QED BY <1>2, <1>3 DEF Open

LEMMA SavedWrite ==
    ASSUME TypeOK, DiskInv, SavedInv, NEW w \in Worker, Write(w) PROVE SavedInv'
<1>1. Busy(w) /\ call[w].fd = tmp
  BY DEF DiskInv, Busy, Write
<1>2. content'[final'] = content[final]
  BY <1>1 DEF TypeOK, DiskInv, Write
<1>3. CASE ~call[w].attached /\ Return(w, TRUE)
  BY <1>1, <1>3, SavedReturn
<1>4. CASE Return(w, FALSE)
  BY <1>1, <1>4, SavedReturn
<1>5. CASE call' = [call EXCEPT ![w].step = "rename"] /\ UNCHANGED persisted
  <2>1. \A v \in Worker : /\ call'[v].attached = call[v].attached
                          /\ call'[v].step = "idle" <=> call[v].step = "idle"
    BY <1>1, <1>5 DEF TypeOK, Calls, Busy
  <2>2. UNCHANGED <<memory, running, persisted>>
    BY <1>5 DEF Write
  <2> QED BY <1>1, <1>2, <2>1, <2>2, SavedOn
<1> QED BY <1>3, <1>4, <1>5 DEF Write

LEMMA SavedRename ==
    ASSUME TypeOK, DiskInv, SavedInv, NEW w \in Worker, Rename(w) PROVE SavedInv'
<1>1. Busy(w) /\ content[tmp] = memory
  BY DEF DiskInv, Busy, Rename
<1>2. CASE /\ final' = tmp /\ tmp' = None
           /\ Return(w, TRUE)
  BY <1>1, <1>2, SavedReturn DEF Rename
<1>3. CASE Return(w, FALSE)
  BY <1>1, <1>3, SavedReturn
<1> QED BY <1>2, <1>3 DEF Rename

LEMMA SavedCancel ==
    ASSUME TypeOK, SavedInv, NEW w \in Worker, Cancel(w) PROVE SavedInv'
<1>1. \A v \in Worker : \/ call'[v].attached = call[v].attached
                           /\ call'[v].step = call[v].step
                        \/ ~call'[v].attached
  BY DEF TypeOK, Cancel, Calls, Idle
<1>2. ~persisted'
  BY DEF Cancel
<1> QED BY <1>1, <1>2 DEF SavedInv, DiskKeepsUp, Busy

LEMMA SavedCrash == ASSUME TypeOK, Crash PROVE SavedInv'
<1>1. \A v \in Worker : call'[v] = Idle
  BY DEF Crash
<1>2. running' => content'[final'] = memory'
  BY DEF Crash
<1> QED BY <1>1, <1>2 DEF SavedInv, DiskKeepsUp, Busy, Idle

LEMMA SavedStep ==
    Serial /\ TypeOK /\ DiskInv /\ SavedInv /\ [Next]_vars => SavedInv'
<1> SUFFICES ASSUME Serial, TypeOK, DiskInv, SavedInv, [Next]_vars PROVE SavedInv'
  OBVIOUS
<1>1. ASSUME NEW w \in Worker, NEW p \in Place, NEW c \in Config,
             Add(w, p, c) \/ Upsert(w, p, c) \/ SetCompatMode(w, p, c)
      PROVE  SavedInv'
  BY <1>1, SavedChange DEF Add, Upsert, SetCompatMode
<1>2. ASSUME NEW w \in Worker, NEW p \in Place, Remove(w, p) PROVE SavedInv'
  BY <1>2, SavedChange DEF Remove
<1>3. ASSUME NEW w \in Worker, Step(w) PROVE SavedInv'
  BY <1>3, SavedOpen, SavedWrite, SavedRename, SavedCancel DEF Step
<1>4. CASE Crash
  BY <1>4, SavedCrash
<1>5. CASE UNCHANGED vars
  BY <1>5 DEF vars, SavedInv, DiskKeepsUp, Locked, Busy
<1> QED BY <1>1, <1>2, <1>3, <1>4, <1>5 DEF Next

\* tenant_router.rs, persist: without overlapping changes, a change that met
\* no error and was not abandoned is in the file as soon as it returns.
THEOREM DiskIsCurrent == ASSUME Serial PROVE Spec => []DiskKeepsUp
<1>1. Init => TypeOK /\ DiskInv /\ SavedInv
  BY TypeInit, DiskInit, SavedInit
<1>2. TypeOK /\ DiskInv /\ SavedInv /\ [Next]_vars
        => (TypeOK /\ DiskInv /\ SavedInv)'
  BY TypeStep, DiskStep, SavedStep
<1>3. SavedInv => DiskKeepsUp
  BY DEF SavedInv
<1> QED BY <1>1, <1>2, <1>3, PTL DEF Spec
=============================================================================
