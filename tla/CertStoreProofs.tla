-------------------------- MODULE CertStoreProofs --------------------------
(***************************************************************************)
(* Theorems about CertStore: type correctness for any number of concurrent *)
(* calls, and what the files promise as long as the calls for a host come  *)
(* one after the other.                                                    *)
(***************************************************************************)
EXTENDS CertStore, TLAPS

LEMMA TypeInit == Init => TypeOK
BY BoundsAssumption DEF Init, TypeOK, Idle, Calls, File

LEMMA IdleType == Idle \in Calls
BY DEF Idle, Calls, File

\* What the steps do to the call that takes them, and to no other.
LEMMA ReturnMoves ==
    ASSUME TypeOK, NEW w \in Worker, NEW ok \in BOOLEAN, Return(w, ok)
    PROVE  /\ call' \in [Worker -> Calls] /\ persisted' \in BOOLEAN
           /\ call'[w] = Idle /\ \A v \in Worker \ {w} : call'[v] = call[v]
           /\ persisted' = (ok /\ persisted)
<1>1. persisted' \in BOOLEAN
  BY DEF TypeOK, Return
<1> QED BY <1>1, IdleType DEF TypeOK, Return

LEMMA NextFileMoves ==
    ASSUME TypeOK, NEW w \in Worker, NEW s \in {"open", "unlink"}, NextFile(w, s)
    PROVE  /\ call' \in [Worker -> Calls] /\ persisted' = persisted
           /\ \A v \in Worker \ {w} : call'[v] = call[v]
           /\ IF call[w].file = "pem"
              THEN /\ call'[w].step = s /\ call'[w].file = "key"
                   /\ call'[w].fd = None /\ call'[w].cert = call[w].cert
              ELSE call'[w] = Idle
<1>1. CASE call[w].file = "pem"
  <2> DEFINE m1 == [call EXCEPT ![w].file = "key"]
             m2 == [m1 EXCEPT ![w].step = s]
  <2>1. call' = [m2 EXCEPT ![w].fd = None] /\ persisted' = persisted
    BY <1>1 DEF NextFile
  <2>2. /\ m1 \in [Worker -> Calls]
        /\ \A v \in Worker \ {w} : m1[v] = call[v]
        /\ m1[w].file = "key" /\ m1[w].cert = call[w].cert
    BY DEF TypeOK, Calls, File
  <2> HIDE DEF m1
  <2>3. /\ m2 \in [Worker -> Calls]
        /\ \A v \in Worker \ {w} : m2[v] = call[v]
        /\ m2[w].file = "key" /\ m2[w].cert = call[w].cert /\ m2[w].step = s
    BY <2>2 DEF Calls
  <2> HIDE DEF m2
  <2>4. /\ call' \in [Worker -> Calls]
        /\ \A v \in Worker \ {w} : call'[v] = call[v]
        /\ call'[w].file = "key" /\ call'[w].cert = call[w].cert
        /\ call'[w].step = s /\ call'[w].fd = None
    BY <2>1, <2>3 DEF Calls
  <2> QED BY <1>1, <2>1, <2>4
<1>2. CASE call[w].file # "pem"
  BY <1>2, ReturnMoves DEF NextFile, TypeOK
<1> QED BY <1>1, <1>2

LEMMA StartMoves ==
    ASSUME TypeOK, NEW w \in Worker, NEW s \in {"open", "unlink"},
           NEW c \in Cert \cup {None}, Start(w, s, c)
    PROVE  /\ call' \in [Worker -> Calls] /\ persisted' = TRUE /\ ops' \in Nat
           /\ \A v \in Worker \ {w} : call'[v] = call[v]
           /\ call'[w].step = s /\ call'[w].file = "pem"
           /\ call'[w].cert = c /\ call'[w].fd = None
<1> DEFINE new == [step |-> s, file |-> "pem", cert |-> c, fd |-> None]
<1>1. [[Idle EXCEPT !.step = s] EXCEPT !.cert = c] = new
  <2>1. [Idle EXCEPT !.step = s] = [step |-> s, file |-> "pem", cert |-> None, fd |-> None]
    BY DEF Idle
  <2>2. [[step |-> s, file |-> "pem", cert |-> None, fd |-> None] EXCEPT !.cert = c] = new
    OBVIOUS
  <2> QED BY <2>1, <2>2, Zenon
<1>2. new \in Calls
  BY DEF Calls, File
<1>3. call' = [call EXCEPT ![w] = new] /\ persisted' = TRUE /\ ops' = ops + 1
  BY <1>1 DEF Start
<1>4. call' \in [Worker -> Calls] /\ call'[w] = new
      /\ \A v \in Worker \ {w} : call'[v] = call[v]
  BY <1>2, <1>3 DEF TypeOK
<1> QED BY <1>3, <1>4 DEF TypeOK

LEMMA OpenMoves ==
    ASSUME TypeOK, NEW w \in Worker, NEW i \in Inode,
           call' = [call EXCEPT ![w].step = "write", ![w].fd = i]
    PROVE  /\ call' \in [Worker -> Calls]
           /\ \A v \in Worker \ {w} : call'[v] = call[v]
           /\ call'[w].step = "write" /\ call'[w].fd = i
           /\ call'[w].file = call[w].file /\ call'[w].cert = call[w].cert
<1>1. call' = [call EXCEPT ![w] = [call[w] EXCEPT !.step = "write", !.fd = i]]
  BY DEF TypeOK
<1>2. [call[w] EXCEPT !.step = "write", !.fd = i] \in Calls
  BY DEF TypeOK, Calls
<1>3. /\ call'[w] = [call[w] EXCEPT !.step = "write", !.fd = i]
      /\ call' \in [Worker -> Calls]
      /\ \A v \in Worker \ {w} : call'[v] = call[v]
  BY <1>1, <1>2 DEF TypeOK
<1> QED BY <1>3 DEF TypeOK, Calls

-----------------------------------------------------------------------------

\* Only an upsert has files to write, so it has a certificate.
HasCert ==
    \A w \in Worker :
       call[w].step \in {"open", "write", "rename"} => call[w].cert \in Cert

LEMMA TypeStep == TypeOK /\ HasCert /\ [Next]_vars => (TypeOK /\ HasCert)'
<1> SUFFICES ASSUME TypeOK, HasCert, [Next]_vars PROVE (TypeOK /\ HasCert)'
  OBVIOUS
<1> DEFINE CallsTyped ==
             /\ call \in [Worker -> Calls]
             /\ \A w \in Worker :
                   call[w].step \in {"write", "rename"} =>
                      call[w].fd \in Inode /\ call[w].cert \in Cert
             /\ HasCert
<1>0. CallsTyped /\ Idle.step = "idle"
  BY DEF TypeOK, Idle
<1>0a. ASSUME NEW w \in Worker, NEW s \in {"open", "unlink"},
              NEW c \in Cert \cup {None}, Start(w, s, c),
              s = "open" => c \in Cert
       PROVE  CallsTyped' /\ persisted' \in BOOLEAN /\ ops' \in Nat
  <2>1. /\ call' \in [Worker -> Calls] /\ persisted' = TRUE /\ ops' \in Nat
        /\ \A v \in Worker \ {w} : call'[v] = call[v]
        /\ call'[w].step = s /\ call'[w].cert = c
    BY <1>0a, StartMoves
  <2>2. CallsTyped'
    BY <1>0, <1>0a, <2>1 DEF HasCert
  <2> QED BY <2>1, <2>2
<1>1. ASSUME NEW w \in Worker, NEW c \in Cert, Upsert(w, c) PROVE (TypeOK /\ HasCert)'
  <2>1. Start(w, "open", c)
    BY <1>1 DEF Upsert
  <2>2. CallsTyped' /\ persisted' \in BOOLEAN /\ ops' \in Nat
    BY <1>0a, <2>1 DEF HasCert
  <2>3. memory' \in [chain : Cert, key : Cert]
    BY <1>1 DEF Upsert, Served
  <2> QED BY <1>1, <2>2, <2>3 DEF Upsert, TypeOK
<1>2. ASSUME NEW w \in Worker, Remove(w) PROVE (TypeOK /\ HasCert)'
  <2>1. Start(w, "unlink", None)
    BY <1>2 DEF Remove
  <2>2. CallsTyped' /\ persisted' \in BOOLEAN /\ ops' \in Nat
    BY <1>0a, <2>1 DEF HasCert
  <2> QED BY <1>2, <2>2 DEF Remove, TypeOK
<1>3. ASSUME NEW w \in Worker, NEW ok \in BOOLEAN, Return(w, ok)
      PROVE  CallsTyped' /\ persisted' \in BOOLEAN
  BY <1>0, <1>3, ReturnMoves DEF HasCert
<1>4. ASSUME NEW w \in Worker, Open(w) PROVE (TypeOK /\ HasCert)'
  <2>0. call[w].file \in File /\ call[w].cert \in Cert
    BY <1>4 DEF Open, TypeOK, HasCert, Calls
  <2>1. CASE Return(w, FALSE) /\ UNCHANGED <<tmp, content>>
    BY <1>3, <1>4, <2>1 DEF Open, TypeOK
  <2>2. ASSUME NEW i \in Inode,
               tmp' = [tmp EXCEPT ![call[w].file] = i],
               content' = [content EXCEPT ![i] = Empty],
               call' = [call EXCEPT ![w].step = "write", ![w].fd = i],
               UNCHANGED persisted
        PROVE  (TypeOK /\ HasCert)'
    <3>1. /\ call' \in [Worker -> Calls]
          /\ \A v \in Worker \ {w} : call'[v] = call[v]
          /\ call'[w].fd = i /\ call'[w].step = "write"
          /\ call'[w].file \in File /\ call'[w].cert \in Cert
      BY <2>0, <2>2, OpenMoves
    <3>1a. CallsTyped'
      BY <1>0, <2>2, <3>1 DEF HasCert
    <3>2. tmp' \in [File -> Inode \cup {None}]
          /\ content' \in [Inode -> Cert \cup {Empty, Torn}]
      BY <2>0, <2>2 DEF TypeOK
    <3> QED BY <1>4, <2>2, <3>1a, <3>2 DEF Open, TypeOK
  <2>3. \A i \in IF tmp[call[w].file] = None THEN Unused ELSE {tmp[call[w].file]} :
           i \in Inode
    BY <2>0 DEF TypeOK, Unused
  <2> QED BY <1>4, <2>1, <2>2, <2>3 DEF Open
<1>5. ASSUME NEW w \in Worker, Write(w) PROVE (TypeOK /\ HasCert)'
  <2>0. call[w].fd \in Inode /\ call[w].cert \in Cert
    BY <1>5 DEF Write, TypeOK
  <2>1. content' \in [Inode -> Cert \cup {Empty, Torn}]
    BY <1>5, <2>0 DEF Write, TypeOK
  <2>2. CASE Return(w, FALSE)
    BY <1>3, <1>5, <2>1, <2>2 DEF Write, TypeOK
  <2>3. CASE call' = [call EXCEPT ![w].step = "rename"] /\ UNCHANGED persisted
    <3>1. CallsTyped'
      BY <1>0, <2>0, <2>3 DEF HasCert, Calls
    <3> QED BY <1>5, <2>1, <2>3, <3>1 DEF Write, TypeOK
  <2> QED BY <1>5, <2>2, <2>3 DEF Write
<1>6. ASSUME NEW w \in Worker, NEW s \in {"open", "unlink"}, NextFile(w, s),
             s = "open" => call[w].cert \in Cert
      PROVE  CallsTyped' /\ persisted' \in BOOLEAN
  <2>1. persisted' \in BOOLEAN
    BY <1>6, NextFileMoves DEF TypeOK
  <2> QED BY <1>0, <1>6, <2>1, NextFileMoves DEF HasCert
<1>7. ASSUME NEW w \in Worker, Rename(w) PROVE (TypeOK /\ HasCert)'
  <2>0. call[w].file \in File /\ call[w].cert \in Cert
    BY <1>7 DEF Rename, TypeOK, Calls
  <2>1. /\ tmp' \in [File -> Inode \cup {None}]
        /\ final' \in [File -> Inode \cup {None}]
    BY <1>7, <2>0 DEF Rename, TypeOK
  <2>2. CallsTyped' /\ persisted' \in BOOLEAN
    BY <1>3, <1>6, <1>7, <2>0 DEF Rename
  <2> QED BY <1>7, <2>1, <2>2 DEF Rename, TypeOK
<1>8. ASSUME NEW w \in Worker, Unlink(w) PROVE (TypeOK /\ HasCert)'
  <2>1. final' \in [File -> Inode \cup {None}]
    BY <1>8 DEF Unlink, TypeOK
  <2>2. CASE call' = [call EXCEPT ![w].file = "key"] /\ persisted' = FALSE
    <3>1. CallsTyped'
      BY <1>0, <2>2 DEF HasCert, Calls, File
    <3> QED BY <1>8, <2>1, <2>2, <3>1 DEF Unlink, TypeOK
  <2>3. CASE NextFile(w, "unlink") \/ Return(w, FALSE)
    <3>1. CallsTyped' /\ persisted' \in BOOLEAN
      BY <1>3, <1>6, <2>3
    <3> QED BY <1>8, <2>1, <3>1 DEF Unlink, TypeOK
  <2> QED BY <1>8, <2>2, <2>3 DEF Unlink
<1>9. CASE Crash
  <2>1. memory' \in [chain : Cert, key : Cert] \cup {None}
    BY <1>9 DEF Crash, Loaded, Served, File
  <2>2. CallsTyped'
    BY <1>0, <1>9, IdleType DEF Crash, HasCert
  <2> QED BY <1>9, <2>1, <2>2 DEF Crash, TypeOK
<1>10. CASE UNCHANGED vars
  BY <1>10 DEF vars, TypeOK, HasCert
<1> QED BY <1>1, <1>2, <1>4, <1>5, <1>7, <1>8, <1>9, <1>10 DEF Next

\* Whatever calls run at the same time, fail or die, every variable keeps its
\* type: above all, a call writes only through a file it has opened.
THEOREM TypeCorrect == Spec => []TypeOK
<1>1. Init => TypeOK /\ HasCert
  BY TypeInit DEF Init, HasCert, Idle
<1> QED BY <1>1, TypeStep, PTL DEF Spec
-----------------------------------------------------------------------------
(* One call at a time.                                                     *)

\* The calls for a host come one after the other: there is one worker at most.
Serial == \A v, w \in Worker : v = w

Writing == {"write", "rename"}

\* The file being written is the one under the temporary name, which no final
\* name shares, and every final name has a complete file.
FilesInv ==
    /\ \A f, g \in File : tmp[f] # None => tmp[f] # final[g]
    /\ \A f, g \in File : tmp[f] # None /\ f # g => tmp[f] # tmp[g]
    /\ \A w \in Worker :
          /\ call[w].step \in Writing => call[w].fd = tmp[call[w].file]
          /\ call[w].step = "write" => content[call[w].fd] = Empty
          /\ call[w].step = "rename" => content[call[w].fd] = call[w].cert
    /\ NeverPartial

\* How far the files have followed memory: the chain is there when the key is
\* written, and gone when the key is removed.
RestartInv ==
    persisted =>
       /\ (\A w \in Worker : call[w].step = "idle") => Loaded = memory
       /\ \A w \in Worker :
             /\ call[w].step \in {"open", "write", "rename"} =>
                   /\ memory = Served(call[w].cert, call[w].cert)
                   /\ call[w].file = "key" =>
                         /\ final["pem"] # None
                         /\ content[final["pem"]] = call[w].cert
             /\ call[w].step = "unlink" =>
                   /\ memory = None
                   /\ call[w].file = "key" => final["pem"] = None

\* Nothing that a final name refers to is touched when a file is opened.
LEMMA OpenIsFresh ==
    ASSUME TypeOK, FilesInv, NEW w \in Worker,
           NEW i \in IF tmp[call[w].file] = None THEN Unused ELSE {tmp[call[w].file]}
    PROVE  /\ i \in Inode /\ \A g \in File : i # final[g]
           /\ \A g \in File \ {call[w].file} : i # tmp[g]
<1>1. call[w].file \in File
  BY DEF TypeOK, Calls
<1> QED BY <1>1 DEF TypeOK, Unused, FilesInv

\* A worker that has returned, or has just started, has no file open.
LEMMA NotWriting ==
    ASSUME TypeOK, FilesInv, Serial, NEW w \in Worker,
           call'[w].step \notin Writing,
           NeverPartial',
           \A f, g \in File : tmp'[f] # None => tmp'[f] # final'[g],
           \A f, g \in File : tmp'[f] # None /\ f # g => tmp'[f] # tmp'[g]
    PROVE  FilesInv'
BY DEF Serial, Writing, FilesInv

LEMMA FilesStep ==
    ASSUME Serial, TypeOK, HasCert, FilesInv, Next
    PROVE  FilesInv'
<1>1. ASSUME NEW w \in Worker, NEW s \in {"open", "unlink"},
             NEW c \in Cert \cup {None}, Start(w, s, c),
             UNCHANGED <<tmp, final, content>>
      PROVE  FilesInv'
  <2>1. call'[w].step = s
    BY <1>1, StartMoves
  <2>2. s \notin Writing
    BY DEF Writing
  <2> QED BY <1>1, <2>1, <2>2, NotWriting DEF FilesInv, NeverPartial
<1>2. ASSUME NEW w \in Worker, NEW ok \in BOOLEAN, Return(w, ok)
      PROVE  call'[w].step \notin Writing
  BY <1>2, ReturnMoves DEF Writing, Idle
<1>3. ASSUME NEW w \in Worker, NEW s \in {"open", "unlink"}, NextFile(w, s)
      PROVE  call'[w].step \notin Writing
  BY <1>3, NextFileMoves DEF Writing, Idle
<1>4. ASSUME NEW w \in Worker, Open(w) PROVE FilesInv'
  <2> DEFINE f == call[w].file
  <2>0. f \in File /\ call[w].step = "open" /\ UNCHANGED final
    BY <1>4 DEF Open, TypeOK, Calls
  <2>1. CASE Return(w, FALSE) /\ UNCHANGED <<tmp, content>>
    BY <1>2, <2>0, <2>1, NotWriting DEF FilesInv, NeverPartial
  <2>2. ASSUME NEW i \in IF tmp[f] = None THEN Unused ELSE {tmp[f]},
               tmp' = [tmp EXCEPT ![f] = i],
               content' = [content EXCEPT ![i] = Empty],
               call' = [call EXCEPT ![w].step = "write", ![w].fd = i]
        PROVE  FilesInv'
    <3>1. /\ i \in Inode /\ \A g \in File : i # final[g]
          /\ \A g \in File \ {f} : i # tmp[g]
      BY <2>2, OpenIsFresh
    <3>2. /\ call'[w].step = "write" /\ call'[w].fd = i /\ call'[w].file = f
      BY <2>2, <3>1, OpenMoves
    <3>3. /\ tmp'[f] = i /\ \A g \in File \ {f} : tmp'[g] = tmp[g]
          /\ content'[i] = Empty /\ \A j \in Inode \ {i} : content'[j] = content[j]
      BY <2>0, <2>2, <3>1 DEF TypeOK
    <3>4. NeverPartial'
      BY <2>0, <3>1, <3>3 DEF FilesInv, NeverPartial, TypeOK
    <3>5. /\ \A g, h \in File : tmp'[g] # None => tmp'[g] # final'[h]
          /\ \A g, h \in File : tmp'[g] # None /\ g # h => tmp'[g] # tmp'[h]
      BY <2>0, <3>1, <3>3 DEF FilesInv
    <3> QED BY <3>2, <3>3, <3>4, <3>5 DEF FilesInv, Serial
  <2> QED BY <1>4, <2>1, <2>2 DEF Open
<1>5. ASSUME NEW w \in Worker, Write(w) PROVE FilesInv'
  <2> DEFINE i == call[w].fd
             c == call[w].cert
  <2>0. /\ call[w].step = "write" /\ UNCHANGED <<tmp, final>>
        /\ i \in Inode /\ c \in Cert /\ call[w].file \in File
        /\ i = tmp[call[w].file] /\ content[i] = Empty
    BY <1>5 DEF Write, TypeOK, FilesInv, Calls, Writing
  <2>1. \A g \in File : i # final[g]
    BY <2>0, SentinelAssumption DEF FilesInv
  <2>2. ASSUME NEW r, content' = [content EXCEPT ![i] = r] PROVE NeverPartial'
    BY <2>0, <2>1, <2>2 DEF FilesInv, NeverPartial, TypeOK
  <2>3. CASE Return(w, FALSE) /\ content' = [content EXCEPT ![i] = Torn]
    BY <1>2, <2>0, <2>2, <2>3, NotWriting DEF FilesInv
  <2>4. CASE /\ \E r \in IF content[i] \in {Empty, c} THEN {c} ELSE {c, Torn} :
                   content' = [content EXCEPT ![i] = r]
             /\ call' = [call EXCEPT ![w].step = "rename"]
    <3>1. content' = [content EXCEPT ![i] = c]
      BY <2>0, <2>4
    <3>2. content'[i] = c /\ NeverPartial'
      BY <2>0, <2>2, <3>1 DEF TypeOK
    <3>3. /\ call'[w].step = "rename" /\ call'[w].fd = i
          /\ call'[w].cert = c /\ call'[w].file = call[w].file
      BY <2>4 DEF TypeOK, Calls
    <3> QED BY <2>0, <3>2, <3>3 DEF FilesInv, Serial
  <2> QED BY <1>5, <2>3, <2>4 DEF Write
<1>6. ASSUME NEW w \in Worker, Rename(w) PROVE FilesInv'
  <2> DEFINE f == call[w].file
  <2>0. /\ call[w].step = "rename" /\ UNCHANGED content /\ f \in File
        /\ content[tmp[f]] = call[w].cert /\ call[w].cert \in Cert
    BY <1>6 DEF Rename, TypeOK, FilesInv, Calls, Writing
  <2>1. CASE Return(w, FALSE) /\ UNCHANGED <<tmp, final>>
    BY <1>2, <2>0, <2>1, NotWriting DEF FilesInv, NeverPartial
  <2>2. CASE /\ tmp[f] # None /\ final' = [final EXCEPT ![f] = tmp[f]]
             /\ tmp' = [tmp EXCEPT ![f] = None] /\ NextFile(w, "open")
    <3>1. /\ final'[f] = tmp[f] /\ \A g \in File \ {f} : final'[g] = final[g]
          /\ tmp'[f] = None /\ \A g \in File \ {f} : tmp'[g] = tmp[g]
      BY <2>0, <2>2 DEF TypeOK
    <3>2. NeverPartial'
      BY <2>0, <3>1 DEF FilesInv, NeverPartial
    <3>3. /\ \A g, h \in File : tmp'[g] # None => tmp'[g] # final'[h]
          /\ \A g, h \in File : tmp'[g] # None /\ g # h => tmp'[g] # tmp'[h]
      BY <2>0, <3>1 DEF FilesInv
    <3> QED BY <1>3, <2>2, <3>2, <3>3, NotWriting
  <2> QED BY <1>6, <2>1, <2>2 DEF Rename
<1>7. ASSUME NEW w \in Worker, Unlink(w) PROVE FilesInv'
  <2> DEFINE f == call[w].file
  <2>0. /\ call[w].step = "unlink" /\ UNCHANGED <<tmp, content>> /\ f \in File
    BY <1>7 DEF Unlink, TypeOK, Calls
  <2>1. \A g \in File : final'[g] = final[g] \/ final'[g] = None
    BY <1>7, <2>0 DEF Unlink, TypeOK
  <2>2. /\ NeverPartial'
        /\ \A g, h \in File : tmp'[g] # None => tmp'[g] # final'[h]
        /\ \A g, h \in File : tmp'[g] # None /\ g # h => tmp'[g] # tmp'[h]
    BY <2>0, <2>1 DEF FilesInv, NeverPartial
  <2>3. CASE call' = [call EXCEPT ![w].file = "key"]
    <3>1. call'[w].step = "unlink"
      BY <2>0, <2>3 DEF TypeOK, Calls
    <3> QED BY <2>2, <3>1, NotWriting DEF Writing
  <2>4. CASE NextFile(w, "unlink") \/ Return(w, FALSE)
    BY <1>2, <1>3, <2>2, <2>4, NotWriting
  <2> QED BY <1>7, <2>3, <2>4 DEF Unlink
<1>8. CASE Crash
  <2>1. /\ \A f \in File : tmp'[f] = None
        /\ \A w \in Worker : call'[w].step = "idle"
    BY <1>8 DEF Crash, Idle
  <2>2. NeverPartial'
    BY <1>8 DEF Crash, FilesInv, NeverPartial
  <2> QED BY <2>1, <2>2 DEF FilesInv, Writing
<1> QED BY <1>1, <1>4, <1>5, <1>6, <1>7, <1>8 DEF Next, Upsert, Remove

\* Loaded after a step follows from the final files.
LEMMA LoadedNext ==
    ASSUME \A f \in File : final'[f] # None /\ content'[final'[f]] \in Cert
    PROVE  /\ Loaded' = Served(content'[final'["pem"]], content'[final'["key"]])
           /\ Loaded' # None
<1>1. Loaded' = [chain |-> content'[final'["pem"]], key |-> content'[final'["key"]]]
  BY DEF Loaded, Served
<1> QED BY <1>1, SentinelAssumption DEF Served, File

\* A step that leaves the final files and what they hold alone.
LEMMA LoadedKept ==
    ASSUME TypeOK, TypeOK',
           \A f \in File : final'[f] = final[f]
                           /\ (final[f] # None => content'[final[f]] = content[final[f]])
    PROVE  Loaded' = Loaded
BY DEF Loaded, Served, File

\* No final file changes while a certificate is opened or written.
LEMMA FinalUntouched ==
    ASSUME Serial, TypeOK, TypeOK', FilesInv, NEW w \in Worker, Open(w) \/ Write(w)
    PROVE  \A f \in File : final'[f] = final[f]
                           /\ (final[f] # None => content'[final[f]] = content[final[f]])
<1>1. CASE Open(w)
  <2>1. \A i \in IF tmp[call[w].file] = None THEN Unused ELSE {tmp[call[w].file]} :
           i \in Inode /\ \A g \in File : i # final[g]
    BY OpenIsFresh
  <2>2. CASE UNCHANGED content
    BY <1>1, <2>2 DEF Open
  <2>3. ASSUME NEW i \in IF tmp[call[w].file] = None THEN Unused ELSE {tmp[call[w].file]},
               content' = [content EXCEPT ![i] = Empty]
        PROVE  \A f \in File : final[f] # None => content'[final[f]] = content[final[f]]
    BY <2>1, <2>3 DEF TypeOK
  <2> QED BY <1>1, <2>2, <2>3 DEF Open
<1>2. CASE Write(w)
  <2>1. /\ call[w].fd \in Inode /\ call[w].file \in File
        /\ call[w].fd = tmp[call[w].file] /\ UNCHANGED final
    BY <1>2 DEF Write, TypeOK, FilesInv, Calls, Writing
  <2>2. \A g \in File : call[w].fd # final[g]
    BY <2>1, SentinelAssumption DEF FilesInv
  <2>3. \E r : content' = [content EXCEPT ![call[w].fd] = r]
    BY <1>2 DEF Write
  <2> QED BY <2>1, <2>2, <2>3 DEF TypeOK
<1> QED BY <1>1, <1>2

\* Nothing is claimed after a file error, until the next call starts.
LEMMA NotPersisted == persisted' = FALSE => RestartInv'
BY DEF RestartInv

LEMMA RestartStep ==
    ASSUME Serial, TypeOK, HasCert, FilesInv, TypeOK', RestartInv, Next
    PROVE  RestartInv'
<1>1. ASSUME NEW w \in Worker, NEW c \in Cert, Upsert(w, c) PROVE RestartInv'
  <2>1. /\ call'[w].step = "open" /\ call'[w].file = "pem"
        /\ call'[w].cert = c /\ memory' = Served(c, c)
    BY <1>1, StartMoves DEF Upsert
  <2> QED BY <2>1 DEF RestartInv, Serial
<1>2. ASSUME NEW w \in Worker, Remove(w) PROVE RestartInv'
  <2>1. call'[w].step = "unlink" /\ call'[w].file = "pem" /\ memory' = None
    BY <1>2, StartMoves DEF Remove
  <2> QED BY <2>1 DEF RestartInv, Serial
<1>3. ASSUME NEW w \in Worker, Return(w, FALSE) PROVE RestartInv'
  BY <1>3, ReturnMoves, NotPersisted
<1>4. ASSUME NEW w \in Worker, Open(w) \/ Write(w), ~Return(w, FALSE)
      PROVE  RestartInv'
  <2>1. /\ call[w].step \in {"open", "write"} /\ persisted' = persisted /\ memory' = memory
        /\ call'[w].step \in {"write", "rename"}
        /\ call'[w].file = call[w].file /\ call'[w].cert = call[w].cert
    <3>1. CASE Open(w)
      <4>1. \A i \in IF tmp[call[w].file] = None THEN Unused ELSE {tmp[call[w].file]} :
               i \in Inode
        BY OpenIsFresh
      <4>2. PICK i \in Inode : call' = [call EXCEPT ![w].step = "write", ![w].fd = i]
        BY <1>4, <3>1, <4>1 DEF Open
      <4> QED BY <1>4, <3>1, <4>2, OpenMoves DEF Open
    <3>2. CASE Write(w)
      <4>1. /\ call[w].step = "write" /\ persisted' = persisted /\ memory' = memory
            /\ call' = [call EXCEPT ![w].step = "rename"]
        BY <1>4, <3>2 DEF Write
      <4> QED BY <4>1 DEF TypeOK, Calls
    <3> QED BY <1>4, <3>1, <3>2
  <2>2. \A f \in File : final'[f] = final[f]
                        /\ (final[f] # None => content'[final[f]] = content[final[f]])
    BY <1>4, FinalUntouched
  <2> QED BY <2>1, <2>2 DEF RestartInv, Serial, File
<1>5. ASSUME NEW w \in Worker, Rename(w), ~Return(w, FALSE) PROVE RestartInv'
  <2> DEFINE f == call[w].file
  <2>0. /\ call[w].step = "rename" /\ UNCHANGED <<memory, content>>
        /\ f \in File /\ call[w].cert \in Cert
        /\ tmp[f] # None /\ content[tmp[f]] = call[w].cert
        /\ final' = [final EXCEPT ![f] = tmp[f]] /\ NextFile(w, "open")
    BY <1>5 DEF Rename, TypeOK, FilesInv, Calls, Writing
  <2>1. /\ final'[f] = tmp[f] /\ \A g \in File \ {f} : final'[g] = final[g]
        /\ persisted' = persisted
    BY <2>0, NextFileMoves DEF TypeOK
  <2>2. CASE f = "pem"
    <3>1. call'[w].step = "open" /\ call'[w].file = "key" /\ call'[w].cert = call[w].cert
      BY <2>0, <2>2, NextFileMoves
    <3> QED BY <2>0, <2>1, <2>2, <3>1 DEF RestartInv, Serial
  <2>3. CASE f = "key"
    <3>1. call'[w].step = "idle"
      BY <2>0, <2>3, NextFileMoves DEF Idle
    <3>2. persisted => /\ memory = Served(call[w].cert, call[w].cert)
                       /\ final["pem"] # None /\ content[final["pem"]] = call[w].cert
      BY <2>0, <2>3 DEF RestartInv
    <3>3. persisted => \A g \in File : final'[g] # None /\ content'[final'[g]] = call[w].cert
      BY <2>0, <2>1, <2>3, <3>2 DEF File
    <3>4. ASSUME persisted PROVE Loaded' = memory'
      <4>1. \A g \in File : final'[g] # None /\ content'[final'[g]] = call[w].cert
        BY <3>3, <3>4
      <4>2. Loaded' = Served(content'[final'["pem"]], content'[final'["key"]])
        BY <2>0, <4>1, LoadedNext
      <4> QED BY <2>0, <3>2, <3>4, <4>1, <4>2 DEF File
    <3> QED BY <2>1, <3>1, <3>4 DEF RestartInv, Serial
  <2> QED BY <2>0, <2>2, <2>3 DEF File
<1>6. ASSUME NEW w \in Worker, Unlink(w), ~Return(w, FALSE) PROVE RestartInv'
  <2> DEFINE f == call[w].file
  <2>0. /\ call[w].step = "unlink" /\ f \in File /\ UNCHANGED <<memory, content>>
    BY <1>6 DEF Unlink, TypeOK, Calls
  <2>1. CASE persisted' = FALSE
    BY <2>1, NotPersisted
  <2>2. CASE final' = [final EXCEPT ![f] = None] /\ NextFile(w, "unlink")
    <3>1. /\ final'[f] = None /\ \A g \in File \ {f} : final'[g] = final[g]
          /\ persisted' = persisted
      BY <2>0, <2>2, NextFileMoves DEF TypeOK
    <3>2. CASE f = "pem"
      <4>1. call'[w].step = "unlink" /\ call'[w].file = "key"
        BY <2>2, <3>2, NextFileMoves
      <4> QED BY <2>0, <3>1, <3>2, <4>1 DEF RestartInv, Serial
    <3>3. CASE f = "key"
      <4>1. call'[w].step = "idle"
        BY <2>2, <3>3, NextFileMoves DEF Idle
      <4>2. Loaded' = None
        BY <2>0, <3>1 DEF Loaded
      <4> QED BY <2>0, <3>1, <4>1, <4>2 DEF RestartInv, Serial
    <3> QED BY <2>0, <3>2, <3>3 DEF File
  <2> QED BY <1>6, <2>1, <2>2 DEF Unlink
<1>7. CASE Crash
  <2>1. Loaded' = Loaded
    BY <1>7, LoadedKept DEF Crash
  <2>2. \A w \in Worker : call'[w].step = "idle"
    BY <1>7 DEF Crash, Idle
  <2> QED BY <1>7, <2>1, <2>2 DEF Crash, RestartInv
<1> QED
  <2>1. CASE \E w \in Worker : (\E c \in Cert : Upsert(w, c)) \/ Remove(w)
    BY <1>1, <1>2, <2>1
  <2>2. CASE \E w \in Worker : Open(w) \/ Write(w) \/ Rename(w) \/ Unlink(w)
    BY <1>3, <1>4, <1>5, <1>6, <2>2
  <2> QED BY <1>7, <2>1, <2>2 DEF Next

-----------------------------------------------------------------------------

Inv == TypeOK /\ HasCert /\ FilesInv /\ RestartInv

LEMMA Inductive == ASSUME Serial PROVE Spec => []Inv
<1>1. Init => Inv
  <2> SUFFICES ASSUME Init PROVE Inv
    OBVIOUS
  <2>1. TypeOK /\ HasCert
    BY TypeInit DEF Init, HasCert, Idle
  <2>2. FilesInv
    BY DEF Init, FilesInv, NeverPartial, Idle, Writing
  <2>3. Loaded = None
    BY DEF Init, Loaded, File
  <2> QED BY <2>1, <2>2, <2>3 DEF Init, Inv, RestartInv, Idle
<1>2. Inv /\ [Next]_vars => Inv'
  <2>1. Inv /\ Next => Inv'
    BY TypeStep, FilesStep, RestartStep DEF Inv
  <2>2. Inv /\ UNCHANGED vars => Inv'
    BY DEF Inv, vars, TypeOK, HasCert, FilesInv, NeverPartial, RestartInv, Loaded
  <2> QED BY <2>1, <2>2
<1> QED BY <1>1, <1>2, PTL DEF Spec

\* tls.rs, write_atomically: as long as the calls for a host come one after
\* the other, the process may die between any two file operations, any of them
\* may fail, and a file with a final name is still complete.
THEOREM FilesComplete == ASSUME Serial PROVE Spec => []NeverPartial
<1>1. Inv => NeverPartial
  BY DEF Inv, FilesInv
<1> QED BY <1>1, Inductive, PTL

\* tls.rs, load_from_disk: once no call is in flight and the last one met no
\* file error, a restart serves exactly what is served now.
THEOREM RestartIsFaithful == ASSUME Serial PROVE Spec => []RestartServesSame
<1>1. Inv => RestartServesSame
  BY DEF Inv, RestartInv, RestartServesSame
<1> QED BY <1>1, Inductive, PTL
=============================================================================
