---------------------------- MODULE Store_proofs ----------------------------
(* The configuration store keeps its promises for any number of calls at the   *)
(* same time, of configurations and of texts, whatever fails and whenever the  *)
(* daemon dies: its safety properties, and that it implements StoreTable.      *)
EXTENDS Store, TLAPS

Content == Text \cup {"safe", "unsafe", Torn, Nothing}
FileType == [Id -> [File -> Content]]
InstallStep == {"mkdir", "open", "write", "rename"}
StartStep == {"read", "prompt", "resolve", "load", "started"}
Installs(c) == c.at \in InstallStep

(* What holds of a call that executes InstallConfig: its id is drawn; until the *)
(* shadow copy is in place no client knows the id; from then on the copy is     *)
(* there unless a removal was asked for; what it renames is wholly written.     *)
InstallOK(c) == Installs(c) =>
  /\ given[c.id] # Nothing
  /\ c.at = "mkdir" => c.part = "config"
  /\ c.part = "config" => c.id \notin published
  /\ c.part = "meta" => /\ c.id \in published
                        /\ c.id \notin touched => file[c.id]["config"] = given[c.id]
  /\ c.at = "rename" => file[c.id][Temp(c.part)] \in {Nothing, Written(c.id, c.part)}

RemoveOK(c) == c.at = "remove" => c.id \in touched

(* A configuration a list must hold is yet to be looked up, or about to be      *)
(* added, or in the list, or a read of it failed.                             *)
ListOK(c) == c.at = "list" =>
  /\ c.must \subseteq answered
  /\ \A i, j \in c.found : i = j
  /\ \A i \in (c.must \ touched) \ c.failed :
       i \in c.todo \/ i \in c.found \/ <<i, Verdict(given[i])>> \in c.out
  /\ \A i \in Id : <<i, "safe">> \in c.out => given[i] \in SafeText

(* A connection being started has read the configuration's own text, and what   *)
(* it reads later is the same unless it is gone, and then it stays gone.        *)
StartOK(c) ==
  /\ c.at \in StartStep => c.id \in published
  /\ c.at \in StartStep \ {"read"} => c.text = given[c.id]
  /\ c.at = "load" => c.remotes \in {"none", c.text} \/ file[c.id]["config"] = Nothing
  /\ c.at = "started" /\ c.runs # Nothing =>
       c.runs = c.text /\ c.remotes \in {"none", c.text}

CallOK(c) == InstallOK(c) /\ RemoveOK(c) /\ ListOK(c) /\ StartOK(c)
CallsOK == \A s \in Slot : CallOK(call[s])

(* An id that is not drawn has nothing, one that is not published neither of     *)
(* its files, and at most one call installs an id.                            *)
IdOK == \A i \in Id :
  /\ given[i] = Nothing => i \notin published /\ i \notin dirs
  /\ i \notin published => file[i]["config"] = Nothing /\ file[i]["meta"] = Nothing
Unique == \A s, u \in Slot :
  Installs(call[s]) /\ Installs(call[u]) /\ call[s].id = call[u].id => s = u

IInv == TypeOK /\ WholeOrAbsent /\ InstalledStays /\ RemovedStaysGone /\ IdOK /\ Unique /\ CallsOK

-----------------------------------------------------------------------------
(* A call's step tells which method it executes.                              *)
LEMMA CallKinds ==
  ASSUME NEW c \in Call
  PROVE  /\ Installs(c) => c \in InstallCall
         /\ c.at = "remove" => c \in RemoveCall
         /\ c.at = "list" => c \in ListCall
         /\ c.at \in StartStep => c \in StartCall
<1>1. CASE c = Idle
  BY <1>1 DEF Idle, Installs, InstallStep, StartStep
<1>2. CASE c \in InstallCall
  BY <1>2 DEF InstallCall, Installs, InstallStep, StartStep
<1>3. CASE c \in RemoveCall
  BY <1>3 DEF RemoveCall, Installs, InstallStep, StartStep
<1>4. CASE c \in ListCall
  BY <1>4 DEF ListCall, Installs, InstallStep, StartStep
<1>5. CASE c \in ShowCall
  BY <1>5 DEF ShowCall, Installs, InstallStep, StartStep
<1>6. CASE c \in StartCall
  BY <1>6 DEF StartCall, Installs, InstallStep, StartStep
<1> QED
  BY <1>1, <1>2, <1>3, <1>4, <1>5, <1>6 DEF Call

LEMMA IdleFacts == Idle \in Call /\ ~Installs(Idle) /\ CallOK(Idle)
BY DEF Idle, Call, Installs, InstallStep, StartStep, CallOK, InstallOK, RemoveOK, ListOK, StartOK

(* The names of the files, and what may be in them.                           *)
LEMMA FileFacts ==
  ASSUME NEW part \in Part
  PROVE  /\ part \in File /\ Temp(part) \in File
         /\ Temp(part) \notin {"config", "meta"}
         /\ {"config", "meta"} \subseteq File
BY DEF Part, File, Temp

LEMMA WrittenFacts ==
  ASSUME given \in [Id -> Text \cup {Nothing}], NEW i \in Id, NEW part \in Part
  PROVE  /\ Written(i, part) \in Content
         /\ Written(i, "config") = given[i] /\ Written(i, "meta") = Verdict(given[i])
BY DEF Content, Written, Verdict, Part

LEMMA PutFacts ==
  ASSUME file \in FileType, NEW i \in Id, NEW f \in File, NEW v \in Content, Put(i, f, v)
  PROVE  /\ file' \in FileType
         /\ \A j \in Id : \A g \in File :
              file'[j][g] = IF j = i /\ g = f THEN v ELSE file[j][g]
BY DEF FileType, Put

(* A step of call s: the other calls keep what holds of them, given that the     *)
(* step keeps it of every call but one that installs the same id.             *)
LEMMA Moves ==
  ASSUME IInv, NEW s \in Slot, NEW c \in Call, Goes(s, c), CallOK(c)',
         \A d \in Call :
           CallOK(d) /\ (Installs(d) /\ Installs(call[s]) => d.id # call[s].id) => CallOK(d)',
         Installs(c) => \/ Installs(call[s]) /\ c.id = call[s].id
                        \/ \A u \in Slot : Installs(call[u]) => call[u].id # c.id
  PROVE  call' \in [Slot -> Call] /\ CallsOK' /\ Unique'
<1>1. call \in [Slot -> Call] /\ CallsOK /\ Unique
  BY DEF IInv, TypeOK
<1>2. call' \in [Slot -> Call] /\ \A u \in Slot : call'[u] = IF u = s THEN c ELSE call[u]
  BY <1>1 DEF Goes
<1>3. ASSUME NEW u \in Slot \ {s} PROVE CallOK(call[u]) /\ call[u] \in Call
          /\ (Installs(call[u]) /\ Installs(call[s]) => call[u].id # call[s].id)
  BY <1>1 DEF CallsOK, Unique
<1>4. CallsOK'
  <2> SUFFICES ASSUME NEW u \in Slot PROVE CallOK(call[u])'
    BY DEF CallsOK
  <2>1. CASE u = s
    BY <1>2, <2>1
  <2>2. ASSUME u # s, NEW d, d = call[u] PROVE CallOK(call[u])'
    <3>1. d = call'[u]
      BY <1>2, <2>2
    <3>2. CallOK(d)'
      BY <1>3, <2>2
    <3> QED
      BY <3>1, <3>2
  <2> QED
    BY <2>1, <2>2
<1>5. Unique'
  BY <1>1, <1>2 DEF Unique, Installs
<1> QED
  BY <1>2, <1>4, <1>5

(* A step that changes nothing but the call.                                  *)
LEMMA OnlyCall ==
  ASSUME IInv, NEW s \in Slot, NEW c \in Call, Goes(s, c), CallOK(c),
         Installs(c) => Installs(call[s]) /\ c.id = call[s].id,
         UNCHANGED <<dirs, file, given, history>>
  PROVE  IInv'
<1>1. \A d : CallOK(d) => CallOK(d)'
  BY DEF CallOK, InstallOK, RemoveOK, ListOK, StartOK, Written, history
<1>2. call' \in [Slot -> Call] /\ CallsOK' /\ Unique'
  BY <1>1, Moves
<1>3. TypeOK' /\ WholeOrAbsent' /\ InstalledStays' /\ RemovedStaysGone' /\ IdOK'
  BY <1>2 DEF IInv, TypeOK, Present, WholeOrAbsent, InstalledStays, RemovedStaysGone, IdOK, history
<1> QED
  BY <1>2, <1>3 DEF IInv

(* A step of an installing call that changes only its temporary file.          *)
LEMMA OnlyTemp ==
  ASSUME IInv, NEW s \in Slot, Installs(call[s]), NEW c \in Call, Goes(s, c), CallOK(c)',
         Installs(c) => c.id = call[s].id, NEW v \in Content,
         v = Nothing \/ call[s].id \in dirs,
         Put(call[s].id, Temp(call[s].part), v),
         UNCHANGED <<dirs, given, history>>
  PROVE  IInv'
<1> DEFINE id == call[s].id
<1>1. call[s] \in Call /\ file \in FileType
  BY DEF IInv, TypeOK, FileType, Content
<1>2. id \in Id /\ call[s].part \in Part
  BY <1>1, CallKinds DEF InstallCall
<1>3. /\ Temp(call[s].part) \in File /\ Temp(call[s].part) \notin {"config", "meta"}
      /\ {"config", "meta"} \subseteq File
  BY <1>2, FileFacts
<1>4. /\ file' \in FileType
      /\ \A j \in Id : \A g \in File :
           file'[j][g] = IF j = id /\ g = Temp(call[s].part) THEN v ELSE file[j][g]
  BY <1>1, <1>2, <1>3, PutFacts
<1>5. \A j \in Id : file'[j]["config"] = file[j]["config"] /\ file'[j]["meta"] = file[j]["meta"]
  BY <1>3, <1>4
<1> HIDE DEF id
<1>6. ASSUME NEW d \in Call, CallOK(d), Installs(d) => d.id # id PROVE CallOK(d)'
  <2>1. InstallOK(d)'
    <3> SUFFICES ASSUME Installs(d) PROVE InstallOK(d)'
      BY DEF InstallOK, Installs
    <3>1. d.id \in Id /\ d.part \in Part /\ Temp(d.part) \in File
      BY CallKinds, FileFacts DEF InstallCall
    <3>2. file'[d.id][Temp(d.part)] = file[d.id][Temp(d.part)]
      BY <1>4, <1>6, <3>1
    <3> QED
      BY <1>5, <1>6, <3>1, <3>2 DEF CallOK, InstallOK, Installs, Written, history
  <2>2. StartOK(d)'
    <3>1. d.at = "load" => d.id \in Id
      BY CallKinds DEF StartCall, StartStep
    <3> QED
      BY <1>5, <1>6, <3>1 DEF CallOK, StartOK, history
  <2>3. RemoveOK(d)' /\ ListOK(d)'
    BY <1>6 DEF CallOK, RemoveOK, ListOK, history
  <2> QED
    BY <2>1, <2>2, <2>3 DEF CallOK
<1>7. call' \in [Slot -> Call] /\ CallsOK' /\ Unique'
  <2>1. \A d \in Call :
           CallOK(d) /\ (Installs(d) /\ Installs(call[s]) => d.id # call[s].id) => CallOK(d)'
    BY <1>6 DEF id
  <2>2. Installs(c) => \/ Installs(call[s]) /\ c.id = call[s].id
                       \/ \A u \in Slot : Installs(call[u]) => call[u].id # c.id
    OBVIOUS
  <2> QED
    BY <2>1, <2>2, Moves
<1>8. TypeOK'
  <2>1. \A i \in Id \ dirs' : Present(i)' = {}
    <3> SUFFICES ASSUME NEW i \in Id \ dirs, NEW f \in File PROVE file'[i][f] = Nothing
      BY DEF Present
    <3>1. file[i][f] = Nothing
      BY DEF IInv, TypeOK, Present
    <3> QED
      BY <1>4, <3>1 DEF id
  <2> QED
    BY <1>4, <1>7, <2>1 DEF IInv, TypeOK, FileType, Content, history
<1>9. WholeOrAbsent' /\ InstalledStays' /\ IdOK'
  <2>1. answered \subseteq Id
    BY DEF IInv, TypeOK
  <2> QED
    BY <1>5, <2>1 DEF IInv, WholeOrAbsent, InstalledStays, IdOK, history
<1>10. RemovedStaysGone'
  <2> SUFFICES ASSUME NEW i \in gone
               PROVE  i \notin dirs /\ \A f \in File : file'[i][f] = Nothing
    BY DEF RemovedStaysGone, Present, history
  <2>1. i \in Id /\ i \notin dirs /\ \A f \in File : file[i][f] = Nothing
    BY DEF IInv, TypeOK, RemovedStaysGone, Present
  <2> QED
    BY <1>4, <2>1 DEF id
<1> QED
  BY <1>7, <1>8, <1>9, <1>10 DEF IInv

-----------------------------------------------------------------------------
LEMMA InitIInv == Init => IInv
<1> SUFFICES ASSUME Init PROVE IInv
  OBVIOUS
<1> USE DEF Init
<1>1. CallsOK /\ Unique /\ call \in [Slot -> Call]
  BY IdleFacts DEF CallsOK, Unique
<1>2. \A i \in Id : \A f \in File : file[i][f] = Nothing
  BY DEF NoFiles
<1>3. file \in [Id -> [File -> Text \cup {"safe", "unsafe", Torn, Nothing}]]
  BY DEF NoFiles
<1>4. \A i \in Id : Present(i) = {}
  BY <1>2 DEF Present
<1>5. TypeOK
  BY <1>1, <1>3, <1>4 DEF TypeOK
<1>6. {"config", "meta"} \subseteq File
  BY DEF File
<1>7. WholeOrAbsent /\ InstalledStays /\ RemovedStaysGone /\ IdOK
  BY <1>2, <1>6 DEF WholeOrAbsent, InstalledStays, RemovedStaysGone, IdOK
<1> QED
  BY <1>1, <1>5, <1>7 DEF IInv

(* What an installing call is, spelled out once.                              *)
LEMMA Installing ==
  ASSUME IInv, NEW s \in Slot, Installs(call[s])
  PROVE  /\ call[s] \in InstallCall /\ call[s] \in Call
         /\ call[s].id \in Id /\ call[s].part \in Part
         /\ given[call[s].id] # Nothing /\ given[call[s].id] \in Text
         /\ CallOK(call[s]) /\ InstallOK(call[s])
         /\ \A i \in Id : \A f \in File : file[i][f] # Nothing => i \in dirs
<1>1. call[s] \in Call /\ CallOK(call[s])
  BY DEF IInv, TypeOK, CallsOK
<1>2. call[s] \in InstallCall
  BY <1>1, CallKinds
<1>3. call[s].id \in Id /\ call[s].part \in Part
  BY <1>2 DEF InstallCall
<1>4. InstallOK(call[s])
  BY <1>1 DEF CallOK
<1>5. given[call[s].id] # Nothing /\ given[call[s].id] \in Text
  BY <1>3, <1>4 DEF InstallOK, IInv, TypeOK
<1>6. \A i \in Id : \A f \in File : file[i][f] # Nothing => i \in dirs
  BY DEF IInv, TypeOK, Present
<1> QED
  BY <1>1, <1>2, <1>3, <1>4, <1>5, <1>6

LEMMA InstallConfigIInv ==
  ASSUME IInv, NEW s \in Slot, NEW t \in Text, InstallConfig(s, t)
  PROVE  IInv'
<1>1. PICK i \in Id : /\ given[i] = Nothing
                      /\ Goes(s, [at |-> "mkdir", id |-> i, part |-> "config"])
                      /\ given' = [given EXCEPT ![i] = t]
  BY DEF InstallConfig, FreshIds
<1>2. PICK c : c = [at |-> "mkdir", id |-> i, part |-> "config"]
  OBVIOUS
<1>3. c \in Call /\ Goes(s, c) /\ c.at = "mkdir" /\ c.id = i /\ c.part = "config" /\ Installs(c)
  BY <1>1, <1>2 DEF Call, InstallCall, Part, Installs, InstallStep
<1>4. /\ given \in [Id -> Text \cup {Nothing}] /\ given' \in [Id -> Text \cup {Nothing}]
      /\ given'[i] = t /\ t # Nothing /\ \A j \in Id : j # i => given'[j] = given[j]
      /\ UNCHANGED <<dirs, file, history>>
  BY <1>1, StoreAssumption DEF IInv, TypeOK, InstallConfig
<1>5. /\ i \notin dirs /\ i \notin published /\ answered \subseteq published
      /\ touched \subseteq published /\ published \subseteq Id
      /\ \A f \in File : file[i][f] = Nothing
  BY <1>1 DEF IInv, IdOK, TypeOK, Present
<1>6. CallOK(c)'
  BY <1>3, <1>4, <1>5 DEF CallOK, InstallOK, RemoveOK, ListOK, StartOK, StartStep, history
<1>7. ASSUME NEW d \in Call, CallOK(d) PROVE CallOK(d)'
  <2>1. Installs(d) => d.id \in Id /\ d.id # i /\ d.part \in Part
    BY <1>1, <1>7, CallKinds DEF CallOK, InstallOK, InstallCall
  <2>2. InstallOK(d)'
    BY <1>4, <1>7, <2>1 DEF CallOK, InstallOK, Installs, Written, history
  <2>3. d.at \in StartStep => d.id \in Id /\ d.id # i
    BY <1>5, <1>7, CallKinds DEF CallOK, StartOK, StartCall
  <2>4. StartOK(d)'
    BY <1>4, <1>7, <2>3 DEF CallOK, StartOK, StartStep, history
  <2>5. ListOK(d)'
    <3> SUFFICES ASSUME d.at = "list" PROVE ListOK(d)'
      BY DEF ListOK
    <3>1. ListOK(d)
      BY <1>7 DEF CallOK
    <3>2. \A j \in d.must : j \in Id /\ j # i
      BY <1>5, <3>1 DEF ListOK
    <3>3. \A j \in Id : <<j, "safe">> \in d.out => given[j] \in SafeText /\ j # i
      BY <1>1, <3>1, StoreAssumption DEF ListOK
    <3>4. \A j \in (d.must \ touched) \ d.failed :
            j \in d.todo \/ j \in d.found \/ <<j, Verdict(given'[j])>> \in d.out
      BY <1>4, <3>1, <3>2 DEF ListOK
    <3> QED
      BY <1>4, <3>1, <3>3, <3>4 DEF ListOK, Verdict, history
  <2>6. RemoveOK(d)'
    BY <1>4, <1>7 DEF CallOK, RemoveOK, history
  <2> QED
    BY <2>2, <2>4, <2>5, <2>6 DEF CallOK
<1>8. \A u \in Slot : Installs(call[u]) => call[u].id # c.id
  BY <1>1, <1>3, Installing
<1>9. call' \in [Slot -> Call] /\ CallsOK' /\ Unique'
  BY <1>3, <1>6, <1>7, <1>8, Moves
<1>10. TypeOK' /\ RemovedStaysGone' /\ IdOK'
  BY <1>4, <1>9 DEF IInv, TypeOK, RemovedStaysGone, IdOK, Present, history
<1>11. WholeOrAbsent' /\ InstalledStays'
  <2>1. {"config", "meta"} \subseteq File
    BY DEF File
  <2> QED
    BY <1>4, <1>5, <2>1 DEF IInv, WholeOrAbsent, InstalledStays, Verdict, history
<1> QED
  BY <1>9, <1>10, <1>11 DEF IInv

LEMMA MakesDirectoryIInv == ASSUME IInv, NEW s \in Slot, MakesDirectory(s) PROVE IInv'
<1>1. Installs(call[s]) /\ call[s].at = "mkdir"
  BY DEF MakesDirectory, At, Installs, InstallStep
<1>2. /\ call[s] \in InstallCall /\ call[s].id \in Id /\ given[call[s].id] # Nothing
      /\ call[s].part = "config" /\ call[s].id \notin published
  BY <1>1, Installing DEF InstallOK
<1>3. PICK c : c = [call[s] EXCEPT !.at = "open"]
  OBVIOUS
<1>4. c \in Call /\ Installs(c) /\ c.at = "open" /\ c.id = call[s].id /\ c.part = "config"
  BY <1>2, <1>3 DEF Call, InstallCall, Installs, InstallStep
<1>5. Goes(s, c) /\ dirs' = dirs \cup {call[s].id} /\ UNCHANGED <<file, given, history>>
  BY <1>3 DEF MakesDirectory
<1>6. \A d : CallOK(d) => CallOK(d)'
  BY <1>5 DEF CallOK, InstallOK, RemoveOK, ListOK, StartOK, Written, history
<1>7. CallOK(c)'
  <2>1. CallOK(c)
    BY <1>2, <1>4 DEF CallOK, InstallOK, RemoveOK, ListOK, StartOK, StartStep
  <2> QED
    BY <1>6, <2>1
<1>8. call' \in [Slot -> Call] /\ CallsOK' /\ Unique'
  BY <1>1, <1>4, <1>5, <1>6, <1>7, Moves
<1>9. TypeOK' /\ WholeOrAbsent' /\ InstalledStays' /\ IdOK'
  BY <1>2, <1>5, <1>8 DEF IInv, TypeOK, Present, WholeOrAbsent, InstalledStays, IdOK, history
<1>10. RemovedStaysGone'
  BY <1>2, <1>5 DEF IInv, TypeOK, RemovedStaysGone, Present, history
<1> QED
  BY <1>8, <1>9, <1>10 DEF IInv

LEMMA OpensTempIInv == ASSUME IInv, NEW s \in Slot, OpensTemp(s) PROVE IInv'
<1>1. Installs(call[s]) /\ call[s].at = "open" /\ UNCHANGED <<dirs, given, history>>
  BY DEF OpensTemp, At, Installs, InstallStep
<1>2. call[s] \in InstallCall /\ InstallOK(call[s])
  BY <1>1, Installing
<1>3. CASE call[s].id \in dirs
  <2>1. PICK c : c = [call[s] EXCEPT !.at = "write"]
    OBVIOUS
  <2>2. /\ c \in Call /\ Installs(c) /\ c.at = "write" /\ c.id = call[s].id
        /\ c.part = call[s].part /\ c.id \in Id
    BY <1>2, <2>1 DEF Call, InstallCall, Installs, InstallStep
  <2>3. Goes(s, c) /\ Put(call[s].id, Temp(call[s].part), Torn)
    BY <1>3, <2>1 DEF OpensTemp
  <2>4. Torn \in Content
    BY DEF Content
  <2>5. file'[c.id]["config"] = file[c.id]["config"]
    <3>1. file \in FileType /\ c.part \in Part
      BY <1>2, <2>2 DEF IInv, TypeOK, FileType, Content, InstallCall
    <3> QED
      BY <2>2, <2>3, <2>4, <3>1, PutFacts, FileFacts
  <2>6. CallOK(c)'
    BY <1>1, <1>2, <2>2, <2>5 DEF CallOK, InstallOK, RemoveOK, ListOK, StartOK, StartStep, Installs, history
  <2> QED
    BY <1>1, <1>3, <2>2, <2>3, <2>4, <2>6, OnlyTemp
<1>4. CASE call[s].id \notin dirs
  BY <1>1, <1>4, IdleFacts, OnlyCall DEF OpensTemp, history
<1> QED
  BY <1>3, <1>4

LEMMA WritesTempIInv == ASSUME IInv, NEW s \in Slot, WritesTemp(s) PROVE IInv'
<1>1. Installs(call[s]) /\ call[s].at = "write" /\ UNCHANGED <<dirs, given, history>>
  BY DEF WritesTemp, At, Installs, InstallStep
<1>2. /\ call[s] \in InstallCall /\ InstallOK(call[s])
      /\ call[s].id \in Id /\ call[s].part \in Part /\ Temp(call[s].part) \in File
      /\ given \in [Id -> Text \cup {Nothing}]
  BY <1>1, Installing, FileFacts DEF IInv, TypeOK
<1>3. PICK c : c = [call[s] EXCEPT !.at = "rename"]
  OBVIOUS
<1>4. /\ c \in Call /\ Installs(c) /\ c.at = "rename" /\ c.id = call[s].id
      /\ c.part = call[s].part /\ Goes(s, c)
  BY <1>2, <1>3 DEF Call, InstallCall, Installs, InstallStep, WritesTemp
<1>5. CASE file[call[s].id][Temp(call[s].part)] # Nothing
  <2>1. Put(call[s].id, Temp(call[s].part), Written(call[s].id, call[s].part))
    BY <1>5 DEF WritesTemp
  <2>2. Written(call[s].id, call[s].part) \in Content /\ call[s].id \in dirs
    BY <1>1, <1>2, <1>5, WrittenFacts, Installing
  <2>3. /\ file'[c.id]["config"] = file[c.id]["config"]
        /\ file'[c.id][Temp(c.part)] = Written(c.id, c.part)
    <3>1. file \in FileType
      BY DEF IInv, TypeOK, FileType, Content
    <3> QED
      BY <1>2, <1>4, <2>1, <2>2, <3>1, PutFacts, FileFacts
  <2>4. CallOK(c)'
    BY <1>1, <1>2, <1>4, <2>3
    DEF CallOK, InstallOK, RemoveOK, ListOK, StartOK, StartStep, Installs, Written, history
  <2> QED
    BY <1>1, <1>4, <2>1, <2>2, <2>4, OnlyTemp
<1>6. CASE file[call[s].id][Temp(call[s].part)] = Nothing
  <2>1. CallOK(c)
    BY <1>1, <1>2, <1>4, <1>6 DEF CallOK, InstallOK, RemoveOK, ListOK, StartOK, StartStep, Installs
  <2>2. UNCHANGED file
    BY <1>6 DEF WritesTemp
  <2> QED
    BY <1>1, <1>4, <2>1, <2>2, OnlyCall
<1> QED
  BY <1>5, <1>6

LEMMA InstallFailsIInv == ASSUME IInv, NEW s \in Slot, InstallFails(s) PROVE IInv'
<1>1. Installs(call[s]) /\ Goes(s, Idle) /\ UNCHANGED <<dirs, given, history>>
  BY DEF InstallFails, Installs, InstallStep
<1>2. CASE At(s, "rename")
  <2>1. Put(call[s].id, Temp(call[s].part), Nothing) /\ Nothing \in Content
    BY <1>2 DEF InstallFails, Content
  <2>2. PICK c : c = Idle
    OBVIOUS
  <2>3. c \in Call /\ ~Installs(c) /\ CallOK(c)'
    BY <2>2 DEF Idle, Call, Installs, InstallStep, StartStep, CallOK, InstallOK, RemoveOK, ListOK, StartOK
  <2> QED
    BY <1>1, <2>1, <2>2, <2>3, OnlyTemp
<1>3. CASE ~At(s, "rename")
  BY <1>1, <1>3, IdleFacts, OnlyCall DEF InstallFails
<1> QED
  BY <1>2, <1>3

LEMMA RenamesTempIInv == ASSUME IInv, NEW s \in Slot, RenamesTemp(s) PROVE IInv'
<1> DEFINE id == call[s].id
           part == call[s].part
<1>1. Installs(call[s]) /\ call[s].at = "rename" /\ UNCHANGED <<dirs, given, touched, gone>>
  BY DEF RenamesTemp, At, Installs, InstallStep
<1>2. /\ id \in Id /\ part \in Part /\ InstallOK(call[s])
      /\ given[id] # Nothing /\ file[id][Temp(part)] # Nothing
      /\ Temp(part) \in File /\ part \in File /\ part # Temp(part)
      /\ {"config", "meta"} \subseteq File /\ Temp(part) \notin {"config", "meta"}
      /\ given \in [Id -> Text \cup {Nothing}] /\ file \in FileType
      /\ published \subseteq Id
  BY <1>1, Installing, FileFacts DEF Part, Temp, RenamesTemp, IInv, TypeOK, FileType, Content
<1>3. file[id][Temp(part)] = Written(id, part) /\ id \in dirs
  BY <1>1, <1>2, Installing DEF InstallOK
<1>4. /\ file' \in FileType
      /\ \A j \in Id : \A g \in File :
           file'[j][g] = IF j = id /\ g = part THEN Written(id, part)
                         ELSE IF j = id /\ g = Temp(part) THEN Nothing ELSE file[j][g]
  <2>1. Written(id, part) \in Content /\ Nothing \in Content
    BY <1>2, WrittenFacts DEF Content
  <2>2. file' = [file EXCEPT ![id] = [@ EXCEPT ![part] = Written(id, part), ![Temp(part)] = Nothing]]
    BY <1>3 DEF RenamesTemp
  <2> QED
    BY <1>2, <2>1, <2>2 DEF FileType
<1>5. /\ published' = published \cup {id}
      /\ part = "config" => /\ answered' = answered /\ id \notin published
                            /\ Goes(s, [at |-> "open", id |-> id, part |-> "meta"])
      /\ part = "meta" => /\ answered' = answered \cup {id} /\ id \in published
                          /\ id \notin touched => file[id]["config"] = given[id]
                          /\ Goes(s, Idle)
      /\ part \in {"config", "meta"}
  BY <1>1, <1>2 DEF RenamesTemp, IsLast, InstallOK, Part
<1>6. /\ file'[id]["config"] = IF part = "config" THEN given[id] ELSE file[id]["config"]
      /\ file'[id]["meta"] = IF part = "meta" THEN Verdict(given[id]) ELSE file[id]["meta"]
      /\ \A j \in Id : j # id => file'[j] = file[j]
  <2>1. Written(id, "config") = given[id] /\ Written(id, "meta") = Verdict(given[id])
    BY <1>2, WrittenFacts
  <2>2. file' = [file EXCEPT ![id] = [@ EXCEPT ![part] = Written(id, part), ![Temp(part)] = Nothing]]
    BY <1>3 DEF RenamesTemp
  <2>3. \A j \in Id : j # id => file'[j] = file[j]
    BY <1>2, <2>2 DEF FileType
  <2>4. \A f \in {"config", "meta"} :
          file'[id][f] = IF f = part THEN Written(id, part) ELSE file[id][f]
    BY <1>2, <1>4
  <2> QED
    BY <1>5, <2>1, <2>3, <2>4
<1>7. PICK c : c = IF part = "config" THEN [at |-> "open", id |-> id, part |-> "meta"] ELSE Idle
  OBVIOUS
<1>8. c \in Call /\ Goes(s, c) /\ (Installs(c) => c.id = id)
  BY <1>2, <1>5, <1>7 DEF Call, InstallCall, Part, Idle, Installs, InstallStep
<1>9. CallOK(c)'
  <2>1. CASE part = "meta"
    BY <1>7, <2>1 DEF Idle, Installs, InstallStep, StartStep, CallOK, InstallOK, RemoveOK, ListOK, StartOK
  <2>2. CASE part = "config"
    <3>1. c.at = "open" /\ c.id = id /\ c.part = "meta"
      BY <1>7, <2>2
    <3>2. given'[c.id] # Nothing /\ c.id \in published' /\ file'[c.id]["config"] = given'[c.id]
      BY <1>1, <1>2, <1>5, <1>6, <2>2, <3>1
    <3> HIDE DEF id, part
    <3> QED
      BY <3>1, <3>2 DEF CallOK, InstallOK, RemoveOK, ListOK, StartOK, StartStep
  <2> QED
    BY <1>5, <2>1, <2>2
<1>10. ASSUME NEW d \in Call, CallOK(d), Installs(d) => d.id # id PROVE CallOK(d)'
  <2> HIDE DEF id, part
  <2>1. InstallOK(d)'
    <3>1. Installs(d) => d.id \in Id /\ d.id # id
      BY <1>10, CallKinds DEF InstallCall
    <3> QED
      BY <1>1, <1>5, <1>6, <1>10, <3>1 DEF CallOK, InstallOK, Installs, Written
  <2>2. RemoveOK(d)'
    BY <1>1, <1>10 DEF CallOK, RemoveOK
  <2>3. ListOK(d)'
    BY <1>1, <1>5, <1>10 DEF CallOK, ListOK, Verdict
  <2>4. StartOK(d)'
    <3>1. d.at \in StartStep => d.id \in published /\ d.id \in Id
      BY <1>2, <1>10 DEF CallOK, StartOK
    <3>2. d.at \in StartStep => (file[d.id]["config"] = Nothing => file'[d.id]["config"] = Nothing)
      BY <1>5, <1>6, <3>1
    <3> QED
      BY <1>1, <1>5, <1>10, <3>1, <3>2 DEF CallOK, StartOK, StartStep
  <2> QED
    BY <2>1, <2>2, <2>3, <2>4 DEF CallOK
<1>11. call' \in [Slot -> Call] /\ CallsOK' /\ Unique'
  BY <1>1, <1>8, <1>9, <1>10, Moves
<1>12. TypeOK'
  <2>1. \A i \in Id \ dirs' : Present(i)' = {}
    BY <1>1, <1>3, <1>6 DEF IInv, TypeOK, Present
  <2>2. answered' \subseteq published' /\ published' \subseteq Id
    BY <1>2, <1>5 DEF IInv, TypeOK
  <2>3. touched \subseteq published'
    BY <1>5 DEF IInv, TypeOK
  <2> QED
    BY <1>1, <1>4, <1>11, <2>1, <2>2, <2>3 DEF IInv, TypeOK, FileType, Content
<1>13. WholeOrAbsent' /\ IdOK'
  BY <1>1, <1>2, <1>5, <1>6 DEF IInv, WholeOrAbsent, IdOK, Verdict
<1>14. InstalledStays'
  <2> SUFFICES ASSUME NEW i \in answered' \ touched
               PROVE  i \in dirs /\ file'[i]["config"] = given[i] /\ file'[i]["meta"] = Verdict(given[i])
    BY <1>1 DEF InstalledStays, Verdict
  <2>1. answered \subseteq Id /\ answered \subseteq published
    BY DEF IInv, TypeOK
  <2>2. CASE i # id
    BY <1>2, <1>5, <1>6, <2>1, <2>2 DEF IInv, InstalledStays
  <2>3. CASE i = id
    BY <1>3, <1>5, <1>6, <2>1, <2>3
  <2> QED
    BY <2>2, <2>3
<1>15. RemovedStaysGone'
  BY <1>1, <1>3, <1>6 DEF IInv, TypeOK, RemovedStaysGone, Present
<1> QED
  BY <1>11, <1>12, <1>13, <1>14, <1>15 DEF IInv

-----------------------------------------------------------------------------
LEMMA RemoveConfigIInv ==
  ASSUME IInv, NEW s \in Slot, NEW i \in Id, RemoveConfig(s, i)
  PROVE  IInv'
<1>1. /\ i \in published /\ touched' = touched \cup {i} /\ ~Installs(call[s])
      /\ UNCHANGED <<dirs, file, given, published, answered>>
  BY DEF RemoveConfig, At, Installs, InstallStep
<1>2. call[s] \in Call /\ CallOK(call[s]) /\ call \in [Slot -> Call]
  BY DEF IInv, TypeOK, CallsOK
<1>3. \A d \in Call : CallOK(d) => CallOK(d)'
  BY <1>1 DEF CallOK, InstallOK, RemoveOK, ListOK, StartOK, Written, Verdict
<1>4. PICK c : c = IF i \in dirs THEN [at |-> "remove", id |-> i, todo |-> Present(i)] ELSE call[s]
  OBVIOUS
<1>5. c \in Call /\ Goes(s, c) /\ ~Installs(c) /\ CallOK(c)'
  <2>1. CASE i \in dirs
    <3>1. c = [at |-> "remove", id |-> i, todo |-> Present(i)] /\ Goes(s, c)
      BY <1>4, <2>1 DEF RemoveConfig
    <3>2. c \in RemoveCall /\ c.at = "remove" /\ c.id = i
      BY <3>1 DEF RemoveCall, Present
    <3> QED
      BY <1>1, <3>1, <3>2
      DEF Call, Installs, InstallStep, CallOK, InstallOK, RemoveOK, ListOK, StartOK, StartStep
  <2>2. CASE i \notin dirs
    <3>1. c = call[s] /\ call' = call
      BY <1>4, <2>2 DEF RemoveConfig
    <3> QED
      BY <1>1, <1>2, <1>3, <3>1 DEF Goes
  <2> QED
    BY <2>1, <2>2
<1>6. call' \in [Slot -> Call] /\ CallsOK' /\ Unique'
  BY <1>3, <1>5, Moves
<1>7. gone' = gone \/ (gone' = gone \cup {i} /\ i \notin dirs)
  BY DEF RemoveConfig
<1>8. TypeOK' /\ WholeOrAbsent' /\ InstalledStays' /\ IdOK'
  BY <1>1, <1>6, <1>7 DEF IInv, TypeOK, Present, WholeOrAbsent, InstalledStays, IdOK, Verdict
<1>9. RemovedStaysGone'
  BY <1>1, <1>7 DEF IInv, TypeOK, RemovedStaysGone, Present
<1> QED
  BY <1>6, <1>8, <1>9 DEF IInv

(* What a call that executes RemoveConfig is.                                 *)
LEMMA Removing ==
  ASSUME IInv, NEW s \in Slot, At(s, "remove")
  PROVE  /\ call[s] \in RemoveCall /\ call[s].id \in Id /\ call[s].id \in touched
         /\ call[s].todo \subseteq File /\ ~Installs(call[s])
<1>1. call[s] \in Call /\ CallOK(call[s]) /\ call[s].at = "remove"
  BY DEF IInv, TypeOK, CallsOK, At
<1>2. call[s] \in RemoveCall
  BY <1>1, CallKinds
<1> QED
  BY <1>1, <1>2 DEF RemoveCall, CallOK, RemoveOK, Installs, InstallStep

LEMMA UnlinksIInv == ASSUME IInv, NEW s \in Slot, Unlinks(s) PROVE IInv'
<1> DEFINE id == call[s].id
<1>1. PICK f \in call[s].todo : /\ Put(id, f, Nothing)
                               /\ Goes(s, [call[s] EXCEPT !.todo = @ \ {f}])
  BY DEF Unlinks
<1>2. /\ call[s] \in RemoveCall /\ id \in Id /\ id \in touched /\ f \in File
      /\ call[s].at = "remove" /\ UNCHANGED <<dirs, given, history>>
  BY <1>1, Removing DEF Unlinks, At
<1>3. /\ file' \in FileType
      /\ \A j \in Id : \A g \in File :
           file'[j][g] = IF j = id /\ g = f THEN Nothing ELSE file[j][g]
  <2>1. file \in FileType /\ Nothing \in Content
    BY DEF IInv, TypeOK, FileType, Content
  <2> QED
    BY <1>1, <1>2, <2>1, PutFacts
<1>4. PICK c : c = [call[s] EXCEPT !.todo = @ \ {f}]
  OBVIOUS
<1>5. c \in Call /\ c.at = "remove" /\ c.id = id /\ ~Installs(c) /\ Goes(s, c)
  BY <1>1, <1>2, <1>4 DEF Call, RemoveCall, Installs, InstallStep
<1>6. CallOK(c)'
  BY <1>2, <1>5 DEF CallOK, InstallOK, RemoveOK, ListOK, StartOK, StartStep, Installs, history
<1> HIDE DEF id
<1>7. /\ {"config", "meta"} \subseteq File
      /\ \A j \in Id : \A g \in File : file'[j][g] \in {Nothing, file[j][g]}
      /\ \A j \in Id : j # id => \A g \in File : file'[j][g] = file[j][g]
  BY <1>3 DEF File
<1>8. ASSUME NEW d \in Call, CallOK(d) PROVE CallOK(d)'
  <2>1. InstallOK(d)'
    <3> SUFFICES ASSUME Installs(d) PROVE InstallOK(d)'
      BY DEF InstallOK, Installs
    <3>1. d.id \in Id /\ d.part \in Part /\ Temp(d.part) \in File
      BY CallKinds, FileFacts DEF InstallCall
    <3> QED
      BY <1>2, <1>7, <1>8, <3>1 DEF CallOK, InstallOK, Installs, Written, Verdict, history
  <2>2. StartOK(d)'
    <3>1. d.at = "load" => d.id \in Id
      BY CallKinds DEF StartCall, StartStep
    <3> QED
      BY <1>2, <1>7, <1>8, <3>1 DEF CallOK, StartOK, history
  <2>3. RemoveOK(d)' /\ ListOK(d)'
    BY <1>2, <1>8 DEF CallOK, RemoveOK, ListOK, Verdict, history
  <2> QED
    BY <2>1, <2>2, <2>3 DEF CallOK
<1>9. call' \in [Slot -> Call] /\ CallsOK' /\ Unique'
  BY <1>5, <1>6, <1>8, Moves
<1>10. TypeOK'
  <2>1. \A i \in Id \ dirs' : Present(i)' = {}
    BY <1>2, <1>7 DEF IInv, TypeOK, Present
  <2> QED
    BY <1>2, <1>3, <1>9, <2>1 DEF IInv, TypeOK, FileType, Content, history
<1>11. WholeOrAbsent' /\ IdOK'
  BY <1>2, <1>7 DEF IInv, WholeOrAbsent, IdOK, Verdict, history
<1>12. InstalledStays'
  <2>1. answered \subseteq Id
    BY DEF IInv, TypeOK
  <2> QED
    BY <1>2, <1>7, <2>1 DEF IInv, InstalledStays, Verdict, history
<1>13. RemovedStaysGone'
  BY <1>2, <1>7 DEF IInv, TypeOK, RemovedStaysGone, Present, history
<1> QED
  BY <1>9, <1>10, <1>11, <1>12, <1>13 DEF IInv

LEMMA RemovesDirectoryIInv == ASSUME IInv, NEW s \in Slot, RemovesDirectory(s) PROVE IInv'
<1>1. /\ call[s].id \in Id /\ call[s].id \in touched /\ Goes(s, Idle)
      /\ UNCHANGED <<file, given, published, answered, touched>>
  BY Removing DEF RemovesDirectory
<1>2. CASE Present(call[s].id) = {}
  <2>1. dirs' = dirs \ {call[s].id} /\ gone' = gone \cup {call[s].id}
    BY <1>2 DEF RemovesDirectory
  <2>2. \A d : CallOK(d) => CallOK(d)'
    BY <1>1 DEF CallOK, InstallOK, RemoveOK, ListOK, StartOK, Written
  <2>3. PICK c : c = Idle
    OBVIOUS
  <2>4. c \in Call /\ ~Installs(c) /\ CallOK(c)
    BY <2>3, IdleFacts
  <2>5. Goes(s, c)
    BY <1>1, <2>3
  <2>6. call' \in [Slot -> Call] /\ CallsOK' /\ Unique'
    BY <2>2, <2>4, <2>5, Moves
  <2>7. TypeOK' /\ WholeOrAbsent' /\ InstalledStays' /\ IdOK'
    BY <1>1, <1>2, <2>1, <2>6
    DEF IInv, TypeOK, Present, WholeOrAbsent, InstalledStays, IdOK, Verdict
  <2>8. RemovedStaysGone'
    BY <1>1, <1>2, <2>1 DEF IInv, RemovedStaysGone, Present
  <2> QED
    BY <2>6, <2>7, <2>8 DEF IInv
<1>3. CASE Present(call[s].id) # {}
  <2>1. UNCHANGED <<dirs, file, given, history>>
    BY <1>1, <1>3 DEF RemovesDirectory, history
  <2> QED
    BY <1>1, <2>1, IdleFacts, OnlyCall
<1> QED
  BY <1>2, <1>3

-----------------------------------------------------------------------------
LEMMA ListConfigsIInv == ASSUME IInv, NEW s \in Slot, ListConfigs(s) PROVE IInv'
<1>1. PICK c : c = [at |-> "list", todo |-> dirs, found |-> {}, out |-> {},
                    must |-> answered \ touched, failed |-> {}]
  OBVIOUS
<1>2. c \in Call
  BY <1>1 DEF Call, ListCall, IInv, TypeOK
<1>3. CallOK(c) /\ ~Installs(c)
  <2>1. \A i \in c.must \ touched : i \in c.todo
    BY <1>1 DEF IInv, InstalledStays
  <2> QED
    BY <1>1, <2>1
    DEF CallOK, InstallOK, RemoveOK, ListOK, StartOK, StartStep, Installs, InstallStep
<1>4. Goes(s, c) /\ UNCHANGED <<dirs, file, given, history>>
  BY <1>1 DEF ListConfigs
<1> QED
  BY <1>2, <1>3, <1>4, OnlyCall

(* What a call that executes ListConfigs is.                                  *)
LEMMA Listing ==
  ASSUME IInv, NEW s \in Slot, At(s, "list")
  PROVE  call[s] \in ListCall /\ ListOK(call[s]) /\ call[s].at = "list"
<1>1. call[s] \in Call /\ CallOK(call[s]) /\ call[s].at = "list"
  BY DEF IInv, TypeOK, CallsOK, At
<1> QED
  BY <1>1, CallKinds DEF CallOK

LEMMA LooksUpIInv == ASSUME IInv, NEW s \in Slot, LooksUp(s) PROVE IInv'
<1>1. call[s] \in ListCall /\ ListOK(call[s]) /\ call[s].at = "list" /\ call[s].found = {}
  BY Listing DEF LooksUp
<1>2. PICK i \in call[s].todo :
        Goes(s, [call[s] EXCEPT !.todo = @ \ {i},
                                !.found = {j \in {i} : file[i]["config"] # Nothing}])
  BY DEF LooksUp
<1>3. PICK c : c = [call[s] EXCEPT !.todo = @ \ {i},
                                   !.found = {j \in {i} : file[i]["config"] # Nothing}]
  OBVIOUS
<1>4. i \in Id /\ call[s].todo \subseteq Id
  BY <1>1 DEF ListCall
<1>5. /\ c \in ListCall /\ c.at = "list" /\ c.todo = call[s].todo \ {i}
      /\ c.found = {j \in {i} : file[i]["config"] # Nothing}
      /\ c.out = call[s].out /\ c.must = call[s].must /\ c.failed = call[s].failed
  BY <1>1, <1>3, <1>4 DEF ListCall
<1>6. ListOK(c)
  <2>1. ASSUME NEW j \in (c.must \ touched) \ c.failed
        PROVE  j \in c.todo \/ j \in c.found \/ <<j, Verdict(given[j])>> \in c.out
    <3>1. j \in call[s].todo \/ <<j, Verdict(given[j])>> \in call[s].out
      BY <1>1, <1>5, <2>1 DEF ListOK
    <3>2. j \in answered \ touched /\ answered \subseteq published /\ published \subseteq Id
      BY <1>1, <1>5, <2>1 DEF ListOK, IInv, TypeOK
    <3>3. file[j]["config"] # Nothing
      BY <3>2 DEF IInv, InstalledStays, IdOK
    <3> QED
      BY <1>5, <3>1, <3>3
  <2> QED
    BY <1>1, <1>5, <2>1 DEF ListOK
<1>7. CallOK(c) /\ ~Installs(c)
  BY <1>5, <1>6 DEF CallOK, InstallOK, RemoveOK, StartOK, StartStep, Installs, InstallStep
<1>8. c \in Call /\ Goes(s, c) /\ UNCHANGED <<dirs, file, given, history>>
  BY <1>2, <1>3, <1>5 DEF Call, LooksUp
<1> QED
  BY <1>7, <1>8, OnlyCall

LEMMA LookupFailsIInv == ASSUME IInv, NEW s \in Slot, LookupFails(s) PROVE IInv'
<1>1. call[s] \in ListCall /\ ListOK(call[s]) /\ call[s].at = "list"
  BY Listing DEF LookupFails
<1>2. PICK i \in call[s].todo :
        Goes(s, [call[s] EXCEPT !.todo = @ \ {i}, !.failed = @ \cup {i}])
  BY DEF LookupFails
<1>3. PICK c : c = [call[s] EXCEPT !.todo = @ \ {i}, !.failed = @ \cup {i}]
  OBVIOUS
<1>4. i \in Id /\ call[s].todo \subseteq Id
  BY <1>1 DEF ListCall
<1>5. /\ c \in ListCall /\ c.at = "list" /\ c.todo = call[s].todo \ {i}
      /\ c.found = call[s].found /\ c.out = call[s].out /\ c.must = call[s].must
      /\ c.failed = call[s].failed \cup {i}
  BY <1>1, <1>3, <1>4 DEF ListCall
<1>6. ListOK(c)
  BY <1>1, <1>5 DEF ListOK
<1>7. CallOK(c) /\ ~Installs(c)
  BY <1>5, <1>6 DEF CallOK, InstallOK, RemoveOK, StartOK, StartStep, Installs, InstallStep
<1>8. c \in Call /\ Goes(s, c) /\ UNCHANGED <<dirs, file, given, history>>
  BY <1>2, <1>3, <1>5 DEF Call, LookupFails
<1> QED
  BY <1>7, <1>8, OnlyCall

(* Metadata that cannot be read shows the configuration as unsafe.             *)
LEMMA MetaFailsIInv == ASSUME IInv, NEW s \in Slot, MetaFails(s) PROVE IInv'
<1>1. call[s] \in ListCall /\ ListOK(call[s]) /\ call[s].at = "list"
  BY Listing DEF MetaFails
<1>2. PICK i \in call[s].found :
        Goes(s, [call[s] EXCEPT !.found = {}, !.out = @ \cup {<<i, "unsafe">>},
                                !.failed = @ \cup {i}])
  BY DEF MetaFails
<1>3. PICK c : c = [call[s] EXCEPT !.found = {}, !.out = @ \cup {<<i, "unsafe">>},
                                   !.failed = @ \cup {i}]
  OBVIOUS
<1>4. i \in Id
  BY <1>1 DEF ListCall
<1>5. /\ c \in ListCall /\ c.at = "list" /\ c.todo = call[s].todo /\ c.found = {}
      /\ c.out = call[s].out \cup {<<i, "unsafe">>} /\ c.must = call[s].must
      /\ c.failed = call[s].failed \cup {i}
  <2>1. PICK out : out = call[s].out \cup {<<i, "unsafe">>}
    OBVIOUS
  <2>2. out \in SUBSET (Id \X {"safe", "unsafe"})
    <3>1. call[s].out \in SUBSET (Id \X {"safe", "unsafe"})
      BY <1>1 DEF ListCall
    <3> QED
      BY <1>4, <2>1, <3>1
  <2>3. c = [call[s] EXCEPT !.found = {}, !.out = out, !.failed = @ \cup {i}]
    BY <1>3, <2>1
  <2> QED
    BY <1>1, <1>4, <2>1, <2>2, <2>3 DEF ListCall
<1>6. ListOK(c)
  <2>1. ASSUME NEW j \in (c.must \ touched) \ c.failed
        PROVE  j \in c.todo \/ j \in c.found \/ <<j, Verdict(given[j])>> \in c.out
    <3>1. j \in call[s].todo \/ j = i \/ <<j, Verdict(given[j])>> \in call[s].out
      BY <1>1, <1>5, <2>1 DEF ListOK
    <3> QED
      BY <1>5, <2>1, <3>1
  <2>2. ASSUME NEW j \in Id, <<j, "safe">> \in c.out PROVE given[j] \in SafeText
    BY <1>1, <1>5, <2>2 DEF ListOK
  <2> QED
    BY <1>1, <1>5, <2>1, <2>2 DEF ListOK
<1>7. CallOK(c) /\ ~Installs(c)
  BY <1>5, <1>6 DEF CallOK, InstallOK, RemoveOK, StartOK, StartStep, Installs, InstallStep
<1>8. c \in Call /\ Goes(s, c) /\ UNCHANGED <<dirs, file, given, history>>
  BY <1>2, <1>3, <1>5 DEF Call, MetaFails
<1> QED
  BY <1>7, <1>8, OnlyCall

LEMMA ReadsMetaIInv == ASSUME IInv, NEW s \in Slot, ReadsMeta(s) PROVE IInv'
<1>1. call[s] \in ListCall /\ ListOK(call[s]) /\ call[s].at = "list"
  BY Listing DEF ReadsMeta
<1>2. PICK i \in call[s].found :
        Goes(s, [call[s] EXCEPT !.found = {}, !.out = @ \cup {<<i, Reported(i)>>}])
  BY DEF ReadsMeta
<1>3. PICK c : c = [call[s] EXCEPT !.found = {}, !.out = @ \cup {<<i, Reported(i)>>}]
  OBVIOUS
<1>4. i \in Id /\ Reported(i) \in {"safe", "unsafe"}
  BY <1>1 DEF ListCall, Reported
<1>5. /\ c \in ListCall /\ c.at = "list" /\ c.todo = call[s].todo /\ c.found = {}
      /\ c.out = call[s].out \cup {<<i, Reported(i)>>} /\ c.must = call[s].must
      /\ c.failed = call[s].failed
  <2>1. <<i, Reported(i)>> \in Id \X {"safe", "unsafe"}
    BY <1>4
  <2>2. PICK out : out = call[s].out \cup {<<i, Reported(i)>>}
    OBVIOUS
  <2>3. out \in SUBSET (Id \X {"safe", "unsafe"})
    <3>1. call[s].out \in SUBSET (Id \X {"safe", "unsafe"})
      BY <1>1 DEF ListCall
    <3> QED
      BY <2>1, <2>2, <3>1
  <2>4. c = [call[s] EXCEPT !.found = {}, !.out = out]
    BY <1>3, <2>2
  <2> QED
    BY <1>1, <2>2, <2>3, <2>4 DEF ListCall
<1>6. Reported(i) = "safe" => given[i] \in SafeText
  BY <1>4, StoreAssumption DEF IInv, WholeOrAbsent, Reported, Verdict
<1>7. i \in answered \ touched => Reported(i) = Verdict(given[i])
  BY DEF IInv, InstalledStays, Reported, Verdict
<1>8. ListOK(c)
  <2>1. ASSUME NEW j \in (c.must \ touched) \ c.failed
        PROVE  j \in c.todo \/ j \in c.found \/ <<j, Verdict(given[j])>> \in c.out
    <3>1. j \in call[s].todo \/ j = i \/ <<j, Verdict(given[j])>> \in call[s].out
      BY <1>1, <1>5, <2>1 DEF ListOK
    <3>2. j \in answered \ touched
      BY <1>1, <1>5, <2>1 DEF ListOK
    <3> QED
      BY <1>5, <1>7, <3>1, <3>2
  <2>2. ASSUME NEW j \in Id, <<j, "safe">> \in c.out PROVE given[j] \in SafeText
    BY <1>1, <1>5, <1>6, <2>2 DEF ListOK
  <2> QED
    BY <1>1, <1>5, <2>1, <2>2 DEF ListOK
<1>9. CallOK(c) /\ ~Installs(c)
  BY <1>5, <1>8 DEF CallOK, InstallOK, RemoveOK, StartOK, StartStep, Installs, InstallStep
<1>10. c \in Call /\ Goes(s, c) /\ UNCHANGED <<dirs, file, given, history>>
  BY <1>2, <1>3, <1>5 DEF Call, ReadsMeta
<1> QED
  BY <1>9, <1>10, OnlyCall

-----------------------------------------------------------------------------
(* The shadow copy that a published id still has is the text that was installed. *)
LEMMA ReadText ==
  ASSUME IInv, NEW i \in Id
  PROVE  /\ file[i]["config"] \in {Nothing, given[i]}
         /\ file[i]["config"] # Nothing => file[i]["config"] \in Text
         /\ given[i] \in Text \cup {Nothing}
BY DEF IInv, TypeOK, WholeOrAbsent

LEMMA GetSanitizedConfigIInv ==
  ASSUME IInv, NEW s \in Slot, NEW i \in Id, GetSanitizedConfig(s, i)
  PROVE  IInv'
<1>1. PICK c : c = [at |-> "shown", id |-> i, text |-> file[i]["config"]]
  OBVIOUS
<1>2. c \in Call
  BY <1>1, ReadText DEF GetSanitizedConfig, Call, ShowCall
<1>3. CallOK(c) /\ ~Installs(c)
  BY <1>1 DEF CallOK, InstallOK, RemoveOK, ListOK, StartOK, StartStep, Installs, InstallStep
<1>4. Goes(s, c) /\ UNCHANGED <<dirs, file, given, history>>
  BY <1>1 DEF GetSanitizedConfig
<1> QED
  BY <1>2, <1>3, <1>4, OnlyCall

LEMMA StartConnectionIInv ==
  ASSUME IInv, NEW s \in Slot, NEW i \in Id, StartConnection(s, i)
  PROVE  IInv'
<1>1. PICK c : c = [at |-> "read", id |-> i, text |-> Nothing, remotes |-> "none", runs |-> Nothing]
  OBVIOUS
<1>2. c \in StartCall /\ c \in Call
  BY <1>1 DEF Call, StartCall
<1>3. CallOK(c) /\ ~Installs(c)
  BY <1>1 DEF StartConnection, CallOK, InstallOK, RemoveOK, ListOK, StartOK, StartStep, Installs, InstallStep
<1>4. Goes(s, c) /\ UNCHANGED <<dirs, file, given, history>>
  BY <1>1 DEF StartConnection
<1> QED
  BY <1>2, <1>3, <1>4, OnlyCall

(* What a call that executes StartConnection is.                              *)
LEMMA Starting ==
  ASSUME IInv, NEW s \in Slot, call[s].at \in StartStep
  PROVE  call[s] \in StartCall /\ StartOK(call[s]) /\ call[s].id \in Id
<1>1. call[s] \in Call /\ CallOK(call[s])
  BY DEF IInv, TypeOK, CallsOK
<1>2. call[s] \in StartCall
  BY <1>1, CallKinds
<1> QED
  BY <1>1, <1>2 DEF CallOK, StartCall

(* A call of StartConnection goes on, or ends.                                *)
LEMMA StartGoesOn ==
  ASSUME IInv, NEW s \in Slot, NEW c \in StartCall, StartOK(c), Goes(s, c),
         UNCHANGED <<dirs, file, given, history>>
  PROVE  IInv'
<1>1. c \in Call /\ ~Installs(c)
  BY DEF Call, StartCall, Installs, InstallStep
<1>2. CallOK(c)
  BY DEF CallOK, InstallOK, RemoveOK, ListOK, StartCall, Installs, InstallStep
<1> QED
  BY <1>1, <1>2, OnlyCall

LEMMA CallEnds ==
  ASSUME IInv, NEW s \in Slot, Goes(s, Idle), UNCHANGED <<dirs, file, given, history>>
  PROVE  IInv'
BY IdleFacts, OnlyCall

LEMMA StartIInv ==
  ASSUME IInv, NEW s \in Slot,
         ReadsConfig(s) \/ PolkitAnswers(s) \/ ResolvesRemotes(s) \/ OpenVpnReads(s)
  PROVE  IInv'
<1> DEFINE text == file[call[s].id]["config"]
<1>1. UNCHANGED <<dirs, file, given, history>>
  BY DEF ReadsConfig, PolkitAnswers, ResolvesRemotes, OpenVpnReads
<1>2. call[s].at \in StartStep
  BY DEF ReadsConfig, PolkitAnswers, ResolvesRemotes, OpenVpnReads, At, StartStep
<1>3. call[s] \in StartCall /\ StartOK(call[s]) /\ call[s].id \in Id
  BY <1>2, Starting
<1>4. text \in {Nothing, given[call[s].id]} /\ (text # Nothing => text \in Text)
  BY <1>3, ReadText
<1> HIDE DEF text
<1>5. CASE ReadsConfig(s)
  <2>1. CASE Goes(s, Idle)
    BY <1>1, <2>1, CallEnds
  <2>2. CASE text # Nothing /\ Goes(s, [call[s] EXCEPT !.at = "prompt", !.text = text])
    <3>1. PICK c : c = [call[s] EXCEPT !.at = "prompt", !.text = text]
      OBVIOUS
    <3>2. c \in StartCall /\ c.at = "prompt" /\ c.id = call[s].id /\ c.text = text
      BY <1>3, <1>4, <2>2, <3>1 DEF StartCall
    <3>3. StartOK(c)
      BY <1>2, <1>3, <1>4, <2>2, <3>2 DEF StartOK, StartStep
    <3>4. Goes(s, c)
      BY <2>2, <3>1
    <3> QED
      BY <1>1, <3>2, <3>3, <3>4, StartGoesOn
  <2> QED
    BY <1>5, <2>1, <2>2 DEF ReadsConfig, text
<1>6. CASE PolkitAnswers(s)
  <2>1. CASE Goes(s, Idle)
    BY <1>1, <2>1, CallEnds
  <2>2. CASE Goes(s, [call[s] EXCEPT !.at = "resolve"])
    <3>1. PICK c : c = [call[s] EXCEPT !.at = "resolve"]
      OBVIOUS
    <3>2. c \in StartCall /\ c.at = "resolve" /\ c.id = call[s].id /\ c.text = call[s].text
      BY <1>3, <3>1 DEF StartCall
    <3>3. call[s].at = "prompt"
      BY <1>6 DEF PolkitAnswers, At
    <3>4. StartOK(c)
      BY <1>3, <3>2, <3>3 DEF StartOK, StartStep
    <3> QED
      BY <1>1, <2>2, <3>1, <3>2, <3>4, StartGoesOn
  <2> QED
    BY <1>6, <2>1, <2>2 DEF PolkitAnswers
<1>7. CASE ResolvesRemotes(s)
  <2>1. PICK remotes \in {"none", text} : Goes(s, [call[s] EXCEPT !.at = "load", !.remotes = remotes])
    BY <1>7 DEF ResolvesRemotes, text
  <2>2. PICK c : c = [call[s] EXCEPT !.at = "load", !.remotes = remotes]
    OBVIOUS
  <2>3. /\ c \in StartCall /\ c.at = "load" /\ c.id = call[s].id
        /\ c.text = call[s].text /\ c.remotes = remotes
    <3>1. remotes \in Text \cup {"none", Nothing, Torn}
      BY <1>4, <2>1
    <3> QED
      BY <1>3, <2>2, <3>1 DEF StartCall
  <2>4. call[s].at = "resolve"
    BY <1>7 DEF ResolvesRemotes, At
  <2>5. c.text = given[c.id] /\ c.id \in published
    BY <1>3, <2>3, <2>4 DEF StartOK, StartStep
  <2>6. c.remotes \in {"none", c.text} \/ file[c.id]["config"] = Nothing
    BY <1>4, <2>1, <2>3, <2>5 DEF text
  <2>7. StartOK(c)
    BY <2>3, <2>5, <2>6 DEF StartOK, StartStep
  <2> QED
    BY <1>1, <2>1, <2>2, <2>3, <2>7, StartGoesOn
<1>8. CASE OpenVpnReads(s)
  <2>1. PICK runs \in {Nothing, text} : Goes(s, [call[s] EXCEPT !.at = "started", !.runs = runs])
    BY <1>8 DEF OpenVpnReads, text
  <2>2. PICK c : c = [call[s] EXCEPT !.at = "started", !.runs = runs]
    OBVIOUS
  <2>3. /\ c \in StartCall /\ c.at = "started" /\ c.id = call[s].id
        /\ c.text = call[s].text /\ c.remotes = call[s].remotes /\ c.runs = runs
    BY <1>3, <1>4, <2>1, <2>2 DEF StartCall
  <2>4. call[s].at = "load" /\ Goes(s, c)
    BY <1>8, <2>1, <2>2 DEF OpenVpnReads, At
  <2>5. StartOK(c)
    BY <1>3, <1>4, <2>1, <2>3, <2>4 DEF StartOK, StartStep, text
  <2> QED
    BY <1>1, <2>3, <2>4, <2>5, StartGoesOn
<1> QED
  BY <1>5, <1>6, <1>7, <1>8

-----------------------------------------------------------------------------
LEMMA CrashIInv == ASSUME IInv, Crash PROVE IInv'
<1>1. call' = [s \in Slot |-> Idle] /\ UNCHANGED <<dirs, file, given, history>>
  BY DEF Crash
<1>2. PICK c : c = Idle
  OBVIOUS
<1>3. c \in Call /\ ~Installs(c) /\ CallOK(c)'
  BY <1>2 DEF Idle, Call, Installs, InstallStep, StartStep, CallOK, InstallOK, RemoveOK, ListOK, StartOK
<1>4. \A s \in Slot : call'[s] = c
  BY <1>1, <1>2
<1>5. CallsOK'
  <2> SUFFICES ASSUME NEW s \in Slot PROVE CallOK(call[s])'
    BY DEF CallsOK
  <2> QED
    BY <1>3, <1>4
<1>6. Unique' /\ call' \in [Slot -> Call]
  BY <1>1, <1>2, <1>3, <1>4 DEF Unique, Installs
<1>7. TypeOK' /\ WholeOrAbsent' /\ InstalledStays' /\ RemovedStaysGone' /\ IdOK'
  BY <1>1, <1>6 DEF IInv, TypeOK, Present, WholeOrAbsent, InstalledStays, RemovedStaysGone, IdOK, Verdict, history
<1> QED
  BY <1>5, <1>6, <1>7 DEF IInv

LEMMA StepIInv == IInv /\ [Next]_vars => IInv'
<1> SUFFICES ASSUME IInv, [Next]_vars PROVE IInv'
  OBVIOUS
<1>1. ASSUME NEW s \in Slot, Install(s) PROVE IInv'
  BY <1>1, InstallConfigIInv, MakesDirectoryIInv, OpensTempIInv, WritesTempIInv,
     RenamesTempIInv, InstallFailsIInv DEF Install
<1>2. ASSUME NEW s \in Slot, Remove(s) PROVE IInv'
  <2>1. CASE RemoveFails(s)
    BY <2>1, CallEnds DEF RemoveFails
  <2> QED
    BY <1>2, <2>1, RemoveConfigIInv, UnlinksIInv, RemovesDirectoryIInv DEF Remove
<1>3. ASSUME NEW s \in Slot, Read(s) PROVE IInv'
  <2>1. CASE ListFails(s)
    BY <2>1, CallEnds DEF ListFails
  <2> QED
    BY <1>3, <2>1, ListConfigsIInv, LooksUpIInv, LookupFailsIInv, ReadsMetaIInv, MetaFailsIInv,
       GetSanitizedConfigIInv DEF Read
<1>4. ASSUME NEW s \in Slot, Start(s) PROVE IInv'
  BY <1>4, StartConnectionIInv, StartIInv DEF Start
<1>5. ASSUME NEW s \in Slot, Returns(s) PROVE IInv'
  BY <1>5, CallEnds DEF Returns
<1>6. CASE UNCHANGED vars
  <2>1. \A d : CallOK(d) => CallOK(d)'
    BY <1>6 DEF vars, CallOK, InstallOK, RemoveOK, ListOK, StartOK, Written, Verdict
  <2>2. CallsOK'
    <3> SUFFICES ASSUME NEW s \in Slot, NEW d, d = call[s] PROVE CallOK(call[s])'
      BY DEF CallsOK
    <3>1. CallOK(d)'
      BY <2>1 DEF IInv, CallsOK
    <3>2. call' = call
      BY <1>6 DEF vars
    <3> QED
      BY <3>1, <3>2
  <2>3. TypeOK' /\ WholeOrAbsent' /\ InstalledStays' /\ RemovedStaysGone' /\ IdOK' /\ Unique'
    BY <1>6 DEF vars, IInv, TypeOK, Present, WholeOrAbsent, InstalledStays, RemovedStaysGone,
                IdOK, Unique, Verdict
  <2> QED
    BY <2>2, <2>3 DEF IInv
<1> QED
  BY <1>1, <1>2, <1>3, <1>4, <1>5, <1>6, CrashIInv DEF Next

LEMMA Invariance == Spec => []IInv
BY InitIInv, StepIInv, PTL DEF Spec

-----------------------------------------------------------------------------
(* The variables keep their types, and no file outlives its directory.         *)
THEOREM TypeCorrect == Spec => []TypeOK
<1>1. IInv => TypeOK
  BY DEF IInv
<1> QED
  BY <1>1, Invariance, PTL

(* Shadow copies and metadata are whole or absent, whatever fails or dies.      *)
THEOREM FilesAreWhole == Spec => []WholeOrAbsent
<1>1. IInv => WholeOrAbsent
  BY DEF IInv
<1> QED
  BY <1>1, Invariance, PTL

(* What was reported installed stays until a removal is asked for.             *)
THEOREM InstallationLasts == Spec => []InstalledStays
<1>1. IInv => InstalledStays
  BY DEF IInv
<1> QED
  BY <1>1, Invariance, PTL

(* What was reported removed never comes back, nor does any file of it.        *)
THEOREM RemovalLasts == Spec => []RemovedStaysGone
<1>1. IInv => RemovedStaysGone
  BY DEF IInv
<1> QED
  BY <1>1, Invariance, PTL

(* A list misses, or shows without its verdict, no configuration that was there  *)
(* all the time except one whose own read failed, whatever else fails, comes or  *)
(* goes meanwhile; and it shows no unsafe configuration as safe.                *)
THEOREM ListsMissOnlyUnread == Spec => []ListMissesOnlyUnread
<1>1. IInv => ListMissesOnlyUnread
  <2> SUFFICES ASSUME IInv, NEW s \in Slot, Listed(s)
               PROVE  /\ \A i \in (call[s].must \ touched) \ call[s].failed :
                           <<i, Verdict(given[i])>> \in call[s].out
                      /\ \A entry \in call[s].out : entry[2] = "safe" => given[entry[1]] \in SafeText
    BY DEF ListMissesOnlyUnread
  <2>1. call[s] \in ListCall /\ ListOK(call[s]) /\ call[s].at = "list"
    BY Listing DEF Listed
  <2>2. \A i \in (call[s].must \ touched) \ call[s].failed : <<i, Verdict(given[i])>> \in call[s].out
    BY <2>1 DEF ListOK, Listed
  <2>3. ASSUME NEW entry \in call[s].out, entry[2] = "safe" PROVE given[entry[1]] \in SafeText
    <3>1. entry \in Id \X {"safe", "unsafe"}
      BY <2>1 DEF ListCall
    <3>2. entry = <<entry[1], "safe">> /\ entry[1] \in Id
      BY <2>3, <3>1
    <3>3. <<entry[1], "safe">> \in call[s].out
      BY <2>3, <3>2
    <3> QED
      BY <2>1, <3>2, <3>3 DEF ListOK
  <2> QED
    BY <2>2, <2>3
<1> QED
  BY <1>1, Invariance, PTL

(* OpenVPN reads the text that was approved, however long the prompt was open.  *)
THEOREM ApprovedTextRuns == Spec => []RunsWhatWasApproved
<1>1. IInv => RunsWhatWasApproved
  <2> SUFFICES ASSUME IInv, NEW s \in Slot, call[s].at = "started", call[s].runs # Nothing
               PROVE  call[s].runs = call[s].text /\ call[s].remotes \in {"none", call[s].text}
    BY DEF RunsWhatWasApproved
  <2>1. StartOK(call[s])
    BY Starting DEF StartStep
  <2> QED
    BY <2>1 DEF StartOK
<1> QED
  BY <1>1, Invariance, PTL

-----------------------------------------------------------------------------
(* Refinement: the table sees a renamed or an unlinked file, and nothing else.  *)

Row(config, meta) ==
  IF config = Nothing THEN Nothing
  ELSE [text |-> config, label |-> IF meta = Nothing THEN "none" ELSE meta]

(* The table after the files of one configuration have changed.                *)
LEMMA EntriesChange ==
  ASSUME file \in FileType, file' \in FileType, NEW i \in Id,
         \A j \in Id : j # i => /\ file'[j]["config"] = file[j]["config"]
                               /\ file'[j]["meta"] = file[j]["meta"]
  PROVE  Entries' = [Entries EXCEPT ![i] = Row(file'[i]["config"], file'[i]["meta"])]
BY DEF Entries, Row

LEMMA SameEntries ==
  ASSUME \A j \in Id : /\ file'[j]["config"] = file[j]["config"]
                      /\ file'[j]["meta"] = file[j]["meta"]
  PROVE  Entries' = Entries
BY DEF Entries

LEMMA RenameRefines ==
  ASSUME IInv, NEW s \in Slot, RenamesTemp(s)
  PROVE  Table!TableNext \/ UNCHANGED <<Entries, published>>
<1> DEFINE id == call[s].id
           part == call[s].part
<1>1. Installs(call[s]) /\ call[s].at = "rename"
  BY DEF RenamesTemp, At, Installs, InstallStep
<1>2. /\ id \in Id /\ part \in Part /\ InstallOK(call[s])
      /\ given[id] \in Text /\ given[id] # Nothing /\ file[id][Temp(part)] # Nothing
      /\ Temp(part) \in File /\ part \in File /\ part # Temp(part)
      /\ {"config", "meta"} \subseteq File /\ Temp(part) \notin {"config", "meta"}
      /\ given \in [Id -> Text \cup {Nothing}] /\ file \in FileType
      /\ file[id]["config"] \in {Nothing, given[id]}
      /\ id \notin published => file[id]["meta"] = Nothing
  BY <1>1, Installing, FileFacts
  DEF Part, Temp, RenamesTemp, IInv, TypeOK, FileType, Content, IdOK, WholeOrAbsent
<1>3. file' = [file EXCEPT ![id] = [@ EXCEPT ![part] = Written(id, part), ![Temp(part)] = Nothing]]
  BY <1>1, <1>2 DEF RenamesTemp, InstallOK
<1>4. Written(id, part) \in Content /\ Nothing \in Content
  BY <1>2, WrittenFacts DEF Content
<1>5. file' \in FileType
  BY <1>2, <1>3, <1>4 DEF FileType
<1>6. \A f \in {"config", "meta"} :
        file'[id][f] = IF f = part THEN Written(id, part) ELSE file[id][f]
  BY <1>2, <1>3 DEF FileType
<1>7. \A j \in Id : j # id => file'[j] = file[j]
  BY <1>2, <1>3 DEF FileType
<1>8. Entries' = [Entries EXCEPT ![id] = Row(file'[id]["config"], file'[id]["meta"])]
  BY <1>2, <1>5, <1>7, EntriesChange
<1>9. published' = published \cup {id}
  BY DEF RenamesTemp
<1> HIDE DEF id, part
<1>10. CASE part = "config"
  <2>1. id \notin published
    BY <1>1, <1>2, <1>10 DEF InstallOK, id, part
  <2>2. file'[id]["config"] = given[id] /\ file'[id]["meta"] = Nothing
    BY <1>2, <1>6, <1>10, <2>1 DEF Written
  <2>3. Entries' = [Entries EXCEPT ![id] = [text |-> given[id], label |-> "none"]]
    BY <1>2, <1>8, <2>2 DEF Row
  <2>4. Table!Put(id, given[id])
    BY <1>9, <2>1, <2>3 DEF Table!Put
  <2> QED
    BY <1>2, <2>4 DEF Table!TableNext
<1>11. CASE part = "meta"
  <2>1. published' = published
    BY <1>1, <1>2, <1>9, <1>11 DEF InstallOK, id, part
  <2>2. file'[id]["config"] = file[id]["config"] /\ file'[id]["meta"] = Verdict(given[id])
    BY <1>6, <1>11 DEF Written
  <2>3. CASE file[id]["config"] = Nothing
    <3>1. Entries' = [Entries EXCEPT ![id] = Nothing] /\ Entries[id] = Nothing
      BY <1>2, <1>8, <2>2, <2>3 DEF Row, Entries
    <3>2. Entries' = Entries
      BY <3>1 DEF Entries
    <3> QED
      BY <2>1, <3>2
  <2>4. CASE file[id]["config"] # Nothing
    <3>1. Verdict(given[id]) \in {"safe", "unsafe"} /\ Verdict(given[id]) # Nothing
      BY StoreAssumption DEF Verdict
    <3>2. /\ Entries[id] = [text |-> given[id],
                            label |-> IF file[id]["meta"] = Nothing THEN "none" ELSE file[id]["meta"]]
          /\ file[id]["meta"] \in {Nothing, Verdict(given[id])}
      BY <1>2, <2>4 DEF Entries, IInv, WholeOrAbsent
    <3>3. Entries' = [Entries EXCEPT ![id] = [text |-> given[id], label |-> Verdict(given[id])]]
      BY <1>2, <1>8, <2>2, <2>4, <3>1 DEF Row
    <3>4. Entries[id] \in [text : Text, label : {"safe", "unsafe", "none"}]
      BY <1>2, <3>1, <3>2
    <3>5. Entries[id] # Nothing
      BY <3>4, StoreAssumption
    <3>6. Entries[id].text = given[id]
      BY <3>2
    <3>7. [Entries[id] EXCEPT !.label = Verdict(given[id])]
            = [text |-> given[id], label |-> Verdict(given[id])]
      BY <3>2
    <3>8. Entries' = [Entries EXCEPT ![id].label = Verdict(given[id])]
      BY <3>3, <3>7
    <3>9. Table!Verdict(given[id]) = Verdict(given[id])
      BY DEF Table!Verdict, Verdict
    <3>10. Table!Label(id, Verdict(given[id]))
      BY <2>1, <3>5, <3>6, <3>8, <3>9 DEF Table!Label
    <3> QED
      BY <1>2, <3>1, <3>10 DEF Table!TableNext
  <2> QED
    BY <2>3, <2>4
<1> QED
  BY <1>2, <1>10, <1>11 DEF Part

LEMMA UnlinkRefines ==
  ASSUME IInv, NEW s \in Slot, Unlinks(s)
  PROVE  Table!TableNext \/ UNCHANGED <<Entries, published>>
<1> DEFINE id == call[s].id
<1>1. PICK f \in call[s].todo : Put(id, f, Nothing)
  BY DEF Unlinks
<1>2. id \in Id /\ f \in File /\ published' = published
  BY Removing DEF Unlinks, history
<1>3. file \in FileType /\ Nothing \in Content /\ {"config", "meta"} \subseteq File
  BY DEF IInv, TypeOK, FileType, Content, File
<1>4. /\ file' \in FileType
      /\ \A j \in Id : \A g \in File :
           file'[j][g] = IF j = id /\ g = f THEN Nothing ELSE file[j][g]
  BY <1>1, <1>2, <1>3, PutFacts
<1> HIDE DEF id
<1>5. Entries' = [Entries EXCEPT ![id] = Row(file'[id]["config"], file'[id]["meta"])]
  BY <1>2, <1>3, <1>4, EntriesChange
<1>6. CASE f \notin {"config", "meta"}
  BY <1>2, <1>3, <1>4, <1>6, SameEntries
<1>7. CASE f = "config"
  <2>1. Entries' = [Entries EXCEPT ![id] = Nothing]
    BY <1>2, <1>3, <1>4, <1>5, <1>7 DEF Row
  <2>2. Table!Drop(id)
    BY <1>2, <2>1 DEF Table!Drop
  <2> QED
    BY <1>2, <2>2 DEF Table!TableNext
<1>8. CASE f = "meta"
  <2>1. file'[id]["config"] = file[id]["config"] /\ file'[id]["meta"] = Nothing
    BY <1>2, <1>3, <1>4, <1>8
  <2>2. CASE file[id]["config"] = Nothing
    <3>1. Entries' = [Entries EXCEPT ![id] = Nothing] /\ Entries[id] = Nothing
      BY <1>2, <1>5, <2>1, <2>2 DEF Row, Entries
    <3>2. Entries' = Entries
      BY <3>1 DEF Entries
    <3> QED
      BY <1>2, <3>2
  <2>3. CASE file[id]["config"] # Nothing
    <3>1. PICK t : t = file[id]["config"]
      OBVIOUS
    <3>2. /\ t \in Text /\ t = given[id]
          /\ file[id]["meta"] \in {Nothing, "safe", "unsafe"}
      BY <1>2, <2>3, <3>1, ReadText DEF IInv, WholeOrAbsent, Verdict
    <3>3. Entries[id] = [text |-> t, label |-> IF file[id]["meta"] = Nothing THEN "none"
                                               ELSE file[id]["meta"]]
      BY <1>2, <2>3, <3>1 DEF Entries
    <3>4. Entries' = [Entries EXCEPT ![id] = [text |-> t, label |-> "none"]]
      BY <1>2, <1>5, <2>1, <2>3, <3>1 DEF Row
    <3>5. Entries[id] \in [text : Text, label : {"safe", "unsafe", "none"}]
      BY <3>2, <3>3
    <3>6. Entries[id] # Nothing
      BY <3>5, StoreAssumption
    <3>7. [Entries[id] EXCEPT !.label = "none"] = [text |-> t, label |-> "none"]
      BY <3>3
    <3>8. Entries' = [Entries EXCEPT ![id].label = "none"]
      BY <3>4, <3>7
    <3>9. Table!Label(id, "none")
      BY <1>2, <3>6, <3>8 DEF Table!Label
    <3> QED
      BY <1>2, <3>9 DEF Table!TableNext
  <2> QED
    BY <2>2, <2>3
<1> QED
  BY <1>6, <1>7, <1>8

(* Opening and writing a temporary file, and removing it again, are invisible.  *)
LEMMA TempRefines ==
  ASSUME IInv, NEW s \in Slot, OpensTemp(s) \/ WritesTemp(s) \/ InstallFails(s)
  PROVE  UNCHANGED <<Entries, published>>
<1>1. Installs(call[s]) /\ published' = published
  BY DEF OpensTemp, WritesTemp, InstallFails, At, Installs, InstallStep, history
<1>2. /\ call[s].id \in Id /\ call[s].part \in Part /\ file \in FileType
      /\ given \in [Id -> Text \cup {Nothing}]
  BY <1>1, Installing DEF IInv, TypeOK, FileType, Content
<1>3. /\ Temp(call[s].part) \in File /\ Temp(call[s].part) \notin {"config", "meta"}
      /\ {"config", "meta"} \subseteq File
  BY <1>2, FileFacts
<1>4. file' = file \/ \E v \in Content : Put(call[s].id, Temp(call[s].part), v)
  <2>1. /\ Torn \in Content /\ Nothing \in Content
        /\ Written(call[s].id, call[s].part) \in Content
    BY <1>2, WrittenFacts DEF Content
  <2> QED
    BY <2>1 DEF OpensTemp, WritesTemp, InstallFails
<1>5. ASSUME NEW v \in Content, Put(call[s].id, Temp(call[s].part), v) PROVE Entries' = Entries
  <2>1. \A j \in Id : \A g \in File :
          file'[j][g] = IF j = call[s].id /\ g = Temp(call[s].part) THEN v ELSE file[j][g]
    BY <1>2, <1>3, <1>5, PutFacts
  <2> QED
    BY <1>3, <2>1, SameEntries
<1>6. file' = file => Entries' = Entries
  BY SameEntries
<1>7. Entries' = Entries
  BY <1>4, <1>5, <1>6
<1> QED
  BY <1>1, <1>7

LEMMA StepRefines ==
  ASSUME IInv, [Next]_vars
  PROVE  [Table!TableNext]_<<Entries, published>>
<1>1. ASSUME NEW s \in Slot, Install(s) PROVE Table!TableNext \/ UNCHANGED <<Entries, published>>
  <2>1. CASE MakesDirectory(s) \/ \E t \in Text : InstallConfig(s, t)
    BY <2>1, SameEntries DEF MakesDirectory, InstallConfig, history
  <2> QED
    BY <1>1, <2>1, TempRefines, RenameRefines DEF Install
<1>2. ASSUME NEW s \in Slot, Remove(s) PROVE Table!TableNext \/ UNCHANGED <<Entries, published>>
  <2>1. CASE RemovesDirectory(s) \/ RemoveFails(s) \/ \E i \in Id : RemoveConfig(s, i)
    BY <2>1, SameEntries DEF RemovesDirectory, RemoveFails, RemoveConfig, history
  <2> QED
    BY <1>2, <2>1, UnlinkRefines DEF Remove
<1>3. ASSUME NEW s \in Slot, Read(s) \/ Start(s) \/ Returns(s) PROVE UNCHANGED <<file, published>>
  BY <1>3 DEF Read, Start, Returns, ListConfigs, LooksUp, LookupFails, ReadsMeta,
     MetaFails, ListFails, GetSanitizedConfig,
     StartConnection, ReadsConfig, PolkitAnswers, ResolvesRemotes, OpenVpnReads, history
<1>4. ASSUME Crash \/ UNCHANGED vars PROVE UNCHANGED <<file, published>>
  BY <1>4 DEF Crash, vars, history
<1>5. ASSUME UNCHANGED <<file, published>> PROVE UNCHANGED <<Entries, published>>
  BY <1>5, SameEntries
<1> QED
  BY <1>1, <1>2, <1>3, <1>4, <1>5 DEF Next

(* The store implements the table: every file operation of every call is one     *)
(* operation of it or none.                                                  *)
THEOREM StoreIsATable == Spec => ImplementsTable
<1>1. Init => Table!TableInit
  <2> SUFFICES ASSUME Init PROVE Table!TableInit
    OBVIOUS
  <2>1. \A i \in Id : file[i]["config"] = Nothing
    BY DEF Init, NoFiles, File
  <2> QED
    BY <2>1 DEF Init, Table!TableInit, Entries
<1>2. IInv /\ [Next]_vars => [Table!TableNext]_<<Entries, published>>
  BY StepRefines
<1> QED
  BY <1>1, <1>2, Invariance, PTL DEF Spec, ImplementsTable, Table!TableSpec
=============================================================================
