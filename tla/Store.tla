------------------------------- MODULE Store --------------------------------
(***************************************************************************)
(* One user's configuration store and the methods of the Manager that work   *)
(* on it: InstallConfig, ListConfigs, GetSanitizedConfig, RemoveConfig, and  *)
(* StartConnection up to the moment OpenVPN reads the configuration.  The    *)
(* methods take &self and run at the same time; every step is one system     *)
(* call on the files, or the wait for polkit.  The daemon may die between    *)
(* any two of them, and the files stay as they are.  Another user's store is *)
(* another directory (`store_for`), so it is another instance of this module. *)
(***************************************************************************)
CONSTANTS
  Slot,           \* calls in progress at the same time
  Id,             \* configuration ids
  Text,           \* contents of configurations
  SafeText,       \* those `is_safe` accepts
  Nothing,        \* an absent file, or a text not known
  Torn            \* a file that is not wholly written

ASSUME StoreAssumption ==
  /\ SafeText \subseteq Text
  /\ Nothing \notin Text /\ Torn \notin Text /\ Torn # Nothing
  /\ {"safe", "unsafe"} \cap (Text \cup {Torn, Nothing}) = {}
  /\ Nothing \notin [text : Text, label : {"safe", "unsafe", "none"}]

VARIABLES
  dirs,       \* ids whose directory exists
  file,       \* id -> file name -> what is in it, or Nothing
  call,       \* slot -> the call it executes
  given,      \* history: id -> the contents handed in, Nothing for an id not drawn
  published,  \* history: ids whose shadow copy was in place, which a client may know
  answered,   \* history: ids InstallConfig returned
  touched,    \* history: ids some client asked to remove
  gone        \* history: ids RemoveConfig reported removed

vars == <<dirs, file, call, given, published, answered, touched, gone>>

(* `is_safe` on the contents, as the metadata and the lists say it.            *)
Verdict(t) == IF t \in SafeText THEN "safe" ELSE "unsafe"

(* The files of a configuration's directory; each is written under a temporary *)
(* name first.                                                               *)
Part == {"config", "meta"}

(* A mutant of Temp: files are written in place.                               *)
InPlace(part) == part

Temp(part) == IF part = "config" THEN "config.tmp" ELSE "meta.tmp"
File == {"config", "meta", "config.tmp", "meta.tmp"}

(* A mutant of Written: the metadata takes every configuration for safe.       *)
SafeByDefault(i, part) == IF part = "config" THEN given[i] ELSE "safe"

Written(i, part) == IF part = "config" THEN given[i] ELSE Verdict(given[i])

(* The metadata is written last, and then the id is returned.                  *)
IsLastOnceInstalled(part) == part = "config"    \* a mutant of IsLast
IsLast(part) == part = "meta"

Present(i) == {f \in File : file[i][f] # Nothing}
NoFiles == [f \in File |-> Nothing]

(* `read_meta`, or (false, the id as the name) when there is no metadata.     *)
Reported(i) == IF file[i]["meta"] = "safe" THEN "safe" ELSE "unsafe"

Idle == [at |-> "idle"]
InstallCall == [at : {"mkdir", "open", "write", "rename"}, id : Id, part : Part]
RemoveCall == [at : {"remove"}, id : Id, todo : SUBSET File]
ListCall == [at : {"list"}, todo : SUBSET Id, found : SUBSET Id,
             out : SUBSET (Id \X {"safe", "unsafe"}), must : SUBSET Id,
             failed : SUBSET Id]   \* history: ids one of whose own two reads failed
ShowCall == [at : {"shown"}, id : Id, text : Text \cup {Torn}]
StartCall == [at : {"read", "prompt", "resolve", "load", "started"}, id : Id,
              text : Text \cup {Nothing, Torn}, remotes : Text \cup {"none", Nothing, Torn},
              runs : Text \cup {Nothing, Torn}]
Call == {Idle} \cup InstallCall \cup RemoveCall \cup ListCall \cup ShowCall \cup StartCall

(* The variables hold values of their types, and no file is in a directory     *)
(* that does not exist.                                                      *)
TypeOK ==
  /\ dirs \subseteq Id
  /\ file \in [Id -> [File -> Text \cup {"safe", "unsafe", Torn, Nothing}]]
  /\ \A i \in Id \ dirs : Present(i) = {}
  /\ call \in [Slot -> Call]
  /\ given \in [Id -> Text \cup {Nothing}]
  /\ published \subseteq Id /\ answered \subseteq published
  /\ touched \subseteq published /\ gone \subseteq touched

Init ==
  /\ dirs = {}
  /\ file = [i \in Id |-> NoFiles]
  /\ call = [s \in Slot |-> Idle]
  /\ given = [i \in Id |-> Nothing]
  /\ published = {} /\ answered = {} /\ touched = {} /\ gone = {}

Goes(s, c) == call' = [call EXCEPT ![s] = c]
At(s, step) == call[s].at = step
Put(i, f, contents) == file' = [file EXCEPT ![i][f] = contents]
history == <<published, answered, touched, gone>>

-----------------------------------------------------------------------------
(* InstallConfig: `install_contents`, after polkit and the caller's uid.      *)

(* `random_id` draws 128 bits: an id is not drawn twice.                      *)
ReusesIds == {i \in Id : file[i]["config"] = Nothing}   \* a mutant of FreshIds
FreshIds == {i \in Id : given[i] = Nothing}

InstallConfig(s, t) ==
  /\ At(s, "idle")
  /\ \E i \in FreshIds :
       /\ Goes(s, [at |-> "mkdir", id |-> i, part |-> "config"])
       /\ given' = [given EXCEPT ![i] = t]
  /\ UNCHANGED <<dirs, file, history>>

MakesDirectory(s) ==
  /\ At(s, "mkdir") /\ call[s].id \notin dirs
  /\ dirs' = dirs \cup {call[s].id}
  /\ Goes(s, [call[s] EXCEPT !.at = "open"])
  /\ UNCHANGED <<file, given, history>>

(* The directory may have been removed under it.                             *)
OpensTemp(s) ==
  /\ At(s, "open")
  /\ IF call[s].id \in dirs
       THEN /\ Put(call[s].id, Temp(call[s].part), Torn)
            /\ Goes(s, [call[s] EXCEPT !.at = "write"])
       ELSE Goes(s, Idle) /\ UNCHANGED file
  /\ UNCHANGED <<dirs, given, history>>

(* Writing and syncing: a file that was unlinked meanwhile takes the bytes too. *)
WritesTemp(s) ==
  LET i == call[s].id  part == call[s].part
  IN /\ At(s, "write")
     /\ IF file[i][Temp(part)] # Nothing
          THEN Put(i, Temp(part), Written(i, part)) ELSE UNCHANGED file
     /\ Goes(s, [call[s] EXCEPT !.at = "rename"])
     /\ UNCHANGED <<dirs, given, history>>

RenamesTemp(s) ==
  LET i == call[s].id  part == call[s].part
  IN /\ At(s, "rename") /\ file[i][Temp(part)] # Nothing
     /\ file' = [file EXCEPT ![i] = [@ EXCEPT ![part] = file[i][Temp(part)],
                                              ![Temp(part)] = Nothing]]
     /\ published' = published \cup {i}
     /\ IF IsLast(part)
          THEN Goes(s, Idle) /\ answered' = answered \cup {i}
          ELSE Goes(s, [at |-> "open", id |-> i, part |-> "meta"]) /\ UNCHANGED answered
     /\ UNCHANGED <<dirs, given, touched, gone>>

(* A file operation fails: `?` returns the error.  Only a failed rename, which *)
(* fails by itself when the temporary file was unlinked, tidies up.           *)
InstallFails(s) ==
  /\ call[s].at \in {"mkdir", "open", "write", "rename"}
  /\ Goes(s, Idle)
  /\ IF At(s, "rename")
       THEN Put(call[s].id, Temp(call[s].part), Nothing) ELSE UNCHANGED file
  /\ UNCHANGED <<dirs, given, history>>

-----------------------------------------------------------------------------
(* RemoveConfig: `remove_dir_all` unlinks what it read, in the order of the   *)
(* directory, and removes the directory.  A directory that is not there, and  *)
(* with the current standard library a file that is not, is no error.         *)

RemoveConfig(s, i) ==
  /\ At(s, "idle") /\ i \in published
  /\ touched' = touched \cup {i}
  /\ IF i \in dirs
       THEN /\ Goes(s, [at |-> "remove", id |-> i, todo |-> Present(i)])
            /\ UNCHANGED gone
       ELSE gone' = gone \cup {i} /\ UNCHANGED call
  /\ UNCHANGED <<dirs, file, given, published, answered>>

Unlinks(s) ==
  /\ At(s, "remove")
  /\ \E f \in call[s].todo :
       /\ Put(call[s].id, f, Nothing)
       /\ Goes(s, [call[s] EXCEPT !.todo = @ \ {f}])
  /\ UNCHANGED <<dirs, given, history>>

(* A mutant of RemovesDirectory: a file that came later is not noticed.        *)
ForgetsFiles(s) ==
  /\ At(s, "remove") /\ call[s].todo = {}
  /\ dirs' = dirs \ {call[s].id} /\ gone' = gone \cup {call[s].id}
  /\ Goes(s, Idle)
  /\ UNCHANGED <<file, given, published, answered, touched>>

(* A directory with a file that came later is not empty: an error.            *)
RemovesDirectory(s) ==
  /\ At(s, "remove") /\ call[s].todo = {}
  /\ IF Present(call[s].id) = {}
       THEN dirs' = dirs \ {call[s].id} /\ gone' = gone \cup {call[s].id}
       ELSE UNCHANGED <<dirs, gone>>
  /\ Goes(s, Idle)
  /\ UNCHANGED <<file, given, published, answered, touched>>

RemoveFails(s) ==
  /\ At(s, "remove")
  /\ Goes(s, Idle)
  /\ UNCHANGED <<dirs, file, given, history>>

-----------------------------------------------------------------------------
(* ListConfigs: `read_dir`, which takes a directory of this size in one system   *)
(* call, then `get` on each id.                                              *)

ListConfigs(s) ==
  /\ At(s, "idle")
  /\ Goes(s, [at |-> "list", todo |-> dirs, found |-> {}, out |-> {},
              must |-> answered \ touched, failed |-> {}])
  /\ UNCHANGED <<dirs, file, given, history>>

(* A mutant of LooksUp: a configuration that is gone ends the list.            *)
StopsAtVanished(s) ==
  /\ At(s, "list") /\ call[s].found = {}
  /\ \E i \in call[s].todo :
       Goes(s, [call[s] EXCEPT !.todo = IF file[i]["config"] = Nothing THEN {} ELSE @ \ {i},
                               !.found = {j \in {i} : file[i]["config"] # Nothing}])
  /\ UNCHANGED <<dirs, file, given, history>>

(* `get`: does the shadow copy exist?  `exists` takes any error for a no.       *)
LooksUp(s) ==
  /\ At(s, "list") /\ call[s].found = {}
  /\ \E i \in call[s].todo :
       Goes(s, [call[s] EXCEPT !.todo = @ \ {i},
                               !.found = {j \in {i} : file[i]["config"] # Nothing}])
  /\ UNCHANGED <<dirs, file, given, history>>

LookupFails(s) ==
  /\ At(s, "list") /\ call[s].found = {}
  /\ \E i \in call[s].todo :
       Goes(s, [call[s] EXCEPT !.todo = @ \ {i}, !.failed = @ \cup {i}])
  /\ UNCHANGED <<dirs, file, given, history>>

(* Metadata that cannot be opened or read through counts as absent: unsafe.     *)
ReadsMeta(s) ==
  /\ At(s, "list")
  /\ \E i \in call[s].found :
       Goes(s, [call[s] EXCEPT !.found = {}, !.out = @ \cup {<<i, Reported(i)>>}])
  /\ UNCHANGED <<dirs, file, given, history>>

MetaFails(s) ==
  /\ At(s, "list")
  /\ \E i \in call[s].found :
       Goes(s, [call[s] EXCEPT !.found = {}, !.out = @ \cup {<<i, "unsafe">>},
                               !.failed = @ \cup {i}])
  /\ UNCHANGED <<dirs, file, given, history>>

(* The directory cannot be read, or an entry's type not be told: `?`.          *)
ListFails(s) ==
  /\ At(s, "list") /\ call[s].found = {}
  /\ Goes(s, Idle)
  /\ UNCHANGED <<dirs, file, given, history>>

Listed(s) == At(s, "list") /\ call[s].todo = {} /\ call[s].found = {}

(* GetSanitizedConfig opens the shadow copy and reads it through; a file that  *)
(* was renamed into place is never written again.  An error changes nothing.   *)
GetSanitizedConfig(s, i) ==
  /\ At(s, "idle") /\ i \in published /\ file[i]["config"] # Nothing
  /\ Goes(s, [at |-> "shown", id |-> i, text |-> file[i]["config"]])
  /\ UNCHANGED <<dirs, file, given, history>>

-----------------------------------------------------------------------------
(* StartConnection. *)

(* `get`, whose verdict is not used; what it does not find changes nothing.     *)
StartConnection(s, i) ==
  /\ At(s, "idle") /\ i \in published /\ file[i]["config"] # Nothing
  /\ Goes(s, [at |-> "read", id |-> i, text |-> Nothing, remotes |-> "none", runs |-> Nothing])
  /\ UNCHANGED <<dirs, file, given, history>>

(* The bytes the verdict, and with it the question to polkit, is taken from;    *)
(* the call ends when they cannot be read.                                    *)
ReadsConfig(s) ==
  LET bytes == file[call[s].id]["config"]
  IN /\ At(s, "read")
     /\ \/ /\ bytes # Nothing
           /\ Goes(s, [call[s] EXCEPT !.at = "prompt", !.text = bytes])
        \/ Goes(s, Idle)
     /\ UNCHANGED <<dirs, file, given, history>>

PolkitAnswers(s) ==
  /\ At(s, "prompt")
  /\ \/ Goes(s, [call[s] EXCEPT !.at = "resolve"])
     \/ Goes(s, Idle)
  /\ UNCHANGED <<dirs, file, given, history>>

(* With the kill-switch the servers are read from the file once more; there     *)
(* are none without it, or when the file cannot be read.                      *)
ResolvesRemotes(s) ==
  /\ At(s, "resolve")
  /\ \E remotes \in {"none", file[call[s].id]["config"]} :
       Goes(s, [call[s] EXCEPT !.at = "load", !.remotes = remotes])
  /\ UNCHANGED <<dirs, file, given, history>>

OpenVpnReads(s) ==
  /\ At(s, "load")
  /\ \E runs \in {Nothing, file[call[s].id]["config"]} :
       Goes(s, [call[s] EXCEPT !.at = "started", !.runs = runs])
  /\ UNCHANGED <<dirs, file, given, history>>

-----------------------------------------------------------------------------
Returns(s) ==
  /\ Listed(s) \/ At(s, "shown") \/ At(s, "started")
  /\ Goes(s, Idle)
  /\ UNCHANGED <<dirs, file, given, history>>

(* The daemon dies: its calls are lost, the files are not.                    *)
Crash ==
  /\ call' = [s \in Slot |-> Idle]
  /\ UNCHANGED <<dirs, file, given, history>>

Install(s) == (\E t \in Text : InstallConfig(s, t)) \/ MakesDirectory(s) \/ OpensTemp(s)
                \/ WritesTemp(s) \/ RenamesTemp(s) \/ InstallFails(s)
Remove(s) == (\E i \in Id : RemoveConfig(s, i)) \/ Unlinks(s)
                \/ RemovesDirectory(s) \/ RemoveFails(s)
Read(s) == ListConfigs(s) \/ LooksUp(s) \/ LookupFails(s) \/ ReadsMeta(s) \/ MetaFails(s)
             \/ ListFails(s) \/ (\E i \in Id : GetSanitizedConfig(s, i))
Start(s) == (\E i \in Id : StartConnection(s, i)) \/ ReadsConfig(s) \/ PolkitAnswers(s)
              \/ ResolvesRemotes(s) \/ OpenVpnReads(s)

Next == Crash \/ \E s \in Slot : Install(s) \/ Remove(s) \/ Read(s) \/ Start(s) \/ Returns(s)

Spec == Init /\ [][Next]_vars

-----------------------------------------------------------------------------
(* No call and no crash leaves a shadow copy or a metadata file half written   *)
(* or made for other contents: what a reader finds is whole, and a             *)
(* configuration marked safe is one the classifier accepted.                  *)
WholeOrAbsent == \A i \in Id :
  /\ file[i]["config"] \in {Nothing, given[i]}
  /\ file[i]["meta"] \in {Nothing, Verdict(given[i])}

(* A configuration whose installation was reported, and which nobody asked to  *)
(* remove, is there with its metadata, whatever happened since.               *)
InstalledStays == \A i \in answered \ touched :
  i \in dirs /\ file[i]["config"] = given[i] /\ file[i]["meta"] = Verdict(given[i])

(* Once a removal was reported nothing of the configuration is left, temporary  *)
(* files included, and nothing ever comes back, whatever was at work on it.     *)
RemovedStaysGone == \A i \in gone : i \notin dirs /\ Present(i) = {}

(* A list lacks a configuration that was installed before the call and not      *)
(* asked to be removed, or its verdict, only if a read of that very              *)
(* configuration failed: what comes, goes or fails elsewhere while the list is   *)
(* made costs it nothing.  And no failure shows an unsafe configuration as safe. *)
ListMissesOnlyUnread == \A s \in Slot : Listed(s) =>
  /\ \A i \in (call[s].must \ touched) \ call[s].failed : <<i, Verdict(given[i])>> \in call[s].out
  /\ \A entry \in call[s].out : entry[2] = "safe" => given[entry[1]] \in SafeText

(* What OpenVPN reads is what the verdict and the user's authorization were     *)
(* about, however long the prompt was open; and the servers the kill-switch     *)
(* lets through are those of the same text.                                   *)
RunsWhatWasApproved == \A s \in Slot :
  (call[s].at = "started" /\ call[s].runs # Nothing) =>
    call[s].runs = call[s].text /\ call[s].remotes \in {"none", call[s].text}

(* The abstract table: an entry is a shadow copy, its label the metadata.       *)
Entries == [i \in Id |->
  IF file[i]["config"] = Nothing THEN Nothing
  ELSE [text |-> file[i]["config"],
        label |-> IF file[i]["meta"] = Nothing THEN "none" ELSE file[i]["meta"]]]

Table == INSTANCE StoreTable WITH table <- Entries, spent <- published

(* Every file operation is an operation of the table or invisible in it.        *)
ImplementsTable == Table!TableSpec

=============================================================================
