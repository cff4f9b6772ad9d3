------------------------------ MODULE Passport ------------------------------
(***************************************************************************)
(* custos_protocol/passport.py: an agent's identity in a directory of      *)
(* three files.  save writes them one after the other, each by truncating  *)
(* it first, and load puts an identity and a key together from whichever   *)
(* are there.  The process that saves may die between any two writes, and  *)
(* whoever ships the directory may leave the keys out.                     *)
(*                                                                         *)
(* One save at a time; a load is one step, for nothing in the code keeps   *)
(* it apart from a save and nothing is promised of one that overlaps.      *)
(***************************************************************************)
EXTENDS Naturals, Sequences

CONSTANTS
  Agents,       \* agent ids, each created with a key of its own
  MaxSaves,     \* bound on the saves that begin
  Absent, Torn  \* no such file, and one truncated and not written yet

ASSUME PassportAssumption ==
  /\ MaxSaves \in Nat /\ Absent # Torn
  /\ {Absent, Torn} \cap (Agents \cup [agent : Agents, key : Agents]) = {}

VARIABLES
  json, public, private,   \* passport.json, public.pem, private.pem
  holders,      \* passports in the memory of some process
  saving,       \* the passport being saved, or saved last
  todo,         \* the files it has still to write
  torn,         \* whether the next of them is truncated and not written yet
  whole,        \* whether the last save wrote all its files
  saves,        \* history: how many began, and
  era           \* with which of them each file was written

files == <<json, public, private>>
saveVars == <<saving, todo, torn, whole, saves>>
passportVars == <<files, holders, saveVars, era>>

File == {"json", "public", "private"}

(* What a passport consists of: whom it names, the key it holds, and       *)
(* whether that is the private one.                                        *)
Holder == [agent : Agents, key : Agents, signs : BOOLEAN]

PassportTypeOK ==
  /\ json \in {Absent, Torn} \cup [agent : Agents, key : Agents]
  /\ {public, private} \subseteq {Absent, Torn} \cup Agents
  /\ holders \subseteq Holder
  /\ saving \in Holder \cup {Absent} /\ todo \in Seq(File)
  /\ {torn, whole} \subseteq BOOLEAN
  /\ saves \in 0..MaxSaves /\ era \in [File -> 0..MaxSaves]

PassportInit ==
  /\ json = Absent /\ public = Absent /\ private = Absent
  /\ holders = {} /\ saving = Absent /\ todo = <<>>
  /\ torn = FALSE /\ whole = FALSE
  /\ saves = 0 /\ era = [f \in File |-> 0]

(* AgentPassport.create                                                    *)
Create(a) ==
  /\ holders' = holders \cup {[agent |-> a, key |-> a, signs |-> TRUE]}
  /\ UNCHANGED <<files, saveVars, era>>

-----------------------------------------------------------------------------
(* AgentPassport.save                                                      *)

(* Mutant: writes the keys first.                                          *)
MutantOrder(h) ==
  IF h.signs THEN <<"private", "public", "json">> ELSE <<"public", "json">>
(* Mutant: never overwrites a private key.                                 *)
MutantFilesOf(h) ==
  IF h.signs /\ private = Absent THEN <<"json", "public", "private">>
                                 ELSE <<"json", "public">>
FilesOf(h) ==
  IF h.signs THEN <<"json", "public", "private">> ELSE <<"json", "public">>

BeginSave(h) ==
  /\ todo = <<>> /\ saves < MaxSaves
  /\ saving' = h /\ todo' = FilesOf(h) /\ torn' = FALSE /\ whole' = FALSE
  /\ saves' = saves + 1
  /\ UNCHANGED <<files, holders, era>>

Becomes(f, content) ==
  /\ json' = IF f = "json" THEN content ELSE json
  /\ public' = IF f = "public" THEN content ELSE public
  /\ private' = IF f = "private" THEN content ELSE private

Truncate ==
  /\ todo # <<>> /\ ~torn /\ torn' = TRUE
  /\ Becomes(Head(todo), Torn)
  /\ UNCHANGED <<holders, saving, todo, whole, saves, era>>

Write ==
  /\ torn /\ torn' = FALSE
  /\ LET f == Head(todo)
     IN  /\ Becomes(f, IF f = "json"
                         THEN [agent |-> saving.agent, key |-> saving.key]
                         ELSE saving.key)
         /\ era' = [era EXCEPT ![f] = saves]
  /\ todo' = Tail(todo) /\ whole' = (Len(todo) = 1)
  /\ UNCHANGED <<holders, saving, saves>>

(* The process that saves dies.                                            *)
Crash ==
  /\ todo # <<>> /\ todo' = <<>> /\ torn' = FALSE
  /\ UNCHANGED <<files, holders, saving, whole, saves, era>>

-----------------------------------------------------------------------------
(* AgentPassport.load: private.pem, else public.pem, else passport.json.   *)

KeyFile ==
  IF private # Absent THEN "private" ELSE IF public # Absent THEN "public" ELSE "json"

(* It raises on a file that is truncated, and without passport.json.       *)
Loadable ==
  /\ json \notin {Absent, Torn}
  /\ KeyFile = "private" => private # Torn
  /\ KeyFile = "public" => public # Torn

Loaded ==
  [agent |-> json.agent, signs |-> KeyFile = "private",
   key |-> CASE KeyFile = "private" -> private
             [] KeyFile = "public" -> public
             [] KeyFile = "json" -> json.key]

Load ==
  /\ Loadable
  /\ holders' = holders \cup {Loaded}
  /\ UNCHANGED <<files, saveVars, era>>

(* Who ships a passport for others to verify with leaves its keys out.     *)
Ship ==
  /\ todo = <<>> /\ json # Absent
  /\ private' = Absent /\ public' \in {public, Absent}
  /\ UNCHANGED <<json, holders, saveVars, era>>

PassportNext ==
  \/ \E a \in Agents : Create(a)
  \/ \E h \in holders : BeginSave(h)
  \/ Truncate \/ Write \/ Crash \/ Load \/ Ship

PassportSpec == PassportInit /\ [][PassportNext]_passportVars

-----------------------------------------------------------------------------
(* Once a save is through, load returns the passport that was saved,       *)
(* whatever saves were cut short before it and whatever they left behind   *)
(* (save's list of files, load's precedence); without its private key if   *)
(* that was left out when it was shipped.  The exception is a passport     *)
(* without a private key, which leaves the one in the directory in charge. *)
SavedIsLoaded ==
  whole /\ (saving.signs \/ private = Absent) =>
    /\ Loadable
    /\ Loaded = [saving EXCEPT !.signs = saving.signs /\ private # Absent]

(* However saves are cut short, the identity that load returns has not     *)
(* got a key of a later save: the agent named before is never left with    *)
(* the next one's key (the order of the writes in save).                   *)
NoLaterKey ==
  Loadable => era[KeyFile] <= era["json"]
=============================================================================
