-------------------------- MODULE PersonalContent --------------------------
(***************************************************************************)
(* The player's own mods: jars kept outside the instance and copied into   *)
(* its mods folder at every launch, after the pack is in place.  What the  *)
(* last launch copied goes first; .bweeep-user-mods.json names it.         *)
(***************************************************************************)
EXTENDS PackDefaults

CONSTANTS
  Mod,       \* the names a file of the mods folder may have
  Jar,       \* the player's jars
  JarName,   \* the name each is copied under
  Provides   \* the mod ids of a jar, the pack's and the player's

File(v) == Pack[v].files
Pinned == UNION {{File(v)[m] : m \in DOMAIN File(v)} : v \in Version}

ASSUME PersonalAssumption ==
  /\ \A v \in Version : DOMAIN File(v) \subseteq Mod /\ Pack[v].fits \subseteq Jar
  /\ JarName \in [Jar -> Mod] /\ \A j, k \in Jar : JarName[j] = JarName[k] => j = k
  /\ DOMAIN Provides = Pinned \cup Jar
  /\ Pinned \cap Jar = {} /\ (Pinned \cup Jar) \cap {Own, Absent} = {}

VARIABLES
  mods,      \* the mods folder: what each name holds
  folder,    \* the jars in the player's folders
  copied,    \* .bweeep-user-mods.json; one that was cut short reads as empty
  user,      \* what prepareUserContent is doing: [pc, out, without, in, left]
  displaced  \* history: files of this version the list of the last launch named as the player's

personalVars == <<folder, copied, user, displaced>>

NoUser == [pc |-> "none", out |-> {}, without |-> FALSE, in |-> {}, left |-> {}]

PersonalTypeOK ==
  /\ mods \in [Mod -> Pinned \cup Jar \cup {Own, Absent}]
  /\ folder \subseteq Jar /\ copied \subseteq Mod /\ displaced \subseteq Mod
  /\ user \in [pc : {"none", "out", "in", "list"}, out : SUBSET Mod, without : BOOLEAN,
               in : SUBSET Jar, left : SUBSET Jar]

\* The folders are shared by all servers: the jars are there before this instance is.
PersonalInit(jars) ==
  /\ mods = [m \in Mod |-> Absent]
  /\ folder = jars /\ copied = {} /\ user = NoUser /\ displaced = {}

Ids(c) == IF c \in DOMAIN Provides THEN Provides[c] ELSE {}
Share(c, d) == Ids(c) \cap Ids(d) # {}

\* Mutant: as with the shader packs, a jar that will be copied again is not taken out.
CollectGone ==
  /\ user.pc = "none"
  /\ \E without \in {FALSE, copied # {}} :
       user' = [NoUser EXCEPT !.pc = "out", !.out = copied \ {JarName[j] : j \in folder}, !.without = without]
  /\ displaced' = {}
  /\ UNCHANGED <<mods, folder, copied>>

\* What the last launch copied is read.  The screen offers to leave the player's mods out after
\* a game that had some ended badly.
Collect ==
  /\ user.pc = "none"
  /\ \E without \in {FALSE, copied # {}} :
       user' = [NoUser EXCEPT !.pc = "out", !.out = copied, !.without = without]
  /\ displaced' = {}
  /\ UNCHANGED <<mods, folder, copied>>

\* A name of the list goes, whatever it holds by now.
TakeOut(v) ==
  /\ user.pc = "out"
  /\ \E m \in user.out :
       /\ mods' = [mods EXCEPT ![m] = Absent]
       /\ user' = [user EXCEPT !.out = @ \ {m}]
       /\ displaced' = displaced \cup ({m} \cap DOMAIN File(v))
  /\ UNCHANGED <<folder, copied>>

\* Left out: jars for another loader or Minecraft version, a name the folder already has, and a
\* mod that is there already.
Candidates(v) ==
  {j \in folder \cap Pack[v].fits : /\ mods[JarName[j]] = Absent
                                    /\ \A m \in Mod : ~Share(j, mods[m])}

\* The names this launch gives to the player's jars.
Entering == {JarName[j] : j \in user.in}

Admitted(in) == user' = [user EXCEPT !.pc = "in", !.in = in, !.left = in]

\* Of two copies of one mod the first in the order of their paths is taken.
Admit(v) ==
  /\ user.pc = "out" /\ user.out = {}
  /\ \E in \in SUBSET (IF user.without THEN {} ELSE Candidates(v)) :
       /\ \A j, k \in in : Share(j, k) => j = k
       /\ user.without \/ \A j \in Candidates(v) \ in : \E k \in in : Share(j, k)
       /\ Admitted(in)
  /\ UNCHANGED <<mods, folder, copied, displaced>>

CopyIn ==
  /\ user.pc = "in"
  /\ \E j \in user.left \cap folder :
       /\ mods' = [mods EXCEPT ![JarName[j]] = j]
       /\ user' = [user EXCEPT !.left = @ \ {j}]
  /\ UNCHANGED <<folder, copied, displaced>>

\* The list is written in place: it is empty until the new one is there.
CopiedOpens ==
  /\ user.pc = "in" /\ user.left = {}
  /\ user' = [user EXCEPT !.pc = "list"] /\ copied' = {}
  /\ UNCHANGED <<mods, folder, displaced>>

CopiedWritten ==
  /\ user.pc = "list"
  /\ copied' = Entering /\ user' = NoUser
  /\ UNCHANGED <<mods, folder, displaced>>

\* The player adds or takes away a jar.
FolderChanges(j) ==
  /\ folder' = IF j \in folder THEN folder \ {j} ELSE folder \cup {j}
  /\ UNCHANGED <<mods, copied, user, displaced>>

-----------------------------------------------------------------------------

(***************************************************************************)
(* In a game, a name that is neither the pack's nor kept by somebody else  *)
(* holds nothing, or a jar of the player's the list names (so the next     *)
(* launch takes it out) whose mod is there once, in no other jar.          *)
(***************************************************************************)
NothingElse(m) ==
  \/ mods[m] \in {Own, Absent}
  \/ mods[m] \in Jar /\ m \in copied /\ \A n \in Mod \ {m} : ~Share(mods[m], mods[n])

=============================================================================
