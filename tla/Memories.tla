------------------------------ MODULE Memories ------------------------------
(***************************************************************************)
(* Agent memory (agents/memory.rs): the short-term, long-term and working  *)
(* memory of an agent, and the manager that hands memories out.  What the  *)
(* manager hands out is a clone, and nothing puts one back: what an agent  *)
(* remembers stays with the holder of its clone.                           *)
(***************************************************************************)
EXTENDS Parts, Naturals, Sequences, FiniteSets, SequencesExt

CONSTANTS
  Holder,       \* who works on a clone
  Topic,        \* keys, and the tags of entries
  MaxShort, MaxLong, \* max_short_term_entries, max_long_term_entries
  MaxRemembered \* bound: the calls on memories

ASSUME MemoryAssumption ==
  MaxShort \in Nat /\ MaxLong \in Nat /\ MaxRemembered \in Nat

VARIABLES
  managed,    \* whether the manager has a memory of the agent, as it was made
  clones,     \* holder -> its clone, or none
  shared,     \* shared_memory: key -> entry
  remembered, \* holder -> the short-term entries since the last clearing (history)
  learned,    \* holder -> the long-term entries, as set and removed (history)
  sharedTold, \* the same of the shared memory (history)
  told        \* the calls, which number the entries

memoryVars == <<managed, clones, shared, remembered, learned, sharedTold, told>>

Empty == [k \in {} |-> 0]

(* AgentMemory::new; None: the holder has no clone. *)
NewMemory == [short |-> << >>, long |-> Empty, working |-> Empty]
NoClone == [short |-> << >>]

(* MemoryEntry: which one it is, and its tags. *)
MemoryEntry(tags) == [is |-> told + 1, tags |-> tags]

(* Mutant: an entry needs all of the tags. *)
HasAllTags(entry, tags) == tags \subseteq entry.tags

(* has_any_tags *)
HasAnyTags(entry, tags) == entry.tags \cap tags # {}

(* Mutant: the newest entry is dropped. *)
TrimNewest(short) == IF Len(short) > MaxShort THEN Front(short) ELSE short

Trim(short) == IF Len(short) > MaxShort THEN Tail(short) ELSE short

(* Mutant: a full memory is trimmed before it overflows. *)
LongTrimmedEarly(long) ==
  IF Cardinality(DOMAIN long) >= MaxLong
  THEN {Without(long, k) : k \in DOMAIN long} ELSE {long}

(* add_long_term_memory "removes the oldest entry", that is the first key   *)
(* of a HashMap: any, the one just added too.                              *)
LongTrimmed(long) ==
  IF Cardinality(DOMAIN long) > MaxLong
  THEN {Without(long, k) : k \in DOMAIN long} ELSE {long}

(* get_recent_short_term_memory *)
Recent(short, count) ==
  LET start == IF count > Len(short) THEN 0 ELSE Len(short) - count
  IN SubSeq(short, start + 1, Len(short))

(* find_by_tags *)
FindByTags(memory, tags) ==
  {entry \in ToSet(memory.short) \cup {memory.long[k] : k \in DOMAIN memory.long} :
     HasAnyTags(entry, tags)}

FindSharedByTags(tags) ==
  {shared[k] : k \in {k \in DOMAIN shared : HasAnyTags(shared[k], tags)}}

-----------------------------------------------------------------------------
Told == told < MaxRemembered /\ told' = told + 1

(* get_or_create_agent_memory: the manager's memory is made on the first    *)
(* call, and cloned.  (Two first calls at a time both make it, alike.)     *)
GetOrCreate(h) ==
  /\ Told
  /\ managed' = TRUE
  /\ clones' = [clones EXCEPT ![h] = NewMemory]
  /\ remembered' = [remembered EXCEPT ![h] = << >>]
  /\ learned' = [learned EXCEPT ![h] = Empty]
  /\ UNCHANGED <<shared, sharedTold>>

Has(h) == clones[h] # NoClone

AddShortTerm(h, tags) ==
  /\ Told /\ Has(h)
  /\ clones' = [clones EXCEPT ![h].short = Trim(Append(@, MemoryEntry(tags)))]
  /\ remembered' = [remembered EXCEPT ![h] = Append(@, MemoryEntry(tags))]
  /\ UNCHANGED <<managed, shared, learned, sharedTold>>

AddLongTerm(h, k) ==
  /\ Told /\ Has(h)
  /\ LET long == Put(clones[h].long, k, MemoryEntry({k})) IN
     /\ Cardinality(DOMAIN long) > MaxLong => Risk("full")
     /\ \E kept \in LongTrimmed(long) : clones' = [clones EXCEPT ![h].long = kept]
  /\ learned' = [learned EXCEPT ![h] = Put(@, k, MemoryEntry({k}))]
  /\ UNCHANGED <<managed, shared, remembered, sharedTold>>

RemoveLongTerm(h, k) ==
  /\ Told /\ Has(h)
  /\ clones' = [clones EXCEPT ![h].long = Without(@, k)]
  /\ learned' = [learned EXCEPT ![h] = Without(@, k)]
  /\ UNCHANGED <<managed, shared, remembered, sharedTold>>

SetWorking(h, k) ==
  /\ Told /\ Has(h)
  /\ clones' = [clones EXCEPT ![h].working = Put(@, k, told + 1)]
  /\ UNCHANGED <<managed, shared, remembered, learned, sharedTold>>

ClearWorking(h) ==
  /\ Told /\ Has(h)
  /\ clones' = [clones EXCEPT ![h].working = Empty]
  /\ UNCHANGED <<managed, shared, remembered, learned, sharedTold>>

ClearShortTerm(h) ==
  /\ Told /\ Has(h)
  /\ clones' = [clones EXCEPT ![h].short = << >>]
  /\ remembered' = [remembered EXCEPT ![h] = << >>]
  /\ UNCHANGED <<managed, shared, learned, sharedTold>>

AddShared(k) ==
  /\ Told
  /\ shared' = Put(shared, k, MemoryEntry({k}))
  /\ sharedTold' = Put(sharedTold, k, MemoryEntry({k}))
  /\ UNCHANGED <<managed, clones, remembered, learned>>

RemoveShared(k) ==
  /\ Told
  /\ shared' = Without(shared, k)
  /\ sharedTold' = Without(sharedTold, k)
  /\ UNCHANGED <<managed, clones, remembered, learned>>

(* clear_all reaches no clone. *)
ClearAll ==
  /\ Told
  /\ managed' = FALSE
  /\ shared' = Empty /\ sharedTold' = Empty
  /\ UNCHANGED <<clones, remembered, learned>>

MemoryInit ==
  /\ managed = FALSE
  /\ clones = [h \in Holder |-> NoClone]
  /\ shared = Empty /\ sharedTold = Empty
  /\ remembered = [h \in Holder |-> << >>]
  /\ learned = [h \in Holder |-> Empty]
  /\ told = 0

MemoryNext ==
  /\ Moves("memory")
  /\ UNCHANGED mix
  /\ \/ \E h \in Holder :
          \/ GetOrCreate(h) \/ ClearWorking(h) \/ ClearShortTerm(h)
          \/ \E tags \in SUBSET Topic : AddShortTerm(h, tags)
          \/ \E k \in Topic : AddLongTerm(h, k) \/ RemoveLongTerm(h, k) \/ SetWorking(h, k)
     \/ \E k \in Topic : AddShared(k) \/ RemoveShared(k)
     \/ ClearAll

MemoryTypeOK ==
  /\ managed \in BOOLEAN
  /\ \A h \in Holder : Has(h) =>
       DOMAIN clones[h].long \cup DOMAIN clones[h].working \subseteq Topic
  /\ DOMAIN shared \subseteq Topic

-----------------------------------------------------------------------------
LastOf(s, n) == SubSeq(s, Len(s) - n + 1, Len(s))
Fewer(a, b) == IF a < b THEN a ELSE b

(* However many entries a holder has added, the most recent ones it asks    *)
(* for are the last it added, in their order, as far as there is room.     *)
RecentKept ==
  \A h \in Holder : Has(h) => \A count \in 0 .. MaxShort + 1 :
    Recent(clones[h].short, count) =
      LastOf(remembered[h], Fewer(count, Fewer(MaxShort, Len(remembered[h]))))

(* Long-term memory is what was put in and not removed, until it is full;   *)
(* full, it may lose what was just put in.                                 *)
LongTermKept ==
  Safe({"full"}) => \A h \in Holder : Has(h) => clones[h].long = learned[h]

(* A query by tags finds every entry with one of them, of both memories and *)
(* the shared one, and no other.                                           *)
TagsFind ==
  \A tags \in SUBSET Topic :
    /\ \A h \in Holder : (Has(h) /\ Safe({"full"})) =>
         FindByTags(clones[h], tags) =
           {e \in ToSet(LastOf(remembered[h], Fewer(MaxShort, Len(remembered[h]))))
                    \cup {learned[h][k] : k \in DOMAIN learned[h]} : e.tags \cap tags # {}}
    /\ FindSharedByTags(tags) =
         {sharedTold[k] : k \in {k \in DOMAIN sharedTold : k \in tags}}
=============================================================================
