------------------------------- MODULE IniConf -------------------------------
(***************************************************************************)
(* libparser: an INI file in memory, sections of items, each section in a  *)
(* block of the memory pool.  The program's files start with a section and *)
(* end every line; an item is known by its name and by the tabs before it, *)
(* which Storage writes and _load keeps.                                   *)
(***************************************************************************)
EXTENDS Naturals, Sequences, FiniteSets

CONSTANTS
  Sections, Names, Texts, NoText,
  MaxTabs, MaxBlocks

VARIABLES
  init_flag_,
  conftree_,            \* items of each section that is there
  blocks, lost,         \* sections constructed; those that no name leads to
  file,                 \* sections in their order, with their items
  stored,               \* the file is one that Storage wrote
  dirty,                \* memory holds items of a file that it did not write
  asked,                \* what setConfig was given since memory was empty
  ended                 \* the program

vars == <<init_flag_, conftree_, blocks, lost, file, stored, dirty, asked, ended>>

Keys == [name : Names, tabs : 0..MaxTabs]
Key(name) == [name |-> name, tabs |-> 0]
Empty == <<>>           \* a map of nothing

\* A file of the program's own: a section twice, an item twice.
Written == {
  <<>>,
  [i \in 1..2 |-> [section |-> CHOOSE s \in Sections : TRUE,
                   items |-> [j \in 1..2 |-> [key |-> Key(CHOOSE n \in Names : TRUE),
                                              value |-> CHOOSE v \in Texts : TRUE]]]]}

Init ==
  /\ init_flag_ = TRUE /\ conftree_ = Empty /\ blocks = 0 /\ lost = 0
  /\ file \in Written /\ stored = FALSE /\ dirty = FALSE
  /\ asked = [x \in Sections \X Names |-> NoText] /\ ended = FALSE

\* map::insert leaves what is there; of lines with one key the first stays.
Insert(map, lines) ==
  [k \in DOMAIN map \cup {lines[i].key : i \in DOMAIN lines} |->
    IF k \in DOMAIN map THEN map[k]
    ELSE lines[CHOOSE i \in DOMAIN lines :
                 lines[i].key = k /\ \A j \in DOMAIN lines : lines[j].key = k => i <= j].value]

Items(lines) == Insert(Empty, lines)
InOrder(S) == CHOOSE order \in [1..Cardinality(S) -> S] : \A x \in S : \E i \in DOMAIN order : order[i] = x

\* A section that is there already gets a block of its own all the same: its
\* lines go to it, and nothing leads to it.
_load(tree) ==
  /\ conftree_' = Insert(tree, [i \in DOMAIN file |->
                                  [key |-> file[i].section, value |-> Items(file[i].items)]])
  /\ blocks' = blocks - Cardinality(DOMAIN conftree_ \ DOMAIN tree) + Len(file)
  /\ blocks' <= MaxBlocks
  /\ lost' = lost + Len(file) - Cardinality(DOMAIN conftree_' \ DOMAIN tree)

Forget == asked' = [x \in Sections \X Names |-> NoText]

Load ==
  /\ init_flag_ /\ _load(conftree_)
  /\ dirty' = (dirty \/ (~stored /\ file # <<>>))
  /\ UNCHANGED <<init_flag_, file, stored, asked, ended>>

\* _free takes a node out of the map and then goes on from it: with the
\* allocator of today, from a link that free has overwritten.
Ends == conftree_ # Empty /\ ended' = TRUE
        /\ UNCHANGED <<init_flag_, conftree_, blocks, lost, file, stored, dirty, asked>>

Reload ==
  /\ init_flag_
  /\ \/ Ends
     \/ /\ _load(Empty) /\ Forget /\ dirty' = (~stored /\ file # <<>>)
        /\ UNCHANGED <<init_flag_, file, stored, ended>>

Free ==
  \/ Ends
  \/ /\ conftree_' = Empty /\ blocks' = blocks - Cardinality(DOMAIN conftree_)
     /\ Forget /\ dirty' = FALSE /\ init_flag_' = FALSE
     /\ UNCHANGED <<lost, file, stored, ended>>

Storage ==
  /\ \A s \in DOMAIN conftree_ : \A k \in DOMAIN conftree_[s] : k.tabs < MaxTabs
  /\ LET Lines(map) == LET keys == InOrder(DOMAIN map)
           IN [i \in 1..Len(keys) |-> [key |-> [keys[i] EXCEPT !.tabs = @ + 1],
                                       value |-> map[keys[i]]]]
         order == InOrder(DOMAIN conftree_)
     IN file' = [i \in 1..Len(order) |->
                   [section |-> order[i], items |-> Lines(conftree_[order[i]])]]
  /\ stored' = TRUE
  /\ UNCHANGED <<init_flag_, conftree_, blocks, lost, dirty, asked, ended>>

getConfig(s, name) ==
  IF s \in DOMAIN conftree_ /\ Key(name) \in DOMAIN conftree_[s]
  THEN conftree_[s][Key(name)] ELSE NoText

\* An item that its section lacks goes to a new section, which is there
\* already: the item is lost with the block.
setConfig(s, name, value) ==
  /\ asked' = [asked EXCEPT ![<<s, name>>] = value]
  /\ IF getConfig(s, name) # NoText
     THEN /\ conftree_' = [conftree_ EXCEPT ![s][Key(name)] = value]
          /\ UNCHANGED <<blocks, lost>>
     ELSE /\ blocks' = blocks + 1 /\ blocks' <= MaxBlocks
          /\ conftree_' = Insert(conftree_, <<[key |-> s, value |-> Items(<<[key |-> Key(name), value |-> value]>>)]>>)
          /\ lost' = IF s \in DOMAIN conftree_ THEN lost + 1 ELSE lost
  /\ UNCHANGED <<init_flag_, file, stored, dirty, ended>>

Next ==
  /\ ~ended
  /\ \/ Load \/ Reload \/ Free \/ Storage
     \/ \E s \in Sections, name \in Names, value \in Texts : setConfig(s, name, value)

Spec == Init /\ [][Next]_vars

-----------------------------------------------------------------------------
TypeOK ==
  /\ {init_flag_, stored, dirty, ended} \subseteq BOOLEAN
  /\ DOMAIN conftree_ \subseteq Sections
  /\ \A s \in DOMAIN conftree_ :
       DOMAIN conftree_[s] \subseteq Keys /\ \A k \in DOMAIN conftree_[s] : conftree_[s][k] \in Texts
  /\ blocks \in 0..MaxBlocks /\ lost \in 0..MaxBlocks

\* Every section has one block, and every other block is lost; an item is
\* found by its name only if the program set it or its own file had it, and
\* with the value set last: what Storage writes is never found again.
IniSound ==
  /\ blocks = Cardinality(DOMAIN conftree_) + lost
  /\ \A s \in Sections, n \in Names :
       /\ getConfig(s, n) # NoText => dirty \/ asked[<<s, n>>] # NoText
       /\ asked[<<s, n>>] # NoText => getConfig(s, n) \in {asked[<<s, n>>], NoText}
=============================================================================
