------------------------------- MODULE Memory -------------------------------
(***************************************************************************)
(* mm/memory.c: the pages of main memory, the count of each in mem_map and *)
(* the page tables of the tasks, as operators on one record m:             *)
(*                                                                         *)
(*   m.mem_map[p]      the count of page p; free_page panics when it would *)
(*                     become negative, here it does                       *)
(*   m.pg_dir[s][d]    the page that holds page table d of task slot s     *)
(*   m.pg_table[s][a]  the entry for address a = <<d, e>> of s             *)
(*   m.data[p]         what is in page p, as far as programs care          *)
(*                                                                         *)
(* Pages below LOW_MEM belong to the kernel; the first process shares some *)
(* of them.  They are not counted.                                         *)
(***************************************************************************)
EXTENDS Integers, FiniteSetsExt

CONSTANTS Slots,             \* the entries of task[] but the first
          Pages,             \* the pages from LOW_MEM on, by number
          LowPages,          \* pages below LOW_MEM
          Dirs,              \* the directory entries of a task, numbers
          Entries,           \* the entries of a page table
          Values, Zero,      \* the contents of a page
          NoPage, NotPresent

ASSUME MemoryAssumption ==
  /\ Pages \subseteq Nat /\ IsFiniteSet(Pages)
  /\ Dirs \subseteq Nat /\ IsFiniteSet(Dirs) /\ IsFiniteSet(Entries)
  /\ IsFiniteSet(Slots)
  /\ LowPages \cap Pages = {} /\ NoPage \notin Pages
  /\ Zero \in Values

Addresses == Dirs \X Entries
Frames == Pages \cup LowPages
Pte == [page : Frames, w : BOOLEAN]
ASSUME NotPresentAssumption == NotPresent \notin Pte

MemoryState ==
  [mem_map  : [Pages -> Nat],
   pg_dir   : [Slots -> [Dirs -> Pages \cup {NoPage}]],
   pg_table : [Slots -> [Addresses -> Pte \cup {NotPresent}]],
   data     : [Frames -> Values]]

FreePages(m) == {p \in Pages : m.mem_map[p] = 0}

(* The addresses of s that refer to page p *)
Refs(m, s, p) ==
  {a \in Addresses : m.pg_table[s][a] # NotPresent /\ m.pg_table[s][a].page = p}
TablesAt(m, s, p) == {d \in Dirs : m.pg_dir[s][d] = p}

(* The entries and the tables of all tasks that refer to page p *)
EntriesTo(m, p) == {x \in Slots \X Addresses : x[2] \in Refs(m, x[1], p)}
TablesTo(m, p) == {x \in Slots \X Dirs : x[2] \in TablesAt(m, x[1], p)}

(* get_free_page: the last free page, cleared.  It is asked for only where *)
(* FreePages is not empty; what the code does otherwise is up to the       *)
(* caller.                                                                 *)
LastFree(m) == Max(FreePages(m))

(* Mutant: the page is not cleared. *)
get_dirty_page(m) == [m EXCEPT !.mem_map[LastFree(m)] = 1]

get_free_page(m) ==
  [m EXCEPT !.mem_map[LastFree(m)] = 1, !.data[LastFree(m)] = Zero]

free_page(m, p) == IF p \in Pages THEN [m EXCEPT !.mem_map[p] = @ - 1] ELSE m

(* free_page_tables: every page an entry refers to, then every table. *)
free_page_tables(m, s) ==
  [m EXCEPT !.mem_map = [p \in Pages |-> @[p] - Cardinality(Refs(m, s, p))
                                              - Cardinality(TablesAt(m, s, p))],
            !.pg_table[s] = [a \in Addresses |-> NotPresent],
            !.pg_dir[s] = [d \in Dirs |-> NoPage]]

Rank(x, S) == Cardinality({y \in S : y < x})
Present(m, s) == {d \in Dirs : m.pg_dir[s][d] # NoPage}

(* The directory entries of s that are copied before memory runs out *)
Copied(m, s) ==
  {d \in Present(m, s) : Rank(d, Present(m, s)) < Cardinality(FreePages(m))}

(* The page that becomes the copy of table d: each takes the last free one *)
NewTable(m, s, d) ==
  CHOOSE p \in FreePages(m) :
    Cardinality({q \in FreePages(m) : q > p}) = Rank(d, Present(m, s))

(* The entry without its write bit *)
Protected(x) == IF x = NotPresent THEN x ELSE [x EXCEPT !.w = FALSE]

(* The parent's entry is protected unless its page is the kernel's. *)
SourceProtected(x) ==
  IF x = NotPresent \/ x.page \in LowPages THEN x ELSE Protected(x)

(* The entries whose copies refer to p *)
Shared(m, from, p) == {a \in Refs(m, from, p) : a[1] \in Copied(m, from)}

(* copy_page_tables, as far as memory goes *)
CopyTables(m, from, to) ==
  LET D == Copied(m, from)
      there(a) == a[1] \in D
      tables == {NewTable(m, from, d) : d \in D}
  IN [m EXCEPT
        !.pg_dir[to] = [d \in Dirs |-> IF d \in D THEN NewTable(m, from, d) ELSE NoPage],
        !.pg_table = [@ EXCEPT
           ![from] = [a \in Addresses |->
                        IF there(a) THEN SourceProtected(m.pg_table[from][a])
                        ELSE m.pg_table[from][a]],
           ![to] = [a \in Addresses |->
                        IF there(a) THEN Protected(m.pg_table[from][a]) ELSE NotPresent]],
        !.mem_map = [p \in Pages |-> IF p \in tables THEN 1
                              ELSE @[p] + Cardinality(Shared(m, from, p))],
        !.data = [p \in Frames |-> IF p \in tables THEN Zero ELSE @[p]]]
CopyFits(m, from) == Copied(m, from) = Present(m, from)

(* put_page of page p: it needs a page for the table if there is none yet. *)
PutFits(m, s, a) == m.pg_dir[s][a[1]] # NoPage \/ FreePages(m) # {}
put_page(m, s, a, p) ==
  LET m1 == IF m.pg_dir[s][a[1]] # NoPage THEN m
            ELSE [get_free_page(m) EXCEPT !.pg_dir[s][a[1]] = LastFree(m)]
  IN [m1 EXCEPT !.pg_table[s][a] = [page |-> p, w |-> TRUE]]

(* un_wp_page: a page nobody else refers to becomes writable *)
MayUnprotect(m, s, a) ==
  LET p == m.pg_table[s][a].page IN p \in Pages /\ m.mem_map[p] = 1

Unprotect(m, s, a) == [m EXCEPT !.pg_table[s][a].w = TRUE]

(* Mutant: the old page keeps its count. *)
UncountedCopy(m, s, a) ==
  LET p == m.pg_table[s][a].page
  IN [get_free_page(m) EXCEPT
        !.pg_table[s][a] = [page |-> LastFree(m), w |-> TRUE],
        !.data[LastFree(m)] = m.data[p]]

(* un_wp_page: any other is copied to a page of its own. *)
CopyOnWrite(m, s, a) ==
  LET p == m.pg_table[s][a].page
  IN [free_page(get_free_page(m), p) EXCEPT
        !.pg_table[s][a] = [page |-> LastFree(m), w |-> TRUE],
        !.data[LastFree(m)] = m.data[p]]
=============================================================================
