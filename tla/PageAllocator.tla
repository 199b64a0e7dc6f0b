--------------------------- MODULE PageAllocator ---------------------------
(***************************************************************************)
(* page_allocator and its page_allocator_context, of                       *)
(* src/include/nie/page_allocator.hpp: memory is carved from pages that    *)
(* grow, and is never used again.                                          *)
(*                                                                         *)
(* A page is a number, its position in the order they were made; page 0 is *)
(* null.  Sizes are bytes, and size_t has W bits: the products of          *)
(* allocate() can wrap.  The two calls of allocate() that can throw half   *)
(* way, which leave the context as it is by then, do so if CanFail.        *)
(* A require() that fails ends the process.                                *)
(***************************************************************************)
EXTENDS Integers, Sequences

CONSTANTS
  Users, Sizes, None,
  Alignments,   \* alignment_of_v<T>
  W,            \* the width of size_t
  MinPage,      \* 1048576 in the code
  WordBytes,    \* sizeof(uint64_t)
  CanFail,
  MaxPages      \* bound on the number of pages

(* That 2^W is a number is for the provers.                                *)
PageAssumption ==
  /\ W \in Nat /\ 2^W \in Nat \ {0}
  /\ WordBytes \in Nat \ {0} /\ MinPage \in Nat /\ MinPage >= 2 * WordBytes
  /\ Sizes \subseteq 0 .. (2^W - 1) /\ Alignments \subseteq Nat \ {0}
  /\ CanFail \in BOOLEAN /\ MaxPages \in Nat

(* Nobody asks for a third of what size_t can count, and no alignment is   *)
(* near half of it: nothing below wraps.                                   *)
RequestsFit ==
  \A n \in Sizes : 3 * n < 2^W /\ \A a \in Alignments : 2 * (n + a) <= 2^W

VARIABLES
  block,     \* the allocation of each user, with its page and offset
  pages,     \* the sizes of all pages
  page,      \* current_page
  page_size, page_offset,   \* current_page_size, current_page_offset
  ended,     \* a require() failed
  failed     \* an allocation threw half way (history)

context == <<pages, page, page_size, page_offset>>
vars == <<block, context, ended, failed>>

Wrap(n) == n % 2^W

Init ==
  /\ block = [u \in Users |-> None]
  /\ pages = <<>> /\ page = 0
  /\ page_size = 0 /\ page_offset = 0
  /\ ended = FALSE /\ failed = FALSE

(* Mutant: the offset is rounded down.                                     *)
AlignedDown(a) == (page_offset \div a) * a

Aligned(a) == ((page_offset + a - 1) \div a) * a

(* Mutant: the end of the request is not looked at, only its beginning.    *)
FitsStart(n, a) == Aligned(a) < page_size

Fits(n, a) == Wrap(Aligned(a) + n) < page_size

Larger(x, y) == IF x < y THEN y ELSE x

(* The next page is half as large again, or thrice the request; it has     *)
(* whole words.                                                            *)
NewSize(n) ==
  LET grown == Wrap((page_size * 3) \div 2)
      enough == IF grown < Wrap(n * 2) THEN Wrap(n * 3) ELSE grown
  IN  Larger(enough, MinPage)

PageBytes(n) == (NewSize(n) \div WordBytes) * WordBytes

(* No object takes half of what size_t can count: operator new throws.     *)
Obtainable(n) == 2 * PageBytes(n) < 2^W

(* Lines 44-48: the request is carved at `offset', if it fits.             *)
Carve(u, n, pg, size, offset) ==
  IF Wrap(offset + n) < size
  THEN /\ block' = [block EXCEPT ![u] = [page |-> pg, offset |-> offset, len |-> n]]
       /\ page_offset' = Wrap(offset + n)
       /\ UNCHANGED ended
  ELSE /\ ended' = TRUE
       /\ page_offset' = offset
       /\ UNCHANGED block

(* allocate() from the current page.                                       *)
FromPage(u, n, a) ==
  /\ Fits(n, a)
  /\ Carve(u, n, page, page_size, Aligned(a))
  /\ UNCHANGED <<pages, page, page_size, failed>>

(* allocate() from a new page.                                             *)
FromNewPage(u, n, a) ==
  /\ ~Fits(n, a) /\ Obtainable(n) /\ Len(pages) < MaxPages
  /\ pages' = Append(pages, PageBytes(n))
  /\ page' = Len(pages) + 1
  /\ page_size' = PageBytes(n)
  /\ Carve(u, n, Len(pages) + 1, PageBytes(n), 0)
  /\ UNCHANGED failed

(* old_pages.emplace_back() throws: the page stays, but the offset is 0.   *)
OldPagesFail(n, a) ==
  /\ CanFail /\ ~Fits(n, a)
  /\ page_offset' = 0
  /\ failed' = TRUE
  /\ UNCHANGED <<block, pages, page, page_size, ended>>

(* make_unique() throws: the page is gone, its size stays.                 *)
MakePageFail(n, a) ==
  /\ CanFail \/ ~Obtainable(n)
  /\ ~Fits(n, a)
  /\ page' = 0 /\ page_offset' = 0
  /\ failed' = TRUE
  /\ UNCHANGED <<block, pages, page_size, ended>>

Allocate(u, n, a) ==
  /\ ~ended /\ block[u] = None
  /\ \/ FromPage(u, n, a) \/ FromNewPage(u, n, a)
     \/ OldPagesFail(n, a) \/ MakePageFail(n, a)

(* deallocate() does nothing: the memory stays where it is.                *)
Deallocate(u) ==
  /\ ~ended /\ block[u] # None
  /\ block' = [block EXCEPT ![u] = None]
  /\ UNCHANGED <<context, ended, failed>>

Next ==
  \E u \in Users :
    \/ \E n \in Sizes, a \in Alignments : Allocate(u, n, a)
    \/ Deallocate(u)

Spec == Init /\ [][Next]_vars

----------------------------------------------------------------------------
(* Properties.                                                             *)

Held == {u \in Users : block[u] # None}

(* Values have their types; the offset stays in the page.                  *)
TypeOK ==
  /\ block \in [Users -> [page : Nat, offset : Nat, len : Sizes] \cup {None}]
  /\ pages \in Seq(Nat)
  /\ page \in 0 .. Len(pages)
  /\ page_size \in 0 .. (2^W - 1) /\ page_offset \in 0 .. page_size
  /\ ended \in BOOLEAN /\ failed \in BOOLEAN

InPage(b) ==
  b.page \in DOMAIN pages /\ b.offset + b.len <= pages[b.page]

(* Until an allocation throws half way, what is given out lies in a page.  *)
InPages == ~failed => \A u \in Held : InPage(block[u])

(* The require() before the carving (page_allocator.hpp:44) says that the  *)
(* request fits in the current page; so what is given out lies in a page.  *)
AlwaysInPage == \A u \in Held : InPage(block[u])

(* Neither require() ever ends the process (page_allocator.hpp:44,47):     *)
(* the page that was made for a request is large enough for it.            *)
RequiresHold == ~ended

(* A page is a region of its own, and null one below all of them.          *)
PageSpace == 2^W
Flat(b) == IF b = None THEN None
           ELSE [addr |-> b.page * PageSpace + b.offset, len |-> b.len]

Contract ==
  INSTANCE Allocator WITH block <- [u \in Users |-> Flat(block[u])]

(* Until an allocation throws half way, the users get what the allocators  *)
(* promise: memory of their own.                                           *)
Allocates == Contract!Init /\ [][~failed' => Contract!Next]_(block)
============================================================================
