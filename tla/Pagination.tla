------------------------------ MODULE Pagination ------------------------------
(***************************************************************************)
(* The arithmetic of a list shown in pages (webmail/pagination.go): how    *)
(* many pages there are, which one is shown, the record it begins with,    *)
(* and the links around it.                                                *)
(***************************************************************************)
EXTENDS Integers

Least(a, b) == IF a < b THEN a ELSE b
Most(a, b) == IF a < b THEN b ELSE a

(* A page without a limit has ten records.                                   *)
LimitOf(limit) == IF limit < 1 THEN 10 ELSE limit

(* total / limit, rounded up.                                                *)
PagesOf(total, limit) == (total + limit - 1) \div limit

(* A page before the first is the first, one after the last is the last; of  *)
(* no pages at all that is page 0.                                           *)
PageOf(curpage, pages) == Least(Most(curpage, 1), pages)

Beginnum(page, pages) ==
  Most(1, IF page > pages - 5 THEN pages - 9
          ELSE IF page < 5 THEN 1 ELSE page - 4)

Endnum(page, pages) ==
  Least(pages, IF page > pages - 5 THEN pages
               ELSE IF page < 5 THEN 10 ELSE page + 5)

Offset_OneOff(page, limit) == page * limit

Offset_SkipsOne(page, limit) == (page - 1) * (limit + 1)

Offset(page, limit) == (page - 1) * limit

Paginate(total, limit, curpage) ==
  LET pages == PagesOf(total, LimitOf(limit))
      page == PageOf(curpage, pages)
  IN  [page |-> page, pages |-> pages,
       beginnum |-> Beginnum(page, pages), endnum |-> Endnum(page, pages),
       offset |-> Offset(page, LimitOf(limit)), limit |-> LimitOf(limit)]

(* The links of style 3, the one the list's template uses.                   *)
HasPrevious(p) == p.pages > 1 /\ p.page > p.beginnum
HasNext(p) == p.pages > 1 /\ p.page < p.endnum
===============================================================================
