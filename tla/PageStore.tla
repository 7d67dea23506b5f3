------------------------------- MODULE PageStore -------------------------------
(***************************************************************************)
(* What the buffer pool promises its clients: a store of pages that keeps  *)
(* the last content written to each, as if there were no frames, no        *)
(* replacement and no file.  Only a restart shows the file: every page     *)
(* then has the content that was saved last.                               *)
(***************************************************************************)

CONSTANTS
  Page,                     \* page ids
  Content,                  \* what a page can hold
  Blank                     \* what a new page holds

VARIABLES
  store,                    \* content of each allocated page, for its readers
  durable                   \* what a restart would find, for every page

vars == <<store, durable>>

Init ==
  /\ store = [p \in {} |-> Blank]
  /\ durable \in [Page -> Content]

(* Any allocated page may be saved at any time, with the content it has;   *)
(* the file's copy of a page that is not allocated may be anything.        *)
Save ==
  /\ durable' \in [Page -> Content]
  /\ \A p \in DOMAIN store \cap DOMAIN store' :
       durable'[p] \in {durable[p], store[p]}

New(p) ==
  /\ p \notin DOMAIN store
  /\ store' = [q \in DOMAIN store \cup {p} |->
                 IF q = p THEN Blank ELSE store[q]]
  /\ Save

Overwrite(p, c) ==
  /\ p \in DOMAIN store
  /\ store' = [store EXCEPT ![p] = c]
  /\ UNCHANGED durable

Delete(p) ==
  /\ p \in DOMAIN store
  /\ store' = [q \in DOMAIN store \ {p} |-> store[q]]
  /\ Save

Background == UNCHANGED store /\ Save

Restart ==
  /\ store' = [p \in DOMAIN store |-> durable[p]]
  /\ UNCHANGED durable

Next ==
  \/ \E p \in Page : New(p) \/ Delete(p)
  \/ \E p \in Page, c \in Content : Overwrite(p, c)
  \/ Background
  \/ Restart

Spec == Init /\ [][Next]_vars
===============================================================================
