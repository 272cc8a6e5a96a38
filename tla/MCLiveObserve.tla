--------------------------- MODULE MCLiveObserve ---------------------------
(* Two watched exports e1 and e2 and two return addresses: r1, in unwatched *)
(* code, and e2 itself (a call placed right before the entry of e2).        *)
EXTENDS LiveObserve

CONSTANTS e1, e2, r1, r2, zero

MCAddr == {e1, e2, r1}
MCEntry == {e1, e2}
MCSite == {r1, e2, zero}

\* One export and two return addresses: nested calls with distinct sites.
MCAddrDeep == {e1, r1, r2}
MCEntryDeep == {e1}
MCSiteDeep == {r1, r2}

\* One export with one return address: the smallest target.
MCAddrSmall == {e1, r1}
MCEntrySmall == {e1}
MCSiteSmall == {r1}
====
