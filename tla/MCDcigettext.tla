---------------------------- MODULE MCDcigettext ----------------------------
(***************************************************************************)
(* Small instances of libintl for TLC.                                     *)
(***************************************************************************)
EXTENDS DcigettextInv, TLC

CONSTANTS t1, t2, messages, prog, usr, opt, utf8, C, de, de_DE, fr, m1

MCThreads2 == {t1, t2}

\* In the locale "de" the catalog de_DE is tried before de.
MCCatalogNames == {de_DE, de} \cup (Locales \cap {fr})
MCTried == [l \in Locales |-> CASE l = de -> <<de_DE, de>> [] l = fr -> <<fr>> [] OTHER -> <<>>]

\* Every directory has a German catalog, one of them has all the others too.
MCInstalled ==
  {<<Catalog(dir, loc, dom), m1>> :
     <<dir, loc>> \in (Dirs \X {de}) \cup ((Dirs \cap {opt}) \X MCCatalogNames), dom \in Domains}

\* Or only that one has catalogs.
MCInstalledOpt == {entry \in MCInstalled : entry[1].dir = opt}

\* The message may be lost in all catalogs but the last one that is tried, or in
\* the French one.
MCFailing   == {entry \in MCInstalled : entry[1].loc # de}
MCFailingFr == {entry \in MCFailing : entry[1].loc = fr}
MCNone      == {}

\* LANGUAGE unset, and LANGUAGE=fr:de.
MCUnset     == {<<>>}
MCLanguages == {<<>>, <<fr, de>>}

MCSymmetry2 == Permutations(MCThreads2)
=============================================================================
