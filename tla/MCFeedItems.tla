----------------------------- MODULE MCFeedItems -----------------------------
(* FeedItems for model checking: entries with and without each part. *)
EXTENDS FeedItems

Entry(guid, link, authors, summary, content, enclosures) ==
    [guid |-> guid, link |-> link, authors |-> authors, summary |-> summary,
     content |-> content, enclosures |-> enclosures]
Enclosure(url, type, size) == [url |-> url, type |-> type, size |-> size]

MCEntries ==
    {Entry(TRUE, FALSE, TRUE, FALSE, "html", <<Enclosure(TRUE, TRUE, -1), Enclosure(TRUE, FALSE, 1)>>),
     Entry(TRUE, TRUE, FALSE, TRUE, "text", <<>>),
     Entry(FALSE, TRUE, FALSE, TRUE, "none", <<Enclosure(FALSE, TRUE, 1)>>),
     Entry(FALSE, TRUE, TRUE, TRUE, "empty", <<>>),
     Entry(FALSE, FALSE, TRUE, TRUE, "html", <<>>),
     Entry(FALSE, FALSE, FALSE, FALSE, "none", <<>>)}
=============================================================================
