----------------------------- MODULE MCNewsFeed -----------------------------
(* NewsFeed on a feed of four pages, among them one of a single post.        *)
EXTENDS NewsFeed

FourPages == <<3, 1, 4, 2>>
=============================================================================
