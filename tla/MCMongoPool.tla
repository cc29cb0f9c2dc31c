---------------------------- MODULE MCMongoPool ----------------------------
EXTENDS MongoPool

\* The collectors of a scrape: the one that reports mongodb_up, the one with the
\* deferred Disconnect, and one of the other fifteen.
Order == <<"info", "config", "plain">>
=============================================================================
