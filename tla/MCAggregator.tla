---------------------------- MODULE MCAggregator ----------------------------
\* The model-checking instance of Aggregator: four orders of two products, with
\* three prices or none that is a number.
EXTENDS Aggregator

SomePrices == {2, 3, 7}
=============================================================================
