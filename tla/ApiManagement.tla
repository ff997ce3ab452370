--------------------------- MODULE ApiManagement ---------------------------
(***************************************************************************)
(* Microsoft.ApiManagement (internal/services/apimanagement): services,    *)
(* their APIs with operations, their products with links to APIs, and      *)
(* their subscriptions.  Deleting one deletes what is kept below it, one   *)
(* database call at a time, from the inside out.                           *)
(***************************************************************************)
EXTENDS ArmStore

CONSTANTS
    ApimNames,    \* names of services
    ApiNames,
    OperationNames,
    ProductNames, \* and the names of subscriptions
    Titles        \* contents stored as they are

-----------------------------------------------------------------------------

ApimService(s) == <<"apimanagement.services", s>>
Api(s, a) == <<"apimanagement.apis", s, a>>
ApiOperation(s, a, o) == <<"apimanagement.operations", s, a, o>>
Product(s, p) == <<"apimanagement.products", s, p>>
ProductAPI(s, p, a) == <<"apimanagement.productapis", s, p, a>>
ApimSubscription(s, i) == <<"apimanagement.subscriptions", s, i>>

\* Everything in a service but what is derived from its id is the request's.
PutService(c, s, x) == Putting(c, ApimService(s), [title |-> x])

\* The sweeps of a deletion: the operations of each API before the API, the
\* links of each product before the product, then the subscriptions.
AllAPIs(s) == Sweep(<<"apimanagement.apis", s>>, "apimanagement.operations")
AllProducts(s) == Sweep(<<"apimanagement.products", s>>, "apimanagement.productapis")
AllSubscriptions(s) == Sweep(<<"apimanagement.subscriptions", s>>, "")

\* A broken DeleteService: the service goes first.
DeleteServiceFirst(c, s) ==
    /\ Has(ApimService(s))
    /\ Begin(c, "delete", ApimService(s),
             <<Drop(ApimService(s)), AllAPIs(s), AllProducts(s), AllSubscriptions(s)>>)

DeleteService(c, s) ==
    /\ Has(ApimService(s))
    /\ Begin(c, "delete", ApimService(s),
             <<AllAPIs(s), AllProducts(s), AllSubscriptions(s), Drop(ApimService(s))>>)

PutAPI(c, s, a, x) == Has(ApimService(s)) /\ Putting(c, Api(s, a), [title |-> x])

\* No check that the API is there.
DeleteAPI(c, s, a) ==
    Begin(c, "delete", Api(s, a),
          <<Sweep(<<"apimanagement.operations", s, a>>, ""), Drop(Api(s, a))>>)

PutOperation(c, s, a, o, x) == Has(Api(s, a)) /\ Putting(c, ApiOperation(s, a, o), [title |-> x])
DeleteOperation(c, s, a, o) == Begin(c, "delete", ApiOperation(s, a, o), <<Drop(ApiOperation(s, a, o))>>)

PutProduct(c, s, p, x) == Has(ApimService(s)) /\ Putting(c, Product(s, p), [title |-> x])

DeleteProduct(c, s, p) ==
    Begin(c, "delete", Product(s, p),
          <<Sweep(<<"apimanagement.productapis", s, p>>, ""), Drop(Product(s, p))>>)

\* A link is a copy of the API as it is now.
PutProductAPI(c, s, p, a) ==
    /\ Has(Product(s, p))
    /\ Has(Api(s, a))
    /\ Putting(c, ProductAPI(s, p, a), docs[Api(s, a)])
DeleteProductAPI(c, s, p, a) == Begin(c, "delete", ProductAPI(s, p, a), <<Drop(ProductAPI(s, p, a))>>)

\* The keys of a subscription are derived from its id.
PutApimSubscription(c, s, i, x) ==
    Has(ApimService(s)) /\ Putting(c, ApimSubscription(s, i), [title |-> x])
DeleteApimSubscription(c, s, i) ==
    Begin(c, "delete", ApimSubscription(s, i), <<Drop(ApimSubscription(s, i))>>)

-----------------------------------------------------------------------------

ApimNext(c) ==
    \E s \in ApimNames :
       \/ \E x \in Titles : PutService(c, s, x)
       \/ DeleteService(c, s)
       \/ \E a \in ApiNames :
             \/ \E x \in Titles : PutAPI(c, s, a, x)
             \/ DeleteAPI(c, s, a)
             \/ \E o \in OperationNames, x \in Titles : PutOperation(c, s, a, o, x)
             \/ \E o \in OperationNames : DeleteOperation(c, s, a, o)
       \/ \E p \in ProductNames :
             \/ \E x \in Titles : PutProduct(c, s, p, x) \/ PutApimSubscription(c, s, p, x)
             \/ DeleteProduct(c, s, p)
             \/ DeleteApimSubscription(c, s, p)
             \/ \E a \in ApiNames : PutProductAPI(c, s, p, a) \/ DeleteProductAPI(c, s, p, a)
=============================================================================
